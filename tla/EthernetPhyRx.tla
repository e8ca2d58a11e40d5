---------------------------- MODULE EthernetPhyRx ----------------------------
(***************************************************************************)
(* The receive half of the Ethernet PHY, class EthernetPhyRx: a runnable   *)
(* that the scheduler runs on the falling edges of RX_CLK.  It polls the   *)
(* host's link for a frame, pads it, appends the check sequence and drives *)
(* it onto the ports RXD and RX_DV one nibble per run.  The record rx has  *)
(* the members of the class; its fields RXD and RX_DV are the levels last  *)
(* given to the ports behind those pointers.  The buffer frame and its     *)
(* length frameSize are one sequence.                                      *)
(***************************************************************************)
EXTENDS Naturals, Sequences

CONSTANTS
  Frames,         \* the frames the link may hold, sequences of bytes
  MinFrameSize,   \* minFrameSize (64)
  CrcSize,        \* bytes appendCRC32 appends (4)
  MaxFrameSize,   \* NetworkLink::maxFrameSize, the length of the buffer (1518)
  InterframeGap,  \* interframeGap (24)
  Crc(_),         \* crc8 over the bytes, then crc32 and inversion, low byte first
  NoFrame         \* receiveFrame returned false

ASSUME /\ CrcSize \in Nat \ {0} /\ MinFrameSize > CrcSize
       /\ InterframeGap \in Nat \ {0}
       /\ \A f \in Frames : f \in Seq(0 .. 255) /\ Len(f) + CrcSize <= MaxFrameSize
       /\ NoFrame \notin Frames

VARIABLES
  rx,    \* the members of the EthernetPhyRx object
  wait   \* clock periods before the scheduler runs the receiver again

vars == <<rx, wait>>

States == {"IDLE", "TX_SFD2", "TX_FRAME", "TX_EFD"}

frameSize(r) == Len(r.frame)

\* The constructor: the receiver is queued for the first falling edge.
Constructed ==
  [state |-> "IDLE", frame |-> <<>>, nibblesReceieved |-> 0,
   RXDValue |-> 0, RXD |-> 0, RX_DV |-> 0]

AppendCRC32(r) == [r EXCEPT !.frame = @ \o Crc(@)]

\* Mutation of ReceiveFrame: a short frame is not padded.
ReceiveFrameUnpadded(r, got) ==
  AppendCRC32([r EXCEPT !.frame = got])

\* receiveFrame() when the link has the frame got.
ReceiveFrame(r, got) ==
  LET minSize == MinFrameSize - CrcSize
  IN  AppendCRC32([r EXCEPT !.frame =
        IF Len(got) < minSize
          THEN got \o [i \in 1 .. minSize - Len(got) |-> 0] ELSE got])

\* The port is told of a value only when it differs from the last one.
SetRXD(r, value) ==
  IF value = r.RXDValue THEN r
  ELSE [r EXCEPT !.RXD = value, !.RXDValue = value]

\* Mutation of NextNibble: the high nibble of a byte goes first.
NextNibbleHighFirst(r) ==
  LET byteNum   == r.nibblesReceieved \div 2
      nibbleNum == 1 - (r.nibblesReceieved % 2)
  IN  (r.frame[byteNum + 1] \div 16^nibbleNum) % 256

\* (frame[byteNum] >> (nibbleNum * 4)) & 0xff
NextNibble(r) ==
  LET byteNum   == r.nibblesReceieved \div 2
      nibbleNum == r.nibblesReceieved % 2
  IN  (r.frame[byteNum + 1] \div 16^nibbleNum) % 256

Counted(r) ==
  IF r.nibblesReceieved = frameSize(r) * 2
    THEN [r EXCEPT !.state = "TX_EFD"] ELSE r

\* Mutation of RunEFD: the state is left as it is.
RunEFDKeepingState(r) == [SetRXD(r, 0) EXCEPT !.RX_DV = 0]

RunIdle(r, got) ==
  IF got = NoFrame THEN r
  ELSE [SetRXD(ReceiveFrame(r, got), 5) EXCEPT !.RX_DV = 1, !.state = "TX_SFD2"]

RunSFD2(r) ==
  [SetRXD(r, 13) EXCEPT !.nibblesReceieved = 0, !.state = "TX_FRAME"]

RunFrame(r) ==
  Counted([SetRXD(r, NextNibble(r)) EXCEPT !.nibblesReceieved = @ + 1])

RunEFD(r) == [SetRXD(r, 0) EXCEPT !.RX_DV = 0, !.state = "IDLE"]

-----------------------------------------------------------------------------
Init ==
  /\ rx = Constructed
  /\ wait = 0

\* run() in IDLE: the link is polled.
Poll(got) ==
  /\ wait = 0 /\ rx.state = "IDLE"
  /\ rx' = RunIdle(rx, got)
  /\ UNCHANGED wait

\* run() in the states that drive the frame; the run that ends the frame
\* asks for the next one an interframe gap later.
Advance ==
  /\ wait = 0 /\ rx.state # "IDLE"
  /\ rx' = CASE rx.state = "TX_SFD2"  -> RunSFD2(rx)
             [] rx.state = "TX_FRAME" -> RunFrame(rx)
             [] rx.state = "TX_EFD"   -> RunEFD(rx)
  /\ wait' = IF rx.state = "TX_EFD" THEN InterframeGap - 1 ELSE 0

\* A falling edge for which the receiver is not queued.
Pass ==
  /\ wait > 0
  /\ wait' = wait - 1
  /\ UNCHANGED rx

Next == (\E got \in Frames \cup {NoFrame} : Poll(got)) \/ Advance \/ Pass

Spec == Init /\ [][Next]_vars

\* The receiver pushes itself at the end of every run and the scheduler
\* runs what is queued; that the link has a frame is not assumed.
FairSpec == Spec /\ WF_vars(Advance) /\ WF_vars(Pass)

-----------------------------------------------------------------------------
\* The nibbles the state machine has yet to drive.
Rest(r) ==
  LET all == [i \in 1 .. 2 * frameSize(r) |->
                (r.frame[(i + 1) \div 2] \div 16^((i + 1) % 2)) % 16]
  IN  CASE r.state = "TX_SFD2"  -> <<13>> \o all
        [] r.state = "TX_FRAME" ->
             SubSeq(all, r.nibblesReceieved + 1, Len(all))
        [] OTHER -> <<>>

\* The four wires of RXD carry the low four bits of what the port is given.
MII == INSTANCE MIIReceive WITH
         rxd <- rx.RXD % 16, rxdv <- rx.RX_DV, rest <- Rest(rx), idle <- wait

\* Type invariant.  With it: the frame with its check sequence fits the
\* buffer of maxFrameSize bytes, given that the link hands over frames
\* without their check sequence, and receiveFrame() has filled a frame on
\* the wire to the minimum size.
TypeOK ==
  /\ rx.state \in States
  /\ rx.frame \in Seq(0 .. 255) /\ frameSize(rx) <= MaxFrameSize
  /\ rx.state # "IDLE" => frameSize(rx) >= MinFrameSize
  /\ rx.nibblesReceieved \in 0 .. 2 * MaxFrameSize
  /\ rx.RXDValue \in 0 .. 255 /\ rx.RXD \in 0 .. 255
  /\ rx.RX_DV \in {0, 1}
  /\ wait \in 0 .. InterframeGap - 1

\* The state machine of run() implements the wire format of MIIReceive:
\* preamble nibble, start frame delimiter, the padded frame and its check
\* sequence low nibble first, then RX_DV low for the interframe gap.  Every
\* step of the receiver is a step of that specification or leaves its
\* variables unchanged.
RxImplementsMII == MII!Spec

\* The receiver comes back to polling the link again and again: a frame
\* once taken is driven to its end, the gap passes, and run() has queued
\* the receiver in every state.
LinkIsPolledAgain == []<>(rx.state = "IDLE" /\ wait = 0)

=============================================================================
