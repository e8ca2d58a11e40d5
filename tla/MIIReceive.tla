----------------------------- MODULE MIIReceive -----------------------------
(***************************************************************************)
(* What the receive half of the Ethernet PHY promises the simulated core:  *)
(* every frame taken from the host's link appears on the four RXD wires as *)
(* one nibble per clock period, RX_DV high from the preamble nibble to the *)
(* last nibble of the frame check sequence, and no frame starts before the *)
(* interframe gap has passed.  The wire format is given here as a sequence *)
(* of nibbles; the PHY's state machine is module EthernetPhyRx.            *)
(***************************************************************************)
EXTENDS Naturals, Sequences

CONSTANTS
  Frames,         \* the frames the link may hold, sequences of bytes
  MinFrameSize,   \* shortest frame on the wire, check sequence included
  CrcSize,        \* bytes of the frame check sequence
  InterframeGap,  \* clock periods from the end of a frame to the next poll
  Crc(_)          \* the check sequence of a sequence of bytes, low byte first

VARIABLES
  rxd,    \* the nibble on the RXD wires
  rxdv,   \* the level of RX_DV
  rest,   \* the nibbles of the frame still to be driven
  idle    \* clock periods of the gap still to pass

vars == <<rxd, rxdv, rest, idle>>

Preamble == 5
SFD      == 13

\* A frame shorter than the minimum is filled with zero bytes.
Padded(f) ==
  LET short == (MinFrameSize - CrcSize) - Len(f)
  IN  IF Len(f) + CrcSize < MinFrameSize THEN f \o [i \in 1 .. short |-> 0] ELSE f

\* The nibbles of a sequence of bytes, the low nibble of each byte first.
Nibbles(bytes) ==
  [i \in 1 .. 2 * Len(bytes) |->
     IF i % 2 = 1 THEN bytes[(i + 1) \div 2] % 16
                  ELSE bytes[i \div 2] \div 16]

\* What follows the preamble nibble on the wire.
Encoded(f) == <<SFD>> \o Nibbles(Padded(f) \o Crc(Padded(f)))

Init ==
  /\ rxd = 0 /\ rxdv = 0
  /\ rest = <<>>
  /\ idle = 0

Start(f) ==
  /\ rxdv = 0 /\ idle = 0
  /\ rxd' = Preamble /\ rxdv' = 1
  /\ rest' = Encoded(f)
  /\ UNCHANGED idle

Drive ==
  /\ rest # <<>>
  /\ rxd' = Head(rest)
  /\ rest' = Tail(rest)
  /\ UNCHANGED <<rxdv, idle>>

End ==
  /\ rxdv = 1 /\ rest = <<>>
  /\ rxd' = 0 /\ rxdv' = 0
  /\ idle' = InterframeGap - 1
  /\ UNCHANGED rest

Wait ==
  /\ idle > 0
  /\ idle' = idle - 1
  /\ UNCHANGED <<rxd, rxdv, rest>>

Next == (\E f \in Frames : Start(f)) \/ Drive \/ End \/ Wait

Spec == Init /\ [][Next]_vars

\* The receiver is ready for the next frame.
Ready == rxdv = 0 /\ idle = 0

=============================================================================
