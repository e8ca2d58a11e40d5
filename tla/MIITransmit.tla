---------------------------- MODULE MIITransmit -----------------------------
(***************************************************************************)
(* What the transmit half of the Ethernet PHY promises the host's link: it *)
(* looks at TXD, TX_EN and TX_ER on every rising edge of TX_CLK.  A frame  *)
(* starts on the edge that finds TX_EN high and the start frame delimiter  *)
(* on TXD, takes one nibble from every later edge with TX_EN high and      *)
(* TX_ER low, and ends on the first edge that finds TX_EN low.  The link   *)
(* is then handed the octets without their check sequence, if no edge of   *)
(* the frame found TX_ER high, the frame has the minimum size and its      *)
(* check sequence is right.  The frame is kept here as the nibbles sampled;*)
(* the PHY's members and its place in the scheduler's queue are module     *)
(* EthernetPhyTx.                                                          *)
(***************************************************************************)
EXTENDS Naturals, Sequences

CONSTANTS
  MinFrameSize,   \* shortest frame accepted, check sequence included
  CrcSize,        \* bytes of the frame check sequence
  Crc(_),         \* the check sequence of a sequence of bytes, low byte first
  Levels,         \* the values TXD may carry
  NoFrame         \* nothing is handed to the link

VARIABLES
  txd, txen, txer,  \* the levels of the three wires
  clk,              \* the level of TX_CLK
  active,           \* a frame is being taken
  bad,              \* an edge of this frame found TX_ER high
  burst,            \* the nibbles of this frame, in the order sampled
  link              \* what the last rising edge handed to the link

vars == <<txd, txen, txer, clk, active, bad, burst, link>>

SFD == 13

\* The octets of a sequence of nibbles, low nibble first; a nibble left
\* over at the end belongs to no octet.
Octets(nibbles) ==
  [i \in 1 .. Len(nibbles) \div 2 |-> nibbles[2 * i - 1] + 16 * nibbles[2 * i]]

Payload(octets) == SubSeq(octets, 1, Len(octets) - CrcSize)

Intact(octets) ==
  /\ Len(octets) >= MinFrameSize
  /\ SubSeq(octets, Len(octets) - CrcSize + 1, Len(octets)) = Crc(Payload(octets))

Init ==
  /\ txd = 0 /\ txen = 0 /\ txer = 0 /\ clk = 0
  /\ active = FALSE /\ bad = FALSE /\ burst = <<>>
  /\ link = NoFrame

\* The core's ports change the wires at any time between two edges.
Change ==
  /\ txd' \in Levels /\ txen' \in {0, 1} /\ txer' \in {0, 1}
  /\ UNCHANGED <<clk, active, bad, burst, link>>

StartOfFrame ==
  /\ ~active /\ txen = 1 /\ txd = SFD
  /\ active' = TRUE /\ bad' = (txer = 1)
  /\ UNCHANGED <<burst, link>>

Quiet ==
  /\ ~active /\ ~(txen = 1 /\ txd = SFD)
  /\ UNCHANGED <<active, bad, burst, link>>

Nibble ==
  /\ active /\ txen = 1
  /\ bad' = (bad \/ txer = 1)
  /\ burst' = IF txer = 1 THEN burst ELSE Append(burst, txd)
  /\ UNCHANGED <<active, link>>

EndOfFrame ==
  /\ active /\ txen = 0
  /\ link' = IF ~bad /\ Intact(Octets(burst))
               THEN Payload(Octets(burst)) ELSE NoFrame
  /\ active' = FALSE /\ bad' = FALSE /\ burst' = <<>>

Rising ==
  /\ clk = 0 /\ clk' = 1
  /\ StartOfFrame \/ Quiet \/ Nibble \/ EndOfFrame
  /\ UNCHANGED <<txd, txen, txer>>

\* By the falling edge the link has taken what it was handed.
Falling ==
  /\ clk = 1 /\ clk' = 0
  /\ link' = NoFrame
  /\ UNCHANGED <<txd, txen, txer, active, bad, burst>>

Next == Change \/ Rising \/ Falling

Spec == Init /\ [][Next]_vars

=============================================================================
