---------------------------- MODULE EthernetPhyTx ----------------------------
(***************************************************************************)
(* The transmit half of the Ethernet PHY, class EthernetPhyTx: the         *)
(* observer of the ports TXD, TX_EN and TX_ER and a runnable that samples  *)
(* them on rising edges of TX_CLK.  The PHY is not run on every edge: a    *)
(* change of TXD or TX_EN queues it when the wires may show the start      *)
(* frame delimiter, and run() queues it for the next edge only while TX_EN *)
(* is high.  The record tx has the members of the class, the three signals *)
(* as the levels last seen; queued says that the scheduler holds the PHY   *)
(* for the next rising edge, the only time it is ever pushed for.  Pins    *)
(* change between edges, as those of ports clocked from TX_CLK do.         *)
(***************************************************************************)
EXTENDS Naturals, Sequences

CONSTANTS
  MinFrameSize,   \* minFrameSize (64)
  CrcSize,        \* bytes of the check sequence (4)
  Crc(_),         \* crc8 over the bytes, inverted, low byte first
  Levels,         \* the values the port TXD may carry
  MaxFrame,       \* bound of the model: bytes taken into one frame
  NoFrame         \* run() did not call link->transmitFrame

ASSUME /\ Levels \subseteq 0 .. 15 /\ 13 \in Levels
       /\ CrcSize \in Nat \ {0} /\ MinFrameSize > CrcSize
       /\ MaxFrame \in Nat

VARIABLES
  tx,      \* the members of the EthernetPhyTx object
  queued,  \* the scheduler holds the PHY for the next rising edge
  clk,     \* the level of TX_CLK
  sent     \* what the last run handed to the link

vars == <<tx, queued, clk, sent>>

\* Mutation of Reset: a nibble waiting for its pair is kept.
ResetKeepingNibble(t) ==
  [t EXCEPT !.inFrame = FALSE, !.hadError = FALSE, !.frame = <<>>]

Reset(t) ==
  [t EXCEPT !.inFrame = FALSE, !.hadError = FALSE,
            !.hasPrevNibble = FALSE, !.frame = <<>>]

\* The constructor; prevNibble is left as the memory holds it.
Constructed(any) ==
  Reset([inFrame |-> FALSE, hadError |-> FALSE, frame |-> <<>>,
         hasPrevNibble |-> FALSE, prevNibble |-> any,
         TXDSignal |-> 0, TX_ENSignal |-> 0, TX_ERSignal |-> 0])

\* transmitFrame(): what the link is handed, if anything.
TransmitFrame(frame) ==
  LET size == Len(frame)
      data == SubSeq(frame, 1, size - CrcSize)
  IN  IF size < MinFrameSize THEN NoFrame
      ELSE IF SubSeq(frame, size - CrcSize + 1, size) # Crc(data) THEN NoFrame
      ELSE data

PossibleSFD(t) == t.TX_ENSignal = 1 /\ t.TXDSignal = 13

\* Mutation of ReceiveData: the first nibble of a pair is the high one.
ReceiveDataHighFirst(t) ==
  IF t.hasPrevNibble
    THEN [t EXCEPT !.frame = Append(@, t.prevNibble * 16 + t.TXDSignal),
                   !.hasPrevNibble = FALSE]
    ELSE [t EXCEPT !.prevNibble = t.TXDSignal, !.hasPrevNibble = TRUE]

\* run() in a frame with TX_EN high and TX_ER low.
ReceiveData(t) ==
  IF t.hasPrevNibble
    THEN [t EXCEPT !.frame = Append(@, (t.TXDSignal * 16 + t.prevNibble) % 256),
                   !.hasPrevNibble = FALSE]
    ELSE [t EXCEPT !.prevNibble = t.TXDSignal, !.hasPrevNibble = TRUE]

InFrame(t) ==
  IF t.TX_ENSignal # 0
    THEN IF t.TX_ERSignal # 0 THEN [t EXCEPT !.hadError = TRUE]
                              ELSE ReceiveData(t)
    ELSE Reset(t)

LookForSFD(t) ==
  IF t.TX_ENSignal # 0 /\ t.TXDSignal = 13
    THEN [t EXCEPT !.inFrame = TRUE, !.hadError = (t.TX_ERSignal # 0)]
    ELSE t

\* What run() hands to the link.
Handed(t) ==
  IF t.inFrame /\ t.TX_ENSignal = 0 /\ ~t.hadError
    THEN TransmitFrame(t.frame) ELSE NoFrame

\* Mutation of Requeued: run() does not queue the PHY again.
RequeuedNever(t) == FALSE

\* The last statement of run().
Requeued(t) == t.TX_ENSignal = 1

\* Mutation of Pushed: the negation of inFrame is lost.
PushedInFrame(t) == t.inFrame /\ PossibleSFD(t)

\* seeTXDChange and seeTX_ENChange, after the signal is stored.
Pushed(t) == ~t.inFrame /\ PossibleSFD(t)

-----------------------------------------------------------------------------
Init ==
  /\ \E any \in Levels : tx = Constructed(any)
  /\ queued = FALSE
  /\ clk = 0
  /\ sent = NoFrame

SeeTXDChange(value) ==
  /\ tx' = [tx EXCEPT !.TXDSignal = value]
  /\ queued' = (queued \/ Pushed(tx'))
  /\ UNCHANGED <<clk, sent>>

SeeTX_ENChange(value) ==
  /\ tx' = [tx EXCEPT !.TX_ENSignal = value]
  /\ queued' = (queued \/ Pushed(tx'))
  /\ UNCHANGED <<clk, sent>>

SeeTX_ERChange(value) ==
  /\ tx' = [tx EXCEPT !.TX_ERSignal = value]
  /\ UNCHANGED <<queued, clk, sent>>

\* A rising edge for which the PHY is queued: run().
Run ==
  /\ clk = 0 /\ queued
  /\ clk' = 1
  /\ tx' = IF tx.inFrame THEN InFrame(tx) ELSE LookForSFD(tx)
  /\ Len(tx'.frame) <= MaxFrame
  /\ sent' = Handed(tx)
  /\ queued' = Requeued(tx)

\* A rising edge for which it is not.
RisingEdge ==
  /\ clk = 0 /\ ~queued
  /\ clk' = 1
  /\ UNCHANGED <<tx, queued, sent>>

\* By the falling edge the link has taken what it was handed.
FallingEdge ==
  /\ clk = 1
  /\ clk' = 0
  /\ sent' = NoFrame
  /\ UNCHANGED <<tx, queued>>

Next ==
  \/ \E value \in Levels : SeeTXDChange(value)
  \/ \E value \in {0, 1} : SeeTX_ENChange(value) \/ SeeTX_ERChange(value)
  \/ Run \/ RisingEdge \/ FallingEdge

Spec == Init /\ [][Next]_vars

\* TX_CLK is a clock signal the PHY drives from its constructor on: its
\* edges keep coming, and the scheduler runs what is queued for one.
FairSpec == Spec /\ WF_vars(Run \/ RisingEdge) /\ WF_vars(FallingEdge)

-----------------------------------------------------------------------------
\* The nibbles taken into the frame so far.
Burst(t) ==
  [i \in 1 .. 2 * Len(t.frame) |->
     IF i % 2 = 1 THEN t.frame[(i + 1) \div 2] % 16
                  ELSE t.frame[i \div 2] \div 16]
    \o (IF t.hasPrevNibble THEN <<t.prevNibble>> ELSE <<>>)

MII == INSTANCE MIITransmit WITH
         txd <- tx.TXDSignal, txen <- tx.TX_ENSignal, txer <- tx.TX_ERSignal,
         active <- tx.inFrame, bad <- tx.hadError, burst <- Burst(tx),
         link <- sent

\* Type invariant.  With it: between frames the PHY holds nothing of the
\* last one, as reset() at the end of a frame leaves it.
TypeOK ==
  /\ ~tx.inFrame => tx.frame = <<>> /\ ~tx.hasPrevNibble /\ ~tx.hadError
  /\ tx.inFrame \in BOOLEAN /\ tx.hadError \in BOOLEAN
  /\ tx.hasPrevNibble \in BOOLEAN /\ tx.prevNibble \in Levels
  /\ tx.frame \in Seq(0 .. 255) /\ Len(tx.frame) <= MaxFrame
  /\ tx.TXDSignal \in Levels
  /\ tx.TX_ENSignal \in {0, 1} /\ tx.TX_ERSignal \in {0, 1}
  /\ queued \in BOOLEAN /\ clk \in {0, 1}
  /\ sent \in Seq(0 .. 255) \cup {NoFrame}

\* The PHY, run only on the edges it is queued for, does what a sampler
\* run on every rising edge of TX_CLK does: no edge that starts a frame,
\* carries a nibble or ends a frame goes by without run(), and the octets
\* run() puts together from pairs of nibbles are those of the nibbles in
\* the order sampled.  Every step is a step of MIITransmit.
TxImplementsMII == MII!Spec

\* Whenever a run() would change the PHY or hand a frame to the link, the
\* PHY is in the scheduler's queue: seeTXDChange and seeTX_ENChange have
\* pushed it for the delimiter, run() for every edge of the frame and for
\* the edge that ends it.
QueuedWhileNeeded == tx.inFrame \/ PossibleSFD(tx) => queued

\* A frame that has begun is ended: once TX_EN is low the next run()
\* resets the PHY (transmitFrame() or not), unless TX_EN is high again by
\* then.  It needs run() to have queued the PHY for the edge after the
\* last nibble.
FrameIsEnded ==
  (tx.inFrame /\ tx.TX_ENSignal = 0) ~> (~tx.inFrame \/ tx.TX_ENSignal = 1)

=============================================================================
