--------------------------- MODULE MCEthernetPhyRx ---------------------------
(***************************************************************************)
(* EthernetPhyRx for TLC: a check sequence of one byte, the sum of the     *)
(* frame's bytes, and every frame of up to MCLongest bytes the link can    *)
(* hold: shorter than the minimum, of the minimum size and longer.         *)
(***************************************************************************)
EXTENDS EthernetPhyRx, FiniteSetsExt

CONSTANTS MCBytes, MCLongest

MCCrc(bytes) == <<MapThenSumSet(LAMBDA i : bytes[i], DOMAIN bytes) % 256>>

MCFrames == UNION {[1 .. n -> MCBytes] : n \in 0 .. MCLongest}

=============================================================================
