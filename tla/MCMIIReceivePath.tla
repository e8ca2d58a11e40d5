-------------------------- MODULE MCMIIReceivePath --------------------------
(***************************************************************************)
(* MIIReceivePath for TLC: a check sequence of one byte, the sum of the    *)
(* frame's bytes, and the frames of MCBytes that the minimum size holds.   *)
(***************************************************************************)
EXTENDS MIIReceivePath, FiniteSetsExt

CONSTANTS MCBytes

MCCrc(bytes) == <<MapThenSumSet(LAMBDA i : bytes[i], DOMAIN bytes) % 256>>

MCFrames == UNION {[1 .. n -> MCBytes] : n \in 0 .. MinFrameSize - CrcSize}

=============================================================================
