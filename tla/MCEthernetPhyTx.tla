--------------------------- MODULE MCEthernetPhyTx ---------------------------
(***************************************************************************)
(* EthernetPhyTx for TLC: a check sequence of one byte, the sum of the     *)
(* frame's bytes.                                                          *)
(***************************************************************************)
EXTENDS EthernetPhyTx, FiniteSetsExt

MCCrc(bytes) == <<MapThenSumSet(LAMBDA i : bytes[i], DOMAIN bytes) % 256>>

=============================================================================
