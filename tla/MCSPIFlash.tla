----------------------------- MODULE MCSPIFlash -----------------------------
(***************************************************************************)
(* The SPI flash with bytes of two bits: a command, three address bytes    *)
(* and a file of three bytes, whose length divides no power of two.        *)
(***************************************************************************)
EXTENDS SPIFlash

MCMem == <<2, 1, 3>>

=============================================================================
