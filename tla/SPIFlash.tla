------------------------------ MODULE SPIFlash ------------------------------
(***************************************************************************)
(* The SPI flash peripheral: a serial memory that answers the READ command *)
(* on four wires.  The master drives SS (select, active low), SCLK and     *)
(* MOSI; the flash samples MOSI on the rising edges of SCLK and drives     *)
(* MISO on the falling ones.  The record flash holds the members of the    *)
(* class; its field MISO is the level last given to the port behind the    *)
(* MISO pointer, its field MOSITracker the level the tracker holds.        *)
(*                                                                         *)
(* The widths the code fixes (8 bits to a byte, 3 address bytes, 32-bit    *)
(* unsigned members, command 0x3) are constants, so that a model can go    *)
(* through a whole command and past the end of the file in a few edges.    *)
(* Every wire is one bit wide.                                             *)
(***************************************************************************)
EXTENDS Naturals, Sequences, SequencesExt

CONSTANTS
  ByteBits,      \* bits of receiveReg and sendReg (8)
  AddressBytes,  \* bytes of an address (3)
  WordBits,      \* bits of readAddress and sendBitsRemaining (32)
  ReadCmd,       \* the command answered (0x3)
  Mem,           \* the contents of the file, a sequence of bytes
  MaxBits        \* bound: bits sampled in one selection

Byte    == 0 .. 2^ByteBits - 1
Word    == 0 .. 2^WordBits - 1
memSize == Len(Mem)

\* openFile leaves a buffer of the length of the file; a file of no bytes
\* makes the first fetch divide by zero, and no model has one.
ASSUME /\ ByteBits \in Nat \ {0} /\ AddressBytes \in Nat \ {0}
       /\ WordBits >= ByteBits * AddressBytes
       /\ ReadCmd \in Byte /\ MaxBits \in Nat
       /\ Mem \in Seq(Byte) /\ memSize > 0

VARIABLES
  flash,    \* the members of the SPIFlash object
  header,   \* history: the first bits sampled since the flash was selected
  sampled   \* history: how many bits were sampled since then

vars == <<flash, header, sampled>>

States == {"WAIT_FOR_CMD", "WAIT_FOR_ADDRESS", "READ", "UNKNOWN_CMD"}

\* Mutation of Reset: the count of bits left to send survives a deselect.
ResetKeepingSendCount(f) ==
  [f EXCEPT !.state = "WAIT_FOR_CMD", !.receiveReg = 0, !.receivedBits = 0,
            !.receivedAddressBytes = 0, !.readAddress = 0, !.sendReg = 0]

Reset(f) ==
  [f EXCEPT !.state = "WAIT_FOR_CMD", !.receiveReg = 0, !.receivedBits = 0,
            !.receivedAddressBytes = 0, !.readAddress = 0, !.sendReg = 0,
            !.sendBitsRemaining = 0]

\* The constructor followed by openFile.
Constructed ==
  Reset([state |-> "WAIT_FOR_CMD", MISO |-> 0, MOSITracker |-> 0,
         MISOValue |-> 0, SCLKValue |-> 0, SSValue |-> 0,
         receiveReg |-> 0, receivedBits |-> 0, receivedAddressBytes |-> 0,
         readAddress |-> 0, sendReg |-> 0, sendBitsRemaining |-> 0])

-----------------------------------------------------------------------------
(* Rising edge: a bit of MOSI is shifted in; a full byte is a command or   *)
(* a byte of the address, or is dropped.                                   *)

NextAddress(f) ==
  [f EXCEPT !.readAddress = (@ * 2^ByteBits + f.receiveReg) % 2^WordBits,
            !.receivedAddressBytes = @ + 1,
            !.state = IF f.receivedAddressBytes + 1 = AddressBytes
                        THEN "READ" ELSE @]

\* Mutation of ByteReceived: every command is taken for a read.
ByteReceivedAnyCommand(f) ==
  CASE f.state = "WAIT_FOR_CMD"     -> [f EXCEPT !.state = "WAIT_FOR_ADDRESS"]
    [] f.state = "WAIT_FOR_ADDRESS" -> NextAddress(f)
    [] OTHER                        -> f

\* switch (state)
ByteReceived(f) ==
  CASE f.state = "WAIT_FOR_CMD" ->
         [f EXCEPT !.state = IF f.receiveReg = ReadCmd
                               THEN "WAIT_FOR_ADDRESS" ELSE "UNKNOWN_CMD"]
    [] f.state = "WAIT_FOR_ADDRESS" -> NextAddress(f)
    [] OTHER -> f

ShiftedIn(f) ==
  [f EXCEPT !.receiveReg = (2 * @ + f.MOSITracker) % 2^ByteBits,
            !.receivedBits = @ + 1]

Received(f) ==
  IF f.receivedBits = ByteBits
    THEN [ByteReceived(f) EXCEPT !.receiveReg = 0, !.receivedBits = 0]
    ELSE f

RisingEdge(f) == Received(ShiftedIn(f))

-----------------------------------------------------------------------------
(* Falling edge: in READ the next bit of the file is put on MISO.          *)

\* Mutation of Fetch: the count of bits to send is not set.
FetchWithoutCount(f) ==
  IF f.sendBitsRemaining = 0
    THEN [f EXCEPT !.sendReg = Mem[(f.readAddress % memSize) + 1],
                   !.readAddress = (@ + 1) % 2^WordBits]
    ELSE f

\* sendReg = mem[readAddress++ % memSize]
Fetch(f) ==
  IF f.sendBitsRemaining = 0
    THEN [f EXCEPT !.sendReg = Mem[(f.readAddress % memSize) + 1],
                   !.readAddress = (@ + 1) % 2^WordBits,
                   !.sendBitsRemaining = ByteBits]
    ELSE f

\* The port is told of a level only when it differs from the last one.
Emit(f) ==
  LET newValue == (f.sendReg \div 2^(ByteBits - 1)) % 2
  IN  [f EXCEPT !.MISO = IF newValue # f.MISOValue THEN newValue ELSE @,
                !.MISOValue = newValue,
                !.sendReg = (2 * @) % 2^ByteBits,
                !.sendBitsRemaining = (@ - 1) % 2^WordBits]

FallingEdge(f) == IF f.state = "READ" THEN Emit(Fetch(f)) ELSE f

SCLKChange(f, newValue) ==
  CASE newValue = f.SCLKValue -> f
    [] f.SSValue # 0 -> [f EXCEPT !.SCLKValue = newValue]
    [] newValue = 1  -> RisingEdge([f EXCEPT !.SCLKValue = newValue])
    [] OTHER         -> FallingEdge([f EXCEPT !.SCLKValue = newValue])

SSChange(f, newValue) ==
  CASE newValue = f.SSValue -> f
    [] newValue = 1 -> Reset([f EXCEPT !.SSValue = newValue])
    [] OTHER        -> [f EXCEPT !.SSValue = newValue]

-----------------------------------------------------------------------------
HeaderBits == ByteBits * (1 + AddressBytes)

\* The change of SCLK to newValue makes the flash sample MOSI.
Samples(newValue) ==
  newValue = 1 /\ flash.SCLKValue = 0 /\ flash.SSValue = 0

Init ==
  /\ flash = Constructed
  /\ header = <<>>
  /\ sampled = 0

SeeSCLKChange(newValue) ==
  /\ Samples(newValue) => sampled < MaxBits
  /\ flash' = SCLKChange(flash, newValue)
  /\ header' = IF Samples(newValue) /\ Len(header) < HeaderBits
                 THEN Append(header, flash.MOSITracker) ELSE header
  /\ sampled' = IF Samples(newValue) THEN sampled + 1 ELSE sampled

SeeSSChange(newValue) ==
  /\ flash' = SSChange(flash, newValue)
  /\ IF newValue = 1 /\ flash.SSValue = 0
       THEN header' = <<>> /\ sampled' = 0
       ELSE UNCHANGED <<header, sampled>>

\* The tracker of MOSI records the level the master drives.
SeeMOSIChange(newValue) ==
  /\ flash' = [flash EXCEPT !.MOSITracker = newValue]
  /\ UNCHANGED <<header, sampled>>

Next ==
  \E v \in {0, 1} : SeeSCLKChange(v) \/ SeeSSChange(v) \/ SeeMOSIChange(v)

Spec == Init /\ [][Next]_vars

-----------------------------------------------------------------------------
(* What the master sent and what it is owed, from the history alone.       *)

\* The number a sequence of bits spells, first bit highest.
Number(bits) == FoldLeft(LAMBDA n, b : 2 * n + b, 0, bits)

Command == Number(SubSeq(header, 1, ByteBits))
Address == Number(SubSeq(header, ByteBits + 1, HeaderBits))

ReadRequested == Len(header) = HeaderBits /\ Command = ReadCmd

\* Falling edges of SCLK since the header was complete: one after every
\* bit sampled since, and one more when the clock is low again.
Emitted == sampled - HeaderBits + (1 - flash.SCLKValue)

\* Bit n of the file read from Address on, wrapping at its end, each byte
\* highest bit first.
FileBit(n) ==
  LET byte == Mem[((Address + (n \div ByteBits)) % memSize) + 1]
  IN  (byte \div 2^(ByteBits - 1 - (n % ByteBits))) % 2

\* Type invariant.  With it: sendBitsRemaining, an unsigned that every
\* falling edge in READ decrements, is never decremented at zero.
TypeOK ==
  /\ flash.state \in States
  /\ flash.MISO \in {0, 1} /\ flash.MOSITracker \in {0, 1}
  /\ flash.MISOValue \in {0, 1} /\ flash.SCLKValue \in {0, 1}
  /\ flash.SSValue \in {0, 1}
  /\ flash.receiveReg \in Byte /\ flash.sendReg \in Byte
  /\ flash.receivedBits \in 0 .. ByteBits - 1
  /\ flash.receivedAddressBytes \in 0 .. AddressBytes
  /\ flash.readAddress \in Word
  /\ flash.sendBitsRemaining \in 0 .. ByteBits
  /\ header \in Seq({0, 1}) /\ Len(header) <= HeaderBits
  /\ sampled \in 0 .. MaxBits

\* After the command READ and an address A, the level of MISO after the
\* n-th falling edge of SCLK is bit n of the bytes F[A mod |F|],
\* F[(A+1) mod |F|], ... of the file, whatever was selected, clocked or
\* abandoned half-way before: seeSCLKChange fetches mem[readAddress++ %
\* memSize] when sendBitsRemaining is zero, and reset() on the rise of SS
\* clears both.
MISOCarriesFile ==
  ReadRequested /\ Emitted > 0 => flash.MISO = FileBit(Emitted - 1)

\* MISO changes only in answer to a READ: a command other than ReadCmd
\* takes seeSCLKChange to UNKNOWN_CMD, where falling edges drive nothing
\* until SS has been raised.
MISOQuietOutsideRead ==
  [][flash'.MISO # flash.MISO => ReadRequested]_vars

=============================================================================
