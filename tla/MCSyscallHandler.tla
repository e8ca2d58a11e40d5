--------------------------- MODULE MCSyscallHandler --------------------------
(***************************************************************************)
(* SyscallHandler for TLC: an address space of 64 bytes with 24 bytes of   *)
(* RAM and 8 of ROM, a table of eight descriptors of which the constructor *)
(* fills six, and one more descriptor of the host than that.               *)
(***************************************************************************)
EXTENDS SyscallHandler

\* Memories with the zero byte of a string in RAM, and with none.
MCZeroBytes == {{40}, {}}

\* No argument, and two of one and two characters.
MCCmdLines == {<<>>, <<1, 2>>}

=============================================================================
