---------------------------- MODULE SyscallHandler ---------------------------
(***************************************************************************)
(* The system calls of the simulated program, class SyscallHandler: the    *)
(* table fds from the program's file descriptors to the host's, the count  *)
(* of cores that have yet to call done, and the checks on the addresses a  *)
(* call hands the host.  The record sh has the members of the class.  The  *)
(* host is what the calls change in it: the set of its open descriptors.   *)
(* A register holds a word of WordBits bits; (uint32_t)-1 is Word - 1.     *)
(***************************************************************************)
EXTENDS Integers, Sequences, FiniteSets, FiniteSetsExt, Functions

CONSTANTS
  MaxFds,     \* MAX_FDS (512)
  WordBits,   \* bits of a register and of an address (32)
  RamBase, RamSize, RomBase, RomSize,   \* the core's memories
  HostFds,    \* descriptors the host lets the process have
  Cores,      \* the cores of the system
  Counts,     \* values the loader gives setDoneSyscallsRequired
  CmdLines,   \* command lines the loader gives setCmdLine, as lengths
  Words,      \* register values the program passes as data
  FdArgs,     \* ... as file descriptors
  Addresses,  \* ... as addresses
  Sizes,      \* ... as numbers of bytes
  ZeroBytes,  \* the addresses that hold a zero byte, one set for each memory
  NoAccess    \* the call gave the host no memory

Word == 2^WordBits

ASSUME /\ MaxFds >= 6 /\ MaxFds < Word \div 2
       /\ Words \cup FdArgs \cup Addresses \cup Sizes \subseteq 0 .. Word - 1
       /\ Counts \subseteq 1 .. Word - 1
       /\ CmdLines \subseteq Seq(Nat)

VARIABLES
  sh,       \* the members of the SyscallHandler object
  host,     \* the host's open descriptors
  r0,       \* register R0 of the calling thread after the call
  outcome,  \* what doSyscall returned last
  retval,   \* the exit status doSyscall set
  access,   \* the memory the last call gave the host: address and bytes
  owned,    \* host descriptors from dup and open that close has not closed
  required, \* the count the loader set
  dones     \* the cores that have called done

vars == <<sh, host, r0, outcome, retval, access, owned, required, dones>>

Minus1 == Word - 1
Minus2 == Word - 2
Signed(word) == IF word >= Word \div 2 THEN word - Word ELSE word

IsValidRamAddress(address) == address \in RamBase .. RamBase + RamSize - 1
IsValidRomAddress(address) == address \in RomBase .. RomBase + RomSize - 1

\* The host: open and dup give the lowest descriptor that is free.
HostNew(open) == Min((0 .. HostFds - 1) \ open)
HostFull(open) == (0 .. HostFds - 1) \subseteq open
StdFds == {0, 1, 2}

-----------------------------------------------------------------------------
\* getString(): the string starts in RAM and ends before RAM does.
GetString(startAddress, zeros) ==
  /\ IsValidRamAddress(startAddress)
  /\ \E address \in zeros :
       startAddress <= address /\ address < (RamSize + RamBase) % Word

\* Mutation of GetRamBuffer: the end of the buffer is not looked at.
GetRamBufferByStart(address, size) == IsValidRamAddress(address)

GetRamBuffer(address, size) ==
  /\ IsValidRamAddress(address)
  /\ IsValidRamAddress((address + size) % Word)

GetBuffer(address, size) ==
  IF IsValidRamAddress(address)
    THEN IsValidRamAddress((address + size) % Word)
    ELSE /\ IsValidRomAddress(address)
         /\ IsValidRomAddress((address + size) % Word)

GetNewFd(fds) ==
  IF -1 \in Range(fds) THEN Min({i \in DOMAIN fds : fds[i] = -1}) ELSE -1

IsValidFd(fds, fd) ==
  Signed(fd) >= 0 /\ fd < MaxFds /\ fds[fd] # -1

ConvertLseekType(whence) == whence \in {0, 1, 2}

\* The constructor, the standard descriptors being the only open ones.
Constructed ==
  [fds |-> [i \in 0 .. MaxFds - 1 |->
              IF i < 3 THEN 3 + i ELSE IF i < 6 THEN 0 ELSE -1],
   doneSyscallsRequired |-> 1, doneSyscallsSeen |-> {},
   arg |-> <<>>, minBufBytes |-> 4]

\* Mutation of SetCmdLine: the zero byte of a string is not counted.
SetCmdLineWithoutZeroByte(s, args) ==
  [s EXCEPT !.arg = args,
            !.minBufBytes =
               4 + SumFunction([i \in DOMAIN args |-> 4 + args[i]])]

SetCmdLine(s, args) ==
  [s EXCEPT !.arg = args,
            !.minBufBytes =
               4 + SumFunction([i \in DOMAIN args |-> 4 + args[i] + 1])]

SetDoneSyscallsRequired(s, count) == [s EXCEPT !.doneSyscallsRequired = count]

\* Mutation of Done: the count falls for a core that had called before.
DoneCountingCalls(s, core) ==
  [s EXCEPT !.doneSyscallsSeen = @ \cup {core},
            !.doneSyscallsRequired = (@ - 1) % Word]

\* doOsCallDone() up to the comparison with 0.
Done(s, core) ==
  IF core \in s.doneSyscallsSeen THEN s
  ELSE [s EXCEPT !.doneSyscallsSeen = @ \cup {core},
                 !.doneSyscallsRequired = (@ - 1) % Word]

\* Mutation of OpenCallsHost: the host opens the file before a free
\* descriptor of the program is looked for.
OpenCallsHostFirst(fds, path, zeros) == GetString(path, zeros)

\* doOsCallOpen() up to the call of open().
OpenCallsHost(fds, path, zeros) ==
  GetString(path, zeros) /\ GetNewFd(fds) # -1

\* What argv has written when its loop ends: the pointers, the null
\* pointer and every string with its zero byte.
StrPos(args) ==
  4 * Len(args) + 4 + SumFunction([i \in DOMAIN args |-> args[i] + 1])

-----------------------------------------------------------------------------
\* The loader has made the handler and told it the cores and the command
\* line before the first instruction runs.
Init ==
  /\ \E count \in Counts, args \in CmdLines :
       /\ sh = SetCmdLine(SetDoneSyscallsRequired(Constructed, count), args)
       /\ required = count
  /\ host = StdFds \cup {3, 4, 5}
  /\ owned = {3, 4, 5}
  /\ r0 = 0 /\ outcome = "CONTINUE" /\ retval = 0
  /\ access = NoAccess
  /\ dones = {}

Same == UNCHANGED <<sh, host, owned, required, dones>>
Continue == outcome' = "CONTINUE" /\ UNCHANGED retval

DoOsCallExit(status) ==
  /\ outcome = "CONTINUE"
  /\ outcome' = "EXIT" /\ retval' = status
  /\ UNCHANGED <<r0, access>> /\ Same

DoOsCallDone(core) ==
  /\ outcome = "CONTINUE"
  /\ dones' = dones \cup {core}
  /\ IF core \notin sh.doneSyscallsSeen /\ Done(sh, core).doneSyscallsRequired = 0
       THEN /\ sh' = [Done(sh, core) EXCEPT !.doneSyscallsSeen = {}]
            /\ outcome' = "EXIT" /\ retval' = 0
       ELSE /\ sh' = Done(sh, core)
            /\ Continue
  /\ UNCHANGED <<host, r0, access, owned, required>>

\* open() of the host fails for reasons of its own (ok) or for want of a
\* descriptor.
DoOsCallOpen(path, zeros, ok) ==
  /\ outcome = "CONTINUE"
  /\ LET fd     == GetNewFd(sh.fds)
         opens  == OpenCallsHost(sh.fds, path, zeros) /\ ok /\ ~HostFull(host)
         hostfd == HostNew(host)
     IN  /\ host' = IF opens THEN host \cup {hostfd} ELSE host
         /\ owned' = IF opens THEN owned \cup {hostfd} ELSE owned
         /\ sh' = IF opens /\ fd # -1 THEN [sh EXCEPT !.fds[fd] = hostfd] ELSE sh
         /\ r0' = IF opens THEN fd % Word ELSE Minus1
  /\ Continue /\ UNCHANGED <<access, required, dones>>

\* close() of the host fails on a descriptor that is not open, or for
\* reasons of its own (ok), and then leaves the descriptor open.
DoOsCallClose(fd, ok) ==
  /\ outcome = "CONTINUE"
  /\ IF ~IsValidFd(sh.fds, fd)
       THEN r0' = Minus1 /\ UNCHANGED <<sh, host, owned>>
       ELSE IF sh.fds[fd] \in host /\ ok
         THEN /\ host' = host \ {sh.fds[fd]}
              /\ owned' = owned \ {sh.fds[fd]}
              /\ sh' = [sh EXCEPT !.fds[fd] = -1]
              /\ r0' = 0
         ELSE r0' = Minus1 /\ UNCHANGED <<sh, host, owned>>
  /\ Continue /\ UNCHANGED <<access, required, dones>>

\* read(), write(): the host moves count bytes, or none, or fails.
Transfer(fd, address, size, valid, count) ==
  /\ IF IsValidFd(sh.fds, fd) /\ valid
       THEN /\ access' = [address |-> address, size |-> size]
            /\ r0' = IF sh.fds[fd] \in host THEN count ELSE Minus1
       ELSE r0' = Minus1 /\ access' = NoAccess
  /\ Continue /\ Same

DoOsCallRead(fd, address, size, count) ==
  /\ outcome = "CONTINUE"
  /\ Transfer(fd, address, size, GetRamBuffer(address, size), count)

DoOsCallWrite(fd, address, size, count) ==
  /\ outcome = "CONTINUE"
  /\ Transfer(fd, address, size, GetBuffer(address, size), count)

DoOsCallLseek(fd, whence, result) ==
  /\ outcome = "CONTINUE"
  /\ r0' = IF IsValidFd(sh.fds, fd) /\ ConvertLseekType(whence)
              /\ sh.fds[fd] \in host
             THEN result ELSE Minus1
  /\ access' = NoAccess
  /\ Continue /\ Same

\* rename(), remove() and system(): the host is called with the strings
\* that getString() has let through.
OnStrings(valid, result) ==
  /\ r0' = IF valid THEN result ELSE Minus1
  /\ access' = NoAccess
  /\ Continue /\ Same

DoOsCallRename(OldPathAddr, NewPathAddr, zeros, result) ==
  /\ outcome = "CONTINUE"
  /\ OnStrings(GetString(OldPathAddr, zeros) /\ GetString(NewPathAddr, zeros),
               result)

DoOsCallRemove(FileAddr, zeros, result) ==
  /\ outcome = "CONTINUE"
  /\ OnStrings(GetString(FileAddr, zeros), result)

DoOsCallSystem(CmdAddr, zeros, result) ==
  /\ outcome = "CONTINUE"
  /\ OnStrings(CmdAddr = 0 \/ GetString(CmdAddr, zeros), result)

DoOsCallTime(TimeAddr, Time) ==
  /\ outcome = "CONTINUE"
  /\ IF TimeAddr # 0 /\ (~IsValidRamAddress(TimeAddr) \/ TimeAddr % 4 # 0)
       THEN r0' = Minus1 /\ access' = NoAccess
       ELSE /\ r0' = Time
            /\ access' = IF TimeAddr = 0 THEN NoAccess
                         ELSE [address |-> TimeAddr, size |-> 4]
  /\ Continue /\ Same

DoOsCallArgv(clientBuf, bufBytes) ==
  /\ outcome = "CONTINUE"
  /\ IF sh.minBufBytes > Signed(bufBytes)
       THEN r0' = Minus2 /\ access' = NoAccess /\ UNCHANGED retval
       ELSE IF ~GetRamBuffer(clientBuf, bufBytes)
         THEN r0' = Minus1 /\ access' = NoAccess /\ UNCHANGED retval
         ELSE /\ access' = [address |-> clientBuf, size |-> StrPos(sh.arg)]
              /\ r0' = Len(sh.arg) /\ retval' = 0
  /\ outcome' = "CONTINUE" /\ Same

DoOsCallIsSimulation ==
  /\ outcome = "CONTINUE"
  /\ r0' = 1 /\ access' = NoAccess
  /\ Continue /\ Same

\* The callback loads the image, or there is none to load.
DoOsCallLoadImage(dst, size, loaded) ==
  /\ outcome = "CONTINUE"
  /\ access' = IF GetRamBuffer(dst, size)
                 THEN [address |-> dst, size |-> size] ELSE NoAccess
  /\ r0' = IF GetRamBuffer(dst, size) /\ loaded THEN 0 ELSE Minus1
  /\ Continue /\ Same

\* A call number doSyscall does not know.
UnknownSyscall ==
  /\ outcome = "CONTINUE"
  /\ outcome' = "EXIT" /\ retval' = 1
  /\ UNCHANGED <<r0, access>> /\ Same

Next ==
  \/ \E status \in Words : DoOsCallExit(status)
  \/ \E core \in Cores : DoOsCallDone(core)
  \/ \E path \in Addresses, zeros \in ZeroBytes, ok \in BOOLEAN :
       DoOsCallOpen(path, zeros, ok)
  \/ \E fd \in FdArgs, ok \in BOOLEAN : DoOsCallClose(fd, ok)
  \/ \E fd \in FdArgs, address \in Addresses, size \in Sizes :
       \E count \in {0, size, Minus1} :
         \/ DoOsCallRead(fd, address, size, count)
         \/ DoOsCallWrite(fd, address, size, count)
  \/ \E fd \in FdArgs, whence \in Words, result \in Words :
       DoOsCallLseek(fd, whence, result)
  \/ \E old, new \in Addresses, zeros \in ZeroBytes, result \in {0, Minus1} :
       \/ DoOsCallRename(old, new, zeros, result)
       \/ DoOsCallRemove(old, zeros, result)
       \/ DoOsCallSystem(old, zeros, result)
  \/ \E TimeAddr \in Addresses, Time \in Words : DoOsCallTime(TimeAddr, Time)
  \/ \E clientBuf \in Addresses, bufBytes \in Sizes :
       DoOsCallArgv(clientBuf, bufBytes)
  \/ DoOsCallIsSimulation
  \/ \E dst \in Addresses, size \in Sizes, loaded \in BOOLEAN :
       DoOsCallLoadImage(dst, size, loaded)
  \/ UnknownSyscall

Spec == Init /\ [][Next]_vars

-----------------------------------------------------------------------------
Ram == RamBase .. RamBase + RamSize - 1
Rom == RomBase .. RomBase + RomSize - 1

\* The bytes the host was given, as the host sees them: its pointers do
\* not wrap at the end of the program's address space.
Given == IF access = NoAccess THEN {}
         ELSE access.address .. access.address + access.size - 1

\* Type invariant.  With it, the assertion of doOsCallArgv(): the loop
\* writes as many bytes as setCmdLine() has counted.
TypeOK ==
  /\ sh.fds \in [0 .. MaxFds - 1 -> -1 .. HostFds - 1]
  /\ sh.doneSyscallsRequired \in 0 .. Word - 1
  /\ sh.doneSyscallsSeen \subseteq Cores
  /\ sh.arg \in CmdLines /\ sh.minBufBytes = StrPos(sh.arg)
  /\ host \subseteq 0 .. HostFds - 1 /\ owned \subseteq host
  /\ r0 \in 0 .. Word - 1 /\ retval \in 0 .. Word - 1
  /\ outcome \in {"CONTINUE", "EXIT"}
  /\ access = NoAccess \/ access \in [address : Addresses, size : Nat]
  /\ required \in Counts /\ dones \subseteq Cores

\* No descriptor of the host is lost: whatever dup and open have given the
\* handler and close has not closed is in the table, so that the program
\* can close it.  doOsCallOpen() finds the free entry before it calls
\* open() and fills it only when open() has succeeded; doOsCallClose()
\* frees the entry only when close() has.
NoDescriptorLost == owned \subseteq Range(sh.fds)

\* The simulation ends by done when the last of the cores the loader
\* counted has called it, and not before: doOsCallDone() counts a core
\* once however often it calls, in doneSyscallsSeen, and the count that
\* is left is the cores still to come.
DoneCountsCores ==
  /\ sh.doneSyscallsRequired = (required - Cardinality(dones)) % Word
  /\ outcome = "CONTINUE" => Cardinality(dones) < required

\* A call that gives the host memory of the program gives it bytes of one
\* memory, RAM or ROM, and no byte beyond: getBuffer() and getRamBuffer()
\* look at the first address and at the one past the last, and argv
\* writes no more than the size it was given.  Stated for buffers whose
\* end does not pass the end of the address space.
HostStaysInMemory ==
  access # NoAccess /\ access.address + access.size < Word
    => Given \subseteq Ram \/ Given \subseteq Rom

\* The comments of getBuffer() and getRamBuffer() promise a pointer to a
\* buffer in memory of the given size, or 0: whatever the size, the host
\* is given bytes of the program's memory only.
HostGivenMemoryOnly == Given \subseteq Ram \/ Given \subseteq Rom

=============================================================================
