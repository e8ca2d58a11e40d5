----------------------------- MODULE PortOutput -----------------------------
(***************************************************************************)
(* What a data port promises of the values its owner outputs: the port     *)
(* width's worth of bits that are written reach the pins entry by entry,   *)
(* in the order they were written, one on each edge of the clock that      *)
(* moves the port on, and the pins show nothing that was not written.      *)
(* The transfer register and the shift register of class Port are a queue  *)
(* of two words between out() and the pins.                                *)
(***************************************************************************)
EXTENDS Naturals, Sequences, SequencesExt

VARIABLE out  \* driving: the port drives its pins; pins: the value on them;
              \* pending: the entries written and not yet on the pins

\* A port that does not drive its pins.
Idle == [driving |-> FALSE, pins |-> 0, pending |-> <<>>]

Init == out = Idle

\* The port after k entries more have been on the pins.
After(a, k) ==
  IF k = 0 THEN a
  ELSE [a EXCEPT !.pins = a.pending[k],
                 !.pending = SubSeq(@, k + 1, Len(@))]

\* One edge of the port's clock: nothing happens, the next entry reaches the
\* pins, or a port with nothing left to show stops driving them.
Tick(a, b) ==
  \/ b = a
  \/ a.driving /\ a.pending # <<>> /\ b = After(a, 1)
  \/ a.driving /\ a.pending = <<>> /\ b = Idle

\* The owner writes: entries join the queue behind those that wait.
Accept(a, b) ==
  /\ a.driving /\ b.driving
  /\ b.pins = a.pins
  /\ IsPrefix(a.pending, b.pending)

\* An input port becomes an output port with its first value; what its pins
\* show until the first entry reaches them is not specified.
Open(a, b) == ~a.driving /\ b.driving

\* The owner empties the port's buffers: what waits is never shown.
Abandon(a, b) == b = [a EXCEPT !.pending = <<>>]

\* The port is taken into use anew, or turns to input.
Release(b) == b = Idle

\* A step of the port: entries reach the pins over the edges that have
\* passed, and then the owner may act.
Step(a, b) ==
  \E k \in 0 .. Len(a.pending) :
    LET c == After(a, k)
    IN  Accept(c, b) \/ Open(c, b) \/ Abandon(c, b) \/ Release(b)

Next == Step(out, out')

Spec == Init /\ [][Next]_out

=============================================================================
