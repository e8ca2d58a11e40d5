------------------------------- MODULE MCPort -------------------------------
(***************************************************************************)
(* Port instantiated for TLC: the values the configurations give to the    *)
(* constants that are not plain sets of numbers.                           *)
(***************************************************************************)
EXTENDS Port

\* Twice round the port counter and one edge of each type more: every
\* timeReg is met and every shift register has drained within it.
MCMaxSkip == 2 * CounterMod + 2

=============================================================================
