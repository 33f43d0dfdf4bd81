------------------------------- MODULE TimeText -------------------------------
(***************************************************************************)
(* Times as internal/storage keeps them.  formatTime writes RFC3339Nano:   *)
(* the fraction of a second loses its trailing zeros and, when it is zero, *)
(* its point.  The columns are TEXT, so SQL compares them byte by byte,    *)
(* and "." < "0".."9" < "Z": 08:00:00Z sorts AFTER 08:00:00.5Z.            *)
(*                                                                         *)
(* A time is a number of ticks, TicksPerSecond to the second.  FormatTime  *)
(* maps it to its place in the text order: a whole second goes behind      *)
(* every fraction of that second.  That is the exact order of the texts    *)
(* while the fraction has at most one digit, hence the bound of ten.       *)
(***************************************************************************)
EXTENDS Naturals

CONSTANT TicksPerSecond

ASSUME TicksAssumption == TicksPerSecond \in 1 .. 10

WholeSecond(t) == t % TicksPerSecond = 0

FormatTime(t) == IF WholeSecond(t) THEN t + TicksPerSecond ELSE t

\* "column < ?" between two stored times
TextLT(t, u) == FormatTime(t) < FormatTime(u)
===============================================================================
