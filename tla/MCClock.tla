------------------------------ MODULE MCClock -------------------------------
EXTENDS Clock, TLC

(* More than two quanta to either side of zero. *)
SomeBeats == -9 .. 9

Alike == Permutations(Peers)
=============================================================================
