------------------------------- MODULE MCSink -------------------------------
(* Small instances of Sink for TLC. *)
EXTENDS Sink

MonoStereo == {[rate |-> 1, channels |-> 1], [rate |-> 1, channels |-> 2]}

(* The reference's sizing: samples alone count. *)
Reference == {[budget |-> 3, record_cost |-> 0, chunk_cap |-> 99]}
(* Filling: records count, chunks are capped. *)
BothSizings == Reference \cup {[budget |-> 7, record_cost |-> 2, chunk_cap |-> 2]}

Jittered == {0, 1}
=============================================================================
