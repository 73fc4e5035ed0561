----------------------------- MODULE MCSession -----------------------------
(* Small instances of Session for TLC. *)
EXTENDS Session

(* The default payloads every founder sends, where a run is not about them. *)
PlainTimeline == {[tempo |-> 2, beat_origin |-> 0]}
PlainStartStop == {DefaultStartStop}
RawTimeline == {[tempo |-> 9, beat_origin |-> 1]}
OneStartStop == {[is_playing |-> TRUE, beats |-> 0, timestamp |-> 1]}
=============================================================================
