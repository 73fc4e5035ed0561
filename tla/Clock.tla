-------------------------------- MODULE Clock -------------------------------
(***************************************************************************)
(* Beats and times as the applications of several peers read them          *)
(* (src/crates/tactus/src/math.rs and lib.rs), while tempos are set,       *)
(* timelines adopted, sessions founded and joined.                         *)
(*                                                                         *)
(* Host clocks are in step and ghost transforms exact.  Unit stands for    *)
(* the million of micro-beats per beat and microseconds per second, so     *)
(* that rounding shows in small numbers.                                   *)
(***************************************************************************)
EXTENDS BeatMath

CONSTANTS
    Unit,
    Peers,
    Tempos,      \* periods, in microseconds of the model per beat
    Quanta,      \* in micro-beats; zero for no quantum
    AppBeats,    \* application beats asked for
    MaxNow,      \* of the host clocks
    MaxOrigin    \* beat origin up to which tempos are set

ASSUME ClockAssumption ==
    /\ Unit \in Nat \ {0}
    /\ Tempos \subseteq Nat \ {0}
    /\ Quanta \subseteq Nat
    /\ AppBeats \subseteq Int

VARIABLES
    now,         \* the host clocks
    peer         \* [session, timeline, ghost_offset, session_member_seen] of each

vars == <<now, peer>>

-----------------------------------------------------------------------------
BeatsAtGhost(tl, ghost) ==
    tl.beat_origin + RoundDiv((ghost - tl.time_origin) * Unit, tl.tempo)

GhostAtBeats(tl, beats) ==
    tl.time_origin + RoundDiv((beats - tl.beat_origin) * tl.tempo, Unit)

AppBeatAtGhost(tl, ghost, q) ==
    LET b == BeatsAtGhost(tl, ghost) IN AlignNear(b, b - tl.beat_origin, q)

GhostAtAppBeatFaultTie(tl, b, q) ==
    LET r == b - tl.beat_origin
        cycle == r - Phase(r, q)
    IN  IF q <= 0 THEN GhostAtBeats(tl, b)
        ELSE GhostAtBeats(tl, tl.beat_origin + cycle + AlignNear(Phase(r, q), Phase(b, q), q))

(* The inverse breaks ties the other way. *)
GhostAtAppBeat(tl, b, q) ==
    LET r == b - tl.beat_origin
        cycle == r - Phase(r, q)
        delta == AlignNear(q - Phase(r, q), q - Phase(b, q), q)
    IN  IF q <= 0 THEN GhostAtBeats(tl, b)
        ELSE GhostAtBeats(tl, tl.beat_origin + cycle + q - delta)

SessionOffsetFaultPlain(tl, q) == AlignNear(tl.beat_origin, tl.beat_origin, q)

(* What a peer's beats exceed the session's by. *)
SessionOffset(tl, q) ==
    LET b0 == BeatsAtGhost(tl, tl.time_origin) IN AlignNear(b0, b0 - tl.beat_origin, q)

-----------------------------------------------------------------------------
(* A peer. *)

Ghost(n) == now + peer[n].ghost_offset

Founded(n, tempo, beats) ==
    [session |-> <<n, now>>, ghost_offset |-> -now, session_member_seen |-> FALSE,
     timeline |-> [tempo |-> tempo, beat_origin |-> beats, time_origin |-> 0]]

Init ==
    /\ now = 0
    /\ peer \in [Peers -> {Founded(n, t, 0) : n \in Peers, t \in Tempos}]
    /\ \A n \in Peers : peer[n].session[1] = n

Larger(a, b) == IF a < b THEN b ELSE a

RetimedFaultNow(tl, tempo, ghost) ==
    [tempo |-> tempo, time_origin |-> ghost,
     beat_origin |-> Larger(BeatsAtGhost(tl, ghost), tl.beat_origin + 1)]

(* A new tempo starts at the present beat, or just after the last origin.  *)
Retimed(tl, tempo, ghost) ==
    LET origin == Larger(BeatsAtGhost(tl, ghost), tl.beat_origin + 1)
    IN  [tempo |-> tempo, beat_origin |-> origin, time_origin |-> GhostAtBeats(tl, origin)]

SetsTempo(n) ==
    /\ peer[n].timeline.beat_origin < MaxOrigin
    /\ \E t \in Tempos : peer' = [peer EXCEPT ![n].timeline = Retimed(@, t, Ghost(n))]
    /\ UNCHANGED now

(* A member of the session is heard: its timeline is adopted if the beat   *)
(* origin is greater.                                                      *)
Hears(n, m) ==
    /\ n # m /\ peer[n].session = peer[m].session
    /\ peer' = [peer EXCEPT
          ![n].session_member_seen = TRUE,
          ![n].timeline = IF peer[m].timeline.beat_origin > @.beat_origin
                          THEN peer[m].timeline ELSE @]
    /\ UNCHANGED now

(* A session is measured for a while before it is joined. *)
Joins(n, m) ==
    /\ peer[n].session # peer[m].session
    /\ peer[m].session[2] < now
    /\ peer' = [peer EXCEPT ![n] = [peer[m] EXCEPT !.session_member_seen = TRUE]]
    /\ UNCHANGED now

ResetBeatsFaultHost(n) == BeatsAtGhost(peer[n].timeline, now)

ResetBeats(n) == BeatsAtGhost(peer[n].timeline, Ghost(n))

(* reset_session: the others have left, and the peer goes on alone, at the *)
(* tempo and beat it is at.                                                *)
Resets(n) ==
    /\ peer[n].session_member_seen
    /\ peer' = [peer EXCEPT ![n] = Founded(n, @.timeline.tempo, ResetBeats(n))]
    /\ UNCHANGED now

Ticks ==
    /\ now < MaxNow
    /\ now' = now + 1
    /\ UNCHANGED peer

Next ==
    \/ Ticks
    \/ \E n \in Peers : SetsTempo(n) \/ Resets(n)
    \/ \E n, m \in Peers : Hears(n, m) \/ Joins(n, m)

Spec == Init /\ [][Next]_vars
-----------------------------------------------------------------------------
(* What must hold. *)

Distance(a, b) == IF a < b THEN b - a ELSE a - b

(* The two directions compose: the beat at the time of a beat is that      *)
(* beat, up to the rounding of the two conversions, also half a quantum    *)
(* away from the timeline's beats, for negative beats, odd quanta and none *)
(* (beat_at_time, time_at_beat, ghost_at_app_beat).                        *)
DirectionsCompose ==
    \A n \in Peers, q \in Quanta, b \in AppBeats :
       LET tl == peer[n].timeline
           back == AppBeatAtGhost(tl, GhostAtAppBeat(tl, b, q), q)
       IN  2 * tl.tempo * Distance(back, b) <= Unit + tl.tempo

(* Peers of a session that count beats by different quanta agree on the    *)
(* session's beats: what one stamps, the other maps to its own beat of     *)
(* that moment (session_offset; write_sink, push_chunks).                  *)
SessionBeatsAgree ==
    \A n, m \in Peers, q, r \in Quanta :
       peer[n].session = peer[m].session /\ peer[n].timeline = peer[m].timeline =>
          AppBeatAtGhost(peer[n].timeline, Ghost(n), q) - SessionOffset(peer[n].timeline, q)
            + SessionOffset(peer[m].timeline, r)
          = AppBeatAtGhost(peer[m].timeline, Ghost(m), r)

(* A new tempo leaves the past alone: the old timeline meets the new one   *)
(* at its origin, which is no earlier than the call, up to rounding, also  *)
(* when the tempo is set several times in an instant (set_tempo).          *)
TempoTurnsAtOrigin ==
    [][\A n \in Peers : SetsTempo(n) =>
         LET old == peer[n].timeline
             new == peer'[n].timeline
         IN  /\ 2 * old.tempo * Distance(BeatsAtGhost(old, new.time_origin), new.beat_origin)
                   <= Unit + old.tempo
             /\ 2 * Unit * (Ghost(n) - new.time_origin) <= Unit + old.tempo
             /\ new.beat_origin > old.beat_origin]_vars

(* A peer that founds a session after others left goes on at the tempo and *)
(* beat it was at, although its ghost clock starts over (reset_session).   *)
ResetContinues ==
    [][\A n \in Peers : Resets(n) =>
         /\ peer'[n].timeline.tempo = peer[n].timeline.tempo
         /\ BeatsAtGhost(peer'[n].timeline, now + peer'[n].ghost_offset)
              = BeatsAtGhost(peer[n].timeline, Ghost(n))]_vars

=============================================================================
