------------------------------- MODULE Engine -------------------------------
(***************************************************************************)
(* The state of a peer and the handlers that change it                     *)
(* (src/crates/tactus/src/engine.rs).  All of it sits behind one mutex, so *)
(* a handler is atomic: it is written here as an operator from the state   *)
(* before (a record with the field names of `State`) to the state after.   *)
(* Where the code lets a hash map's iteration order decide, the operator   *)
(* returns the set of the states the handler may leave.                    *)
(*                                                                         *)
(* Definitions named `...Fault...` are plausible mistakes; the runs show    *)
(* that the properties tell them from the code.                            *)
(*                                                                         *)
(* Left out here: the clocked send times (modelled in Housekeeping) and    *)
(* the audio sub-state.  Deadlines are abstracted to "may have passed" and     *)
(* appear as arguments of the timer handlers.                              *)
(***************************************************************************)
EXTENDS Integers, Sequences

CONSTANTS
    None,             \* the absent value of an Option, or of a map's entry
    Id,               \* node and session identifiers
    Epsilon,          \* JOIN_EPSILON
    MaxRetries,       \* MAX_MEASUREMENT_RETRIES
    SamplesRequired,  \* sync::SAMPLES_REQUIRED
    TempoMin,         \* TEMPO_MIN_MICROS_PER_BEAT
    TempoMax          \* TEMPO_MAX_MICROS_PER_BEAT

ASSUME NoneAssumption == None \notin Int
ASSUME EngineAssumption ==
    /\ Id \subseteq Nat
    /\ Epsilon \in Nat
    /\ MaxRetries \in Nat
    /\ SamplesRequired \in Nat
    /\ TempoMin \in Nat
    /\ TempoMax \in Nat
    /\ TempoMin <= TempoMax

-----------------------------------------------------------------------------
(* Data.  Identifiers are compared byte-wise by the code: here, as numbers. *)

Timeline == [tempo : Int, beat_origin : Int]
StartStop == [is_playing : BOOLEAN, beats : Int, timestamp : Int]
DefaultStartStop == [is_playing |-> FALSE, beats |-> 0, timestamp |-> 0]

(* Maps keyed by session are total, None where the code has no entry. *)
EmptyMap == [s \in Id |-> None]

ClampTempo(t) == IF t < TempoMin THEN TempoMin
                 ELSE IF t > TempoMax THEN TempoMax ELSE t
Clamped(tl) == [tl EXCEPT !.tempo = ClampTempo(@)]

(* A peer as constructed.  Below, `fresh` is what a handler draws from      *)
(* outside when it founds a session: a random NodeId, the local clock, and *)
(* the beat the timeline is at.                                            *)
NewPeer(node, tempo) ==
    [enabled |-> FALSE, node |-> node, session |-> node,
     timeline |-> [tempo |-> ClampTempo(tempo), beat_origin |-> 0],
     ghost_offset |-> 0, held_stst |-> DefaultStartStop,
     app_playing |-> FALSE, sst_sync |-> FALSE,
     gateways |-> {}, next_gateway_id |-> 0, peers |-> {},
     session_member_seen |-> FALSE, foreign_timelines |-> EmptyMap,
     measured |-> EmptyMap, measurement |-> None, pending |-> <<>>,
     remeasure_armed |-> FALSE]

-----------------------------------------------------------------------------
(* Session election. *)

JoinRuleFaultOneSided(diff, sess, current) ==
    diff > Epsilon \/ (diff < Epsilon /\ sess < current)

JoinRule(diff, sess, current) ==
    \/ diff > Epsilon
    \/ diff < Epsilon /\ -diff < Epsilon /\ sess < current

JoinedTimeline(st, sess) ==
    IF st.foreign_timelines[sess] # None
    THEN Clamped(st.foreign_timelines[sess]) ELSE st.timeline

AdoptSession(st, sess, offset) ==
    [st EXCEPT !.measured[st.session] = st.ghost_offset,
               !.session = sess,
               !.ghost_offset = offset,
               !.timeline = JoinedTimeline(st, sess),
               !.held_stst = DefaultStartStop,
               !.session_member_seen = TRUE,
               !.remeasure_armed = TRUE]

EvaluateJoin(st, sess, offset) ==
    IF sess # st.session /\ JoinRule(offset - st.ghost_offset, sess, st.session)
    THEN AdoptSession(st, sess, offset)
    ELSE st

ResetSession(st, fresh) ==
    [st EXCEPT !.measured[st.session] = st.ghost_offset,
               !.node = fresh.node,
               !.session = fresh.node,
               !.ghost_offset = -fresh.now,
               !.timeline = [tempo |-> @.tempo, beat_origin |-> fresh.beats],
               !.held_stst = [is_playing |-> @.is_playing, beats |-> fresh.beats,
                               timestamp |-> 0],
               !.session_member_seen = FALSE,
               !.remeasure_armed = FALSE]

Members(st, sess) == {e \in st.peers : e.session = sess}

CheckSessionLossFaultFounder(st, fresh) ==
    IF st.session_member_seen /\ {e \in st.peers : e.node = st.session} = {}
    THEN ResetSession(st, fresh)
    ELSE st

CheckSessionLoss(st, fresh) ==
    IF st.session_member_seen /\ Members(st, st.session) = {}
    THEN ResetSession(st, fresh)
    ELSE st

-----------------------------------------------------------------------------
(* Measurement of a session's ghost offset. *)

StartNextMeasurement(st) ==
    IF st.measurement # None \/ st.pending = <<>> THEN st
    ELSE LET task == Head(st.pending)
             popped == [st EXCEPT !.pending = Tail(@)]
         IN  IF task.gateway \notin st.gateways THEN popped
             ELSE [popped EXCEPT !.measurement =
                      [task |-> task, samples |-> 0, timeouts |-> 0]]

HasTaskFaultQueueOnly(st, sess) ==
    \E i \in DOMAIN st.pending : st.pending[i].session = sess

HasTask(st, sess) ==
    \/ st.measurement # None /\ st.measurement.task.session = sess
    \/ \E i \in DOMAIN st.pending : st.pending[i].session = sess

(* Where an entry's measurement endpoint is reached. *)
Reach(entries) == {[target |-> e.mep, gateway |-> e.gateway] :
                      e \in {d \in entries : d.mep # None}}
Founders(st, sess) == Reach({e \in st.peers : e.node = sess})

GossipTargets(st, gw, sess, mep) ==
    IF Founders(st, sess) # {} THEN Founders(st, sess)
    ELSE IF mep # None THEN {[target |-> mep, gateway |-> gw]} ELSE {}

RemeasureTargets(st) ==
    IF Founders(st, st.session) # {} THEN Founders(st, st.session)
    ELSE Reach(Members(st, st.session))

Enqueue(st, sess, where, purpose) ==
    [st EXCEPT !.pending = Append(@,
        [session |-> sess, target |-> where.target, gateway |-> where.gateway,
         purpose |-> purpose])]

QueueMeasurement(st, gw, sess, mep) ==
    LET targets == GossipTargets(st, gw, sess, mep)
    IN  IF HasTask(st, sess) \/ targets = {} THEN {st}
        ELSE {StartNextMeasurement(Enqueue(st, sess, w, "Join")) : w \in targets}

(* Founders do not re-measure their own session. *)
QueueRemeasure(st) ==
    LET targets == RemeasureTargets(st)
    IN  IF st.session = st.node \/ HasTask(st, st.session) \/ targets = {} THEN {st}
        ELSE {Enqueue(st, st.session, w, "Remeasure") : w \in targets}

MeasurementSucceededFaultAnySession(st, task, offset) ==
    LET known == [st EXCEPT !.measured[task.session] = offset]
    IN  StartNextMeasurement(
          IF task.purpose = "Join" THEN EvaluateJoin(known, task.session, offset)
          ELSE [known EXCEPT !.ghost_offset = offset, !.remeasure_armed = TRUE])

MeasurementSucceeded(st, task, offset) ==
    LET known == [st EXCEPT !.measured[task.session] = offset]
    IN  StartNextMeasurement(
          IF task.purpose = "Join" THEN EvaluateJoin(known, task.session, offset)
          ELSE [known EXCEPT
                  !.ghost_offset = IF st.session = task.session THEN offset ELSE @,
                  !.remeasure_armed = TRUE])

MeasurementFailedFaultIdle(st, task) ==
    [st EXCEPT !.remeasure_armed = @ \/ task.purpose = "Remeasure"]

MeasurementFailed(st, task) ==
    StartNextMeasurement(
        [st EXCEPT !.remeasure_armed = @ \/ task.purpose = "Remeasure"])

HandlePongFaultAnySession(st, gw, src, sess, samples, offset) ==
    LET m == st.measurement
        total == m.samples + samples
    IN  IF ~st.enabled \/ m = None THEN st
        ELSE IF m.task.gateway # gw \/ m.task.target # src THEN st
        ELSE IF total > SamplesRequired
             THEN MeasurementSucceeded([st EXCEPT !.measurement = None], m.task, offset)
        ELSE [st EXCEPT !.measurement.samples = total]

HandlePongFaultBudget(st, gw, src, sess, samples, offset) ==
    LET m == st.measurement
        idle == [st EXCEPT !.measurement = None]
        total == m.samples + samples
    IN  IF ~st.enabled \/ m = None THEN st
        ELSE IF m.task.gateway # gw \/ m.task.target # src THEN st
        ELSE IF sess # m.task.session THEN MeasurementFailed(idle, m.task)
        ELSE IF total > SamplesRequired
             THEN MeasurementSucceeded(idle, m.task, offset)
        ELSE [st EXCEPT !.measurement.samples = total, !.measurement.timeouts = 0]

(* A pong from `src` names session `sess`, yields 0 to 2 samples, and      *)
(* `offset` is the median once there are enough of them.                   *)
HandlePong(st, gw, src, sess, samples, offset) ==
    LET m == st.measurement
        idle == [st EXCEPT !.measurement = None]
        total == m.samples + samples
    IN  IF ~st.enabled \/ m = None THEN st
        ELSE IF m.task.gateway # gw \/ m.task.target # src THEN st
        ELSE IF sess # m.task.session THEN MeasurementFailed(idle, m.task)
        ELSE IF total > SamplesRequired
             THEN MeasurementSucceeded(idle, m.task, offset)
        ELSE [st EXCEPT !.measurement.samples = total]

RetryExpiredFaultLate(st) ==
    LET m == st.measurement
    IN  IF m.timeouts > MaxRetries
        THEN MeasurementFailed([st EXCEPT !.measurement = None], m.task)
        ELSE [st EXCEPT !.measurement.timeouts = @ + 1]

(* The retry timer has expired. *)
RetryExpired(st) ==
    LET m == st.measurement
    IN  IF m.timeouts >= MaxRetries
        THEN MeasurementFailed([st EXCEPT !.measurement = None], m.task)
        ELSE [st EXCEPT !.measurement.timeouts = @ + 1]

-----------------------------------------------------------------------------
(* Discovery. *)

AdoptTimelineFaultTie(st, tl) ==
    IF tl # None /\ tl.beat_origin >= st.timeline.beat_origin
    THEN [st EXCEPT !.timeline = Clamped(tl)] ELSE st

AdoptTimelineFaultAny(st, tl) ==
    IF tl # None THEN [st EXCEPT !.timeline = Clamped(tl)] ELSE st

AdoptTimeline(st, tl) ==
    IF tl # None /\ tl.beat_origin > st.timeline.beat_origin
    THEN [st EXCEPT !.timeline = Clamped(tl)] ELSE st

AdoptStartStop(st, stst) ==
    IF stst # None /\ stst.timestamp > st.held_stst.timestamp
    THEN [st EXCEPT !.held_stst = stst,
                    !.app_playing = IF st.sst_sync /\ stst # DefaultStartStop
                                    THEN stst.is_playing ELSE @]
    ELSE st

CacheTimeline(st, sess, tl) ==
    IF tl # None /\ (\/ st.foreign_timelines[sess] = None
                     \/ tl.beat_origin > st.foreign_timelines[sess].beat_origin)
    THEN [st EXCEPT !.foreign_timelines[sess] = tl] ELSE st

InsertPeer(st, gw, node, ps) ==
    [st EXCEPT !.peers =
        {e \in @ : e.node # node \/ e.gateway # gw}
          \cup {[node |-> node, gateway |-> gw, session |-> ps.session, mep |-> ps.mep]}]

ProcessPeerState(st, gw, node, ps) ==
    LET seen == InsertPeer(st, gw, node, ps)
    IN  IF ps.session = None THEN {seen}
        ELSE IF ps.session = st.session
        THEN {AdoptStartStop(AdoptTimeline([seen EXCEPT !.session_member_seen = TRUE],
                                           ps.timeline), ps.stst)}
        ELSE LET cached == CacheTimeline(seen, ps.session, ps.timeline)
             IN  IF st.measured[ps.session] # None
                 THEN {EvaluateJoin(cached, ps.session, st.measured[ps.session])}
                 ELSE QueueMeasurement(cached, gw, ps.session, ps.mep)

(* An Alive or a Response. *)
HandlePeerState(st, gw, node, ps) ==
    IF ~st.enabled \/ node = st.node THEN {st}
    ELSE ProcessPeerState(st, gw, node, ps)

HandleByeBye(st, gw, node, fresh) ==
    IF ~st.enabled \/ node = st.node THEN st
    ELSE CheckSessionLoss(
           [st EXCEPT !.peers = {e \in @ : e.node # node \/ e.gateway # gw}], fresh)

-----------------------------------------------------------------------------
(* Gateways. *)

OpenGateway(st) ==
    [st EXCEPT !.gateways = @ \cup {st.next_gateway_id},
               !.next_gateway_id = @ + 1]

(* The increasing enumeration of a set of positions (there is one), and    *)
(* what `retain` leaves of a queue.                                        *)
Enumerations(K, n) ==
    {f \in [1 .. n -> K] : /\ \A i, j \in 1 .. n : i < j => f[i] < f[j]
                          /\ \A k \in K : \E i \in 1 .. n : f[i] = k}

RetainedFaultAll(queue, id) == {queue}

Retained(queue, id) ==
    LET K == {i \in DOMAIN queue : queue[i].gateway # id}
    IN  UNION {{[i \in 1 .. n |-> queue[f[i]]] : f \in Enumerations(K, n)} :
                  n \in 0 .. Len(queue)}

CloseGateway(st, id, fresh) ==
    {CheckSessionLoss(
        [st EXCEPT !.gateways = @ \ {id},
                   !.peers = {e \in @ : e.gateway # id},
                   !.pending = queue], fresh) : queue \in Retained(st.pending, id)}

(* Enabling opens `count` gateways. *)
Enable(st, fresh, count) ==
    LET opened == st.next_gateway_id .. (st.next_gateway_id + count - 1)
    IN  [st EXCEPT !.enabled = TRUE,
                   !.node = fresh.node,
                   !.session = fresh.node,
                   !.ghost_offset = -fresh.now,
                   !.timeline = [tempo |-> @.tempo, beat_origin |-> 0],
                   !.held_stst = DefaultStartStop,
                   !.session_member_seen = FALSE,
                   !.foreign_timelines = EmptyMap,
                   !.measured = EmptyMap,
                   !.measurement = None,
                   !.pending = <<>>,
                   !.peers = {},
                   !.remeasure_armed = FALSE,
                   !.gateways = @ \cup opened,
                   !.next_gateway_id = @ + count]

(* What `disable` and `simulate_crash` both clear. *)
GoSilent(st) ==
    [st EXCEPT !.enabled = FALSE, !.gateways = {}, !.peers = {},
               !.measurement = None, !.pending = <<>>]

Disable(st) ==
    [GoSilent(st) EXCEPT !.session_member_seen = FALSE, !.remeasure_armed = FALSE]

-----------------------------------------------------------------------------
(* One housekeeping pass.  `expired` are the entries whose deadline has    *)
(* passed (none, when the padded prune timer has not), `retry` and         *)
(* `remeasure` say which of the two timers are due.                        *)

PruneExpired(st, expired, fresh) ==
    IF expired = {} THEN st
    ELSE CheckSessionLoss([st EXCEPT !.peers = @ \ expired], fresh)

HousekeepingPass(st, expired, retry, remeasure, fresh) ==
    LET pruned == PruneExpired(st, expired, fresh)
        retried == IF retry THEN RetryExpired(pruned) ELSE pruned
        \* measurement_failed pushes the re-measure timer 30 s ahead
        failed == retry /\ pruned.measurement.timeouts >= MaxRetries
                        /\ pruned.measurement.task.purpose = "Remeasure"
        queued == IF remeasure /\ retried.remeasure_armed /\ ~failed
                  THEN QueueRemeasure(retried) ELSE {retried}
    IN  {StartNextMeasurement(s) : s \in queued}

-----------------------------------------------------------------------------
(* The application's calls.  `beats` and `ghost` are the beat and the      *)
(* ghost time the call reads.                                              *)

Larger(a, b) == IF a > b THEN a ELSE b

SetTempo(st, tempo, beats) ==
    [st EXCEPT !.timeline =
        [tempo |-> ClampTempo(tempo), beat_origin |-> Larger(beats, @.beat_origin + 1)]]

SetIsPlaying(st, playing, beats, ghost) ==
    [st EXCEPT !.app_playing = playing,
               !.held_stst =
                   IF st.sst_sync
                   THEN [is_playing |-> playing, beats |-> beats,
                         timestamp |-> Larger(ghost, @.timestamp + 1)]
                   ELSE @]

EnableStartStopSync(st, on) ==
    [st EXCEPT !.sst_sync = on,
               !.app_playing = IF on /\ st.held_stst # DefaultStartStop
                               THEN st.held_stst.is_playing ELSE @]
=============================================================================
