--------------------------- MODULE ElectionProofs ---------------------------
(***************************************************************************)
(* Proofs about Election: the peers of a session share its ghost clock,    *)
(* and every change of session goes up the order of the join rule.  One    *)
(* lemma per handler of Engine says that it keeps a peer's record sound,   *)
(* that is, everything it knows about any session's clock correct.         *)
(***************************************************************************)
EXTENDS Election, TLAPS

Entry == [node : Id, gateway : Nat, session : Id, mep : Id]
Task == [session : Id, target : Id, gateway : Nat, purpose : {"Join", "Remeasure"}]
Measurement == [task : Task, samples : Int, timeouts : Int]

States ==
    [enabled : BOOLEAN, node : Id, session : Id, timeline : Timeline,
     ghost_offset : Int, held_stst : StartStop, app_playing : BOOLEAN,
     sst_sync : BOOLEAN, gateways : SUBSET Nat, next_gateway_id : Nat,
     peers : SUBSET Entry, session_member_seen : BOOLEAN,
     foreign_timelines : [Id -> Timeline \cup {None}],
     measured : [Id -> Int \cup {None}],
     measurement : Measurement \cup {None}, pending : Seq(Task),
     remeasure_armed : BOOLEAN]

(* A peer keeps the clock of its session's founder, and every clock it has *)
(* measured is that of the session it is filed under.                      *)
Sound(s) ==
    /\ s \in States
    /\ s.ghost_offset = Ghosts[s.session]
    /\ \A i \in Id : s.measured[i] # None => s.measured[i] = Ghosts[i]

(* A handler changes a peer's session only to one that wins over it.       *)
Climbs(s, r) == r.session # s.session => Wins(r.session, s.session)

(* What an Alive can say.  It says nothing of a clock. *)
Payload == [session : Id, timeline : Timeline, stst : StartStop, mep : Id]

(* The inductive invariant. *)
EInv ==
    /\ peer \in [Id -> States]
    /\ \A n \in Id : Sound(peer[n])
    /\ late # None => late.node \in Id /\ late.state \in Payload

-----------------------------------------------------------------------------
(* Frames. *)

(* A record that agrees on session, clock and measured clocks. *)
Agrees(s, r) ==
    /\ r.session = s.session
    /\ r.ghost_offset = s.ghost_offset
    /\ r.measured = s.measured

LEMMA Frame ==
    ASSUME NEW s, NEW r \in States, Sound(s), Agrees(s, r)
    PROVE  Sound(r) /\ Climbs(s, r)
BY DEF Sound, Agrees, Climbs

LEMMA ClampedType ==
    ASSUME NEW tl \in Timeline
    PROVE  Clamped(tl) \in Timeline
BY EngineAssumption DEF Clamped, ClampTempo, Timeline

-----------------------------------------------------------------------------
(* The measurement queue. *)

LEMMA StartNextSound ==
    ASSUME NEW s \in States
    PROVE  StartNextMeasurement(s) \in States /\ Agrees(s, StartNextMeasurement(s))
<1> DEFINE task == Head(s.pending)
           popped == [s EXCEPT !.pending = Tail(@)]
           flight == [task |-> task, samples |-> 0, timeouts |-> 0]
           started == [popped EXCEPT !.measurement = flight]
<1>1. CASE s.measurement # None \/ s.pending = <<>>
  BY <1>1 DEF StartNextMeasurement, Agrees
<1>2. CASE ~(s.measurement # None \/ s.pending = <<>>)
  <2>1. s.pending \in Seq(Task) /\ s.pending # <<>>
    BY <1>2 DEF States
  <2>2. task \in Task /\ Tail(s.pending) \in Seq(Task)
    BY <2>1
  <2>3. popped \in States /\ Agrees(s, popped)
    BY <2>2 DEF Agrees, States
  <2>4. flight \in Measurement
    BY <2>2 DEF Measurement
  <2> HIDE DEF popped, flight
  <2>5. started \in States /\ Agrees(popped, started)
    BY <2>3, <2>4 DEF Agrees, States
  <2> QED BY <1>2, <2>3, <2>5 DEF StartNextMeasurement, Agrees, popped, flight
<1> QED BY <1>1, <1>2

Where == [target : Id, gateway : Nat]

LEMMA EnqueueSound ==
    ASSUME NEW s \in States, NEW sess \in Id, NEW w \in Where,
           NEW purpose \in {"Join", "Remeasure"}
    PROVE  /\ Enqueue(s, sess, w, purpose) \in States
           /\ Agrees(s, Enqueue(s, sess, w, purpose))
<1> DEFINE task == [session |-> sess, target |-> w.target, gateway |-> w.gateway,
                    purpose |-> purpose]
           queue == Append(s.pending, task)
<1>1. task \in Task /\ s.pending \in Seq(Task)
  BY DEF Task, Where, States
<1>2. queue \in Seq(Task)
  BY <1>1
<1>3. Enqueue(s, sess, w, purpose) = [s EXCEPT !.pending = queue]
  BY DEF Enqueue
<1> HIDE DEF queue
<1> QED BY <1>2, <1>3 DEF Agrees, States

LEMMA QueueMeasurementSound ==
    ASSUME NEW s \in States, NEW gw \in Nat, NEW sess \in Id, NEW mep \in Id,
           NEW r \in QueueMeasurement(s, gw, sess, mep)
    PROVE  r \in States /\ Agrees(s, r)
<1>1. CASE r = s
  BY <1>1 DEF Agrees
<1>2. CASE r # s
  <2>1. \E w \in GossipTargets(s, gw, sess, mep) :
           r = StartNextMeasurement(Enqueue(s, sess, w, "Join"))
    BY <1>2 DEF QueueMeasurement
  <2>2. GossipTargets(s, gw, sess, mep) \subseteq Where
    BY DEF GossipTargets, Founders, Reach, Where, States, Entry
  <2>3. PICK w \in Where : r = StartNextMeasurement(Enqueue(s, sess, w, "Join"))
    BY <2>1, <2>2
  <2> DEFINE q == Enqueue(s, sess, w, "Join")
  <2>4. q \in States /\ Agrees(s, q)
    BY EnqueueSound
  <2> HIDE DEF q
  <2>5. StartNextMeasurement(q) \in States /\ Agrees(q, StartNextMeasurement(q))
    BY <2>4, StartNextSound
  <2> QED BY <2>3, <2>4, <2>5 DEF Agrees, q
<1> QED BY <1>1, <1>2

-----------------------------------------------------------------------------
(* Joining. *)

LEMMA EvaluateJoinSound ==
    ASSUME NEW s, Sound(s), NEW sess \in Id
    PROVE  LET r == EvaluateJoin(s, sess, Ghosts[sess])
           IN  Sound(r) /\ Climbs(s, r)
<1> DEFINE offset == Ghosts[sess]
           r == AdoptSession(s, sess, offset)
<1>1. CASE EvaluateJoin(s, sess, offset) = s
  BY <1>1 DEF Climbs
<1>2. CASE EvaluateJoin(s, sess, offset) # s
  <2>1. /\ sess # s.session
        /\ JoinRule(offset - s.ghost_offset, sess, s.session)
        /\ EvaluateJoin(s, sess, offset) = r
    BY <1>2 DEF EvaluateJoin
  <2>2. /\ s \in States /\ s.session \in Id /\ s.ghost_offset = Ghosts[s.session]
        /\ s.ghost_offset \in Int /\ s.measured \in [Id -> Int \cup {None}]
    BY DEF Sound, States
  <2>3. offset \in Int
    BY ElectionAssumption
  <2>4. JoinedTimeline(s, sess) \in Timeline
    <3>1. s.timeline \in Timeline /\ s.foreign_timelines[sess] \in Timeline \cup {None}
      BY <2>2 DEF States
    <3> QED BY <3>1, ClampedType DEF JoinedTimeline
  <2>5. DefaultStartStop \in StartStop
    BY DEF DefaultStartStop, StartStop
  <2> HIDE DEF offset
  <2>6. r \in States
    BY <2>2, <2>3, <2>4, <2>5 DEF AdoptSession, States
  <2>7. /\ r.session = sess /\ r.ghost_offset = offset
        /\ r.measured = [s.measured EXCEPT ![s.session] = s.ghost_offset]
    BY <2>2 DEF AdoptSession, States
  <2> HIDE DEF r
  <2>8. Sound(r)
    BY <2>2, <2>6, <2>7 DEF Sound, offset
  <2>9. Climbs(s, r)
    BY <2>1, <2>2, <2>7 DEF Climbs, Wins, offset
  <2> QED BY <2>1, <2>8, <2>9 DEF offset
<1> QED BY <1>1, <1>2

Idle(s) == [s EXCEPT !.measurement = None]

(* A measurement ends: it yields the clock of the session that its task    *)
(* names.                                                                  *)
LEMMA SucceededSound ==
    ASSUME NEW s, Sound(s), NEW task \in Task
    PROVE  LET r == MeasurementSucceeded(s, task, Ghosts[task.session])
           IN  Sound(r) /\ Climbs(s, r)
<1> DEFINE sess == task.session
           offset == Ghosts[sess]
           k == [s EXCEPT !.measured[sess] = offset]
           r == MeasurementSucceeded(s, task, offset)
<1>1. /\ s \in States /\ sess \in Id /\ offset \in Int
      /\ s.measured \in [Id -> Int \cup {None}]
  BY ElectionAssumption DEF Sound, States, Task
<1>2. /\ k \in States /\ k.session = s.session /\ k.ghost_offset = s.ghost_offset
      /\ k.measured = [s.measured EXCEPT ![sess] = offset]
  BY <1>1 DEF States
<1> HIDE DEF k
<1>3. Sound(k)
  BY <1>1, <1>2 DEF Sound
<1>4. CASE task.purpose = "Join"
  <2> DEFINE e == EvaluateJoin(k, sess, offset)
  <2>1. Sound(e) /\ Climbs(k, e)
    BY <1>1, <1>3, EvaluateJoinSound
  <2>2. r = StartNextMeasurement(e)
    BY <1>4 DEF MeasurementSucceeded, k
  <2> HIDE DEF e, r
  <2>3. r \in States /\ Agrees(e, r)
    BY <2>1, <2>2, StartNextSound DEF Sound
  <2>4. Sound(r)
    BY <2>1, <2>3, Frame
  <2>5. Climbs(s, r)
    BY <1>2, <2>1, <2>3 DEF Climbs, Agrees
  <2> QED BY <2>4, <2>5 DEF r
<1>5. CASE task.purpose = "Remeasure"
  <2> DEFINE o == IF s.session = sess THEN offset ELSE s.ghost_offset
             e == [k EXCEPT !.ghost_offset = o, !.remeasure_armed = TRUE]
  <2>1. o \in Int /\ o = Ghosts[s.session]
    BY <1>1 DEF Sound, States
  <2> HIDE DEF o
  <2>2. /\ e \in States /\ e.session = s.session /\ e.ghost_offset = o
        /\ e.measured = k.measured
    BY <1>2, <2>1 DEF States
  <2>3. r = StartNextMeasurement(e)
    BY <1>2, <1>5 DEF MeasurementSucceeded, k, o
  <2> HIDE DEF e, r
  <2>4. Sound(e)
    BY <1>2, <1>3, <2>1, <2>2 DEF Sound
  <2>5. r \in States /\ Agrees(e, r)
    BY <2>2, <2>3, StartNextSound
  <2>6. Sound(r)
    BY <2>4, <2>5, Frame
  <2>7. Climbs(s, r)
    BY <2>2, <2>5 DEF Climbs, Agrees
  <2> QED BY <2>6, <2>7 DEF r
<1>6. task.purpose \in {"Join", "Remeasure"}
  BY DEF Task
<1> QED BY <1>4, <1>5, <1>6

LEMMA FailedSound ==
    ASSUME NEW s, Sound(s), NEW task
    PROVE  LET r == MeasurementFailed(s, task) IN Sound(r) /\ Climbs(s, r)
<1> DEFINE armed == s.remeasure_armed \/ task.purpose = "Remeasure"
           q == [s EXCEPT !.remeasure_armed = armed]
           r == MeasurementFailed(s, task)
<1>1. armed \in BOOLEAN
  OBVIOUS
<1>2. q \in States /\ Agrees(s, q)
  <2> HIDE DEF armed
  <2> QED BY <1>1 DEF Sound, States, Agrees
<1>3. r = StartNextMeasurement(q)
  BY DEF MeasurementFailed
<1> HIDE DEF q, r
<1>4. r \in States /\ Agrees(q, r)
  BY <1>2, <1>3, StartNextSound
<1>5. Agrees(s, r)
  BY <1>2, <1>4 DEF Agrees
<1> QED BY <1>4, <1>5, Frame DEF r

(* A pong carries the session its sender is in now, and that session's     *)
(* clock; it ends the measurement of another session without a result.     *)
LEMMA PongSound ==
    ASSUME NEW s, Sound(s), NEW gw, NEW src, NEW sess \in Id, NEW samples \in Int
    PROVE  LET r == HandlePong(s, gw, src, sess, samples, Ghosts[sess])
           IN  Sound(r) /\ Climbs(s, r)
<1> DEFINE r == HandlePong(s, gw, src, sess, samples, Ghosts[sess])
           m == s.measurement
           total == m.samples + samples
<1>1. CASE r = s
  BY <1>1 DEF Climbs
<1>2. CASE r # s
  <2>1. m # None
    BY <1>2 DEF HandlePong
  <2>2. /\ s \in States /\ m \in Measurement /\ m.task \in Task /\ m.samples \in Int
    BY <2>1 DEF Sound, States, Measurement
  <2> DEFINE d == Idle(s)
  <2>3. d \in States /\ Agrees(s, d)
    BY <2>2 DEF Idle, Agrees, States
  <2> HIDE DEF d
  <2>4. Sound(d)
    BY <2>3, Frame
  <2>5. CASE r = MeasurementFailed(d, m.task)
    <3> HIDE DEF r
    <3>1. Sound(r) /\ Climbs(d, r)
      BY <2>4, <2>5, FailedSound
    <3> QED BY <2>3, <3>1 DEF Agrees, Climbs, r
  <2>6. CASE r = MeasurementSucceeded(d, m.task, Ghosts[m.task.session])
    <3> HIDE DEF r
    <3>1. Sound(r) /\ Climbs(d, r)
      BY <2>2, <2>4, <2>6, SucceededSound
    <3> QED BY <2>3, <3>1 DEF Agrees, Climbs, r
  <2>7. CASE r = [s EXCEPT !.measurement.samples = total]
    <3> DEFINE n == [m EXCEPT !.samples = total]
    <3>1. n \in Measurement
      BY <2>2 DEF Measurement
    <3>2. r = [s EXCEPT !.measurement = n]
      BY <2>2, <2>7 DEF States
    <3> HIDE DEF n, r, m, total
    <3>3. r \in States /\ Agrees(s, r)
      BY <2>2, <3>1, <3>2 DEF Agrees, States
    <3> QED BY <3>3, Frame DEF r
  <2>8. \/ r = MeasurementFailed(d, m.task)
        \/ r = MeasurementSucceeded(d, m.task, Ghosts[m.task.session])
        \/ r = [s EXCEPT !.measurement.samples = total]
    BY <1>2 DEF HandlePong, Idle, d
  <2> QED BY <2>5, <2>6, <2>7, <2>8
<1> QED BY <1>1, <1>2

-----------------------------------------------------------------------------
(* Gossip. *)

LEMMA AdoptTimelineSound ==
    ASSUME NEW s \in States, NEW tl \in Timeline
    PROVE  AdoptTimeline(s, tl) \in States /\ Agrees(s, AdoptTimeline(s, tl))
BY ClampedType DEF AdoptTimeline, States, Agrees

LEMMA AdoptStartStopSound ==
    ASSUME NEW s \in States, NEW stst \in StartStop
    PROVE  AdoptStartStop(s, stst) \in States /\ Agrees(s, AdoptStartStop(s, stst))
<1> DEFINE p == IF s.sst_sync /\ stst # DefaultStartStop
                THEN stst.is_playing ELSE s.app_playing
           r == [s EXCEPT !.held_stst = stst, !.app_playing = p]
<1>1. p \in BOOLEAN
  BY DEF StartStop, States
<1>2. AdoptStartStop(s, stst) \in {s, r}
  BY DEF AdoptStartStop
<1>3. r \in States /\ Agrees(s, r)
  <2> HIDE DEF p
  <2> QED BY <1>1 DEF States, Agrees
<1> HIDE DEF r
<1> QED BY <1>2, <1>3 DEF Agrees

LEMMA PeerStateSound ==
    ASSUME NEW s, Sound(s), NEW gw \in Nat, NEW node \in Id, NEW ps \in Payload,
           NEW r \in HandlePeerState(s, gw, node, ps)
    PROVE  Sound(r) /\ Climbs(s, r)
<1> DEFINE a == InsertPeer(s, gw, node, ps)
<1>1. CASE r = s
  BY <1>1 DEF Climbs
<1>2. CASE r # s
  <2>1. r \in ProcessPeerState(s, gw, node, ps)
    BY <1>2 DEF HandlePeerState
  <2>2. s \in States
    BY DEF Sound
  <2>3. /\ ps.session \in Id /\ ps.timeline \in Timeline
        /\ ps.stst \in StartStop /\ ps.mep \in Id
    BY DEF Payload
  <2>4. [node |-> node, gateway |-> gw, session |-> ps.session, mep |-> ps.mep] \in Entry
    BY <2>3 DEF Entry
  <2>5. a \in States /\ Agrees(s, a)
    BY <2>2, <2>4 DEF InsertPeer, States, Agrees
  <2> HIDE DEF a
  <2>6. CASE ps.session = None
    BY <2>1, <2>5, <2>6, Frame DEF ProcessPeerState, a
  <2>7. CASE ps.session # None /\ ps.session = s.session
    <3> DEFINE b == [a EXCEPT !.session_member_seen = TRUE]
               c == AdoptTimeline(b, ps.timeline)
    <3>1. r = AdoptStartStop(c, ps.stst)
      BY <2>1, <2>7 DEF ProcessPeerState, a
    <3>2. b \in States /\ Agrees(a, b)
      BY <2>5 DEF States, Agrees
    <3> HIDE DEF b
    <3>3. c \in States /\ Agrees(b, c)
      BY <2>3, <3>2, AdoptTimelineSound
    <3> HIDE DEF c
    <3>4. r \in States /\ Agrees(c, r)
      BY <2>3, <3>1, <3>3, AdoptStartStopSound
    <3>5. Agrees(s, r)
      BY <2>5, <3>2, <3>3, <3>4 DEF Agrees
    <3> QED BY <3>4, <3>5, Frame
  <2>8. CASE ps.session # None /\ ps.session # s.session
    <3> DEFINE b == CacheTimeline(a, ps.session, ps.timeline)
    <3>1. b \in States /\ Agrees(a, b)
      BY <2>3, <2>5 DEF CacheTimeline, States, Agrees
    <3>2. r \in (IF s.measured[ps.session] # None
                 THEN {EvaluateJoin(b, ps.session, s.measured[ps.session])}
                 ELSE QueueMeasurement(b, gw, ps.session, ps.mep))
      BY <2>1, <2>8 DEF ProcessPeerState, a
    <3> HIDE DEF b
    <3>3. Agrees(s, b)
      BY <2>5, <3>1 DEF Agrees
    <3>4. Sound(b)
      BY <3>1, <3>3, Frame
    <3>5. CASE s.measured[ps.session] # None
      <4>1. r = EvaluateJoin(b, ps.session, Ghosts[ps.session])
        BY <2>3, <3>2, <3>5 DEF Sound
      <4>2. Sound(r) /\ Climbs(b, r)
        BY <2>3, <3>4, <4>1, EvaluateJoinSound
      <4> QED BY <3>3, <4>2 DEF Agrees, Climbs
    <3>6. CASE s.measured[ps.session] = None
      <4>1. r \in QueueMeasurement(b, gw, ps.session, ps.mep)
        BY <3>2, <3>6
      <4>2. r \in States /\ Agrees(b, r)
        BY <2>3, <3>1, <4>1, QueueMeasurementSound
      <4>3. Agrees(s, r)
        BY <3>3, <4>2 DEF Agrees
      <4> QED BY <4>2, <4>3, Frame
    <3> QED BY <3>5, <3>6
  <2> QED BY <2>6, <2>7, <2>8
<1> QED BY <1>1, <1>2

-----------------------------------------------------------------------------
(* The application's calls. *)

LEMMA SetTempoSound ==
    ASSUME NEW s, Sound(s), NEW t \in Int
    PROVE  Sound(SetTempo(s, t, 0)) /\ Climbs(s, SetTempo(s, t, 0))
<1> DEFINE tl == [tempo |-> ClampTempo(t),
                  beat_origin |-> Larger(0, s.timeline.beat_origin + 1)]
<1>1. s \in States /\ s.timeline \in Timeline
  BY DEF Sound, States
<1>2. tl \in Timeline
  BY <1>1, EngineAssumption DEF Timeline, ClampTempo, Larger
<1>3. SetTempo(s, t, 0) = [s EXCEPT !.timeline = tl]
  BY <1>1 DEF SetTempo, States
<1> HIDE DEF tl
<1>4. SetTempo(s, t, 0) \in States /\ Agrees(s, SetTempo(s, t, 0))
  BY <1>1, <1>2, <1>3 DEF States, Agrees
<1> QED BY <1>4, Frame

LEMMA SetIsPlayingSound ==
    ASSUME NEW s, Sound(s), NEW playing \in BOOLEAN
    PROVE  LET r == SetIsPlaying(s, playing, 0, 0) IN Sound(r) /\ Climbs(s, r)
<1> DEFINE h == IF s.sst_sync
                THEN [is_playing |-> playing, beats |-> 0,
                      timestamp |-> Larger(0, s.held_stst.timestamp + 1)]
                ELSE s.held_stst
           r == SetIsPlaying(s, playing, 0, 0)
<1>1. s \in States /\ s.held_stst \in StartStop
  BY DEF Sound, States
<1>2. h \in StartStop
  BY <1>1 DEF StartStop, Larger
<1>3. r = [s EXCEPT !.app_playing = playing, !.held_stst = h]
  BY <1>1 DEF SetIsPlaying, States
<1> HIDE DEF h, r
<1>4. r \in States /\ Agrees(s, r)
  BY <1>1, <1>2, <1>3 DEF States, Agrees
<1> QED BY <1>4, Frame DEF r

-----------------------------------------------------------------------------
(* The network. *)

LEMMA EnabledSound ==
    ASSUME NEW n \in Id
    PROVE  Sound(Enabled(n))
<1> DEFINE p == NewPeer(n, TempoMin)
           fresh == [node |-> n, now |-> -Ghosts[n], beats |-> 0]
           q == Enable(p, fresh, 1)
           tl == [tempo |-> p.timeline.tempo, beat_origin |-> 0]
           G == p.gateways \cup (p.next_gateway_id .. (p.next_gateway_id + 1 - 1))
           o == -fresh.now
           e == Enabled(n)
<1>1. /\ DefaultStartStop \in StartStop
      /\ EmptyMap \in [Id -> Timeline \cup {None}]
      /\ EmptyMap \in [Id -> Int \cup {None}]
      /\ <<>> \in Seq(Task)
  BY DEF StartStop, DefaultStartStop, EmptyMap
<1>2. p \in States
  BY <1>1, EngineAssumption DEF NewPeer, States, ClampTempo, Timeline
<1>3. tl \in Timeline /\ G \in SUBSET Nat /\ p.next_gateway_id + 1 \in Nat
  BY <1>2 DEF States, Timeline
<1>4. o \in Int /\ o = Ghosts[n]
  BY ElectionAssumption
<1>5. q = [p EXCEPT
         !.enabled = TRUE, !.node = n, !.session = n, !.ghost_offset = o,
         !.timeline = tl, !.held_stst = DefaultStartStop,
         !.session_member_seen = FALSE, !.foreign_timelines = EmptyMap,
         !.measured = EmptyMap, !.measurement = None, !.pending = <<>>,
         !.peers = {}, !.remeasure_armed = FALSE, !.gateways = G,
         !.next_gateway_id = p.next_gateway_id + 1]
  BY <1>2 DEF Enable, States
<1>6. e = [q EXCEPT !.sst_sync = TRUE]
  BY DEF Enabled
<1> HIDE DEF p, q, tl, G, o, e
<1>7. /\ q \in States /\ q.session = n /\ q.ghost_offset = o /\ q.measured = EmptyMap
  BY <1>1, <1>2, <1>3, <1>4, <1>5 DEF States
<1>8. /\ e \in States /\ e.session = n /\ e.ghost_offset = o /\ e.measured = EmptyMap
  BY <1>6, <1>7 DEF States
<1> QED BY <1>4, <1>8 DEF Sound, EmptyMap, e

LEMMA BuildStateType ==
    ASSUME EInv, NEW n \in Id
    PROVE  BuildState(n) \in Payload
<1>1. peer[n] \in States
  BY DEF EInv
<1> QED BY <1>1 DEF BuildState, Payload, States

(* A handler of one peer that keeps its record sound keeps the invariant.  *)
LEMMA OnePeer ==
    ASSUME EInv, NEW n \in Id, NEW r, Sound(r) /\ Climbs(peer[n], r),
           peer' = [peer EXCEPT ![n] = r], late' = late
    PROVE  EInv' /\ \A i \in Id : Climbs(peer[i], peer'[i])
BY DEF EInv, Sound, Climbs

(* An Alive of peer m, of now or of then. *)
LEMMA TakesStep ==
    ASSUME EInv, NEW n \in Id, NEW m \in Id, NEW state \in Payload, Takes(n, m, state)
    PROVE  EInv' /\ \A i \in Id : Climbs(peer[i], peer'[i])
<1>1. PICK s \in HandlePeerState(peer[n], Gateway, m, state) :
         peer' = [peer EXCEPT ![n] = s]
  BY DEF Takes
<1>2. Sound(peer[n]) /\ Gateway \in Nat
  BY DEF EInv, Gateway
<1>3. Sound(s) /\ Climbs(peer[n], s)
  BY <1>1, <1>2, PeerStateSound
<1> QED BY <1>1, <1>3, OnePeer DEF Takes

LEMMA InitEInv == Init => EInv
BY EnabledSound DEF Init, EInv, Sound

LEMMA NextEInv ==
    ASSUME EInv, [Next]_vars
    PROVE  EInv' /\ \A n \in Id : Climbs(peer[n], peer'[n])
<1>1. CASE UNCHANGED vars
  BY <1>1 DEF EInv, Climbs, vars
<1>2. CASE Next
  <2>1. PICK n \in Id : \/ \E m \in Id \ {n} : Hears(n, m)
                        \/ Delays(n) \/ HearsLate(n)
                        \/ Measures(n) \/ SetsTempo(n) \/ SetsPlaying(n)
    BY <1>2 DEF Next
  <2>2. Sound(peer[n]) /\ peer[n] \in States
    BY DEF EInv
  <2>3. CASE \E m \in Id \ {n} : Hears(n, m)
    BY <2>3, BuildStateType, TakesStep DEF Hears
  <2>7. CASE Delays(n)
    BY <2>7, BuildStateType DEF Delays, EInv, Climbs
  <2>8. CASE HearsLate(n)
    BY <2>8, TakesStep DEF HearsLate, EInv
  <2>4. CASE Measures(n)
    <3> DEFINE m == peer[n].measurement.task.target
               r == HandlePong(peer[n], Gateway, m, peer[m].session, SamplesRequired + 1,
                               peer[m].ghost_offset)
    <3>1. peer' = [peer EXCEPT ![n] = r] /\ late' = late
      BY <2>4 DEF Measures
    <3>2. m \in Id
      BY <2>2, <2>4 DEF Measures, States, Measurement, Task
    <3>3. peer[m].session \in Id /\ peer[m].ghost_offset = Ghosts[peer[m].session]
      BY <3>2 DEF EInv, Sound, States
    <3>4. SamplesRequired + 1 \in Int
      BY EngineAssumption
    <3> HIDE DEF m
    <3>5. Sound(r) /\ Climbs(peer[n], r)
      BY <2>2, <3>3, <3>4, PongSound
    <3> HIDE DEF r
    <3> QED BY <3>1, <3>5, OnePeer
  <2>5. CASE SetsTempo(n)
    <3>1. PICK t \in Tempos : /\ peer' = [peer EXCEPT ![n] = SetTempo(peer[n], t, 0)]
                            /\ late' = late
      BY <2>5 DEF SetsTempo
    <3>2. t \in Int
      BY ElectionAssumption
    <3> QED BY <2>2, <3>1, <3>2, SetTempoSound, OnePeer
  <2>6. CASE SetsPlaying(n)
    <3>1. /\ peer' = [peer EXCEPT ![n] = SetIsPlaying(peer[n], ~peer[n].app_playing, 0, 0)]
          /\ late' = late
      BY <2>6 DEF SetsPlaying
    <3>2. (~peer[n].app_playing) \in BOOLEAN
      OBVIOUS
    <3> QED BY <2>2, <3>1, <3>2, SetIsPlayingSound, OnePeer
  <2> QED BY <2>1, <2>3, <2>4, <2>5, <2>6, <2>7, <2>8
<1> QED BY <1>1, <1>2

(* In every reachable state each peer keeps the clock of its session's     *)
(* founder, and of the sessions it has measured it knows the founders'     *)
(* clocks, whoever answered: a pong names the session of its sender        *)
(* (engine.rs:413-479 handle_measurement_datagram, handle_pong).           *)
THEOREM ElectionInvariance == Spec => []EInv
<1>1. EInv /\ [Next]_vars => EInv'
  BY NextEInv
<1> QED BY InitEInv, <1>1, PTL DEF Spec

(* However many peers there are and whatever their clocks, those that are  *)
(* in the same session share its ghost clock at all times.                 *)
THEOREM AlwaysOneClockPerSession == Spec => []OneClockPerSession
<1>1. EInv => OneClockPerSession
  BY DEF EInv, Sound, OneClockPerSession
<1> QED BY <1>1, ElectionInvariance, PTL

-----------------------------------------------------------------------------
(* The election. *)

(* Whatever handler changes a peer's session, the new one wins over the    *)
(* old one under the founders' own clocks: a measurement that comes late,  *)
(* or a clock measured long ago, never takes a peer to a loser             *)
(* (engine.rs:514-519 evaluate_join).                                      *)
THEOREM OnlyWinnersJoined ==
    Spec => [][\A n \in Id : peer'[n].session # peer[n].session
                               => Wins(peer'[n].session, peer[n].session)]_vars
<1>1. EInv /\ [Next]_vars
        => [\A n \in Id : peer'[n].session # peer[n].session
                            => Wins(peer'[n].session, peer[n].session)]_vars
  BY NextEInv DEF Climbs
<1> QED BY <1>1, ElectionInvariance, PTL DEF Spec

(* A peer that is in a session of W, a set with every session that wins    *)
(* over one of its own, is in a session of W for ever.  So it comes back   *)
(* to a session s it has left only if winners over winners lead from s to  *)
(* s in a circle; where they do not, those it can go to are such a W, and  *)
(* the election goes one way for this peer, whatever the others' clocks.   *)
THEOREM NeverReturns ==
    ASSUME NEW n \in Id, NEW s \in Id, NEW W \in SUBSET Id, s \notin W,
           \A t \in Id, u \in W : Wins(t, u) => t \in W
    PROVE  Spec => [](peer[n].session \in W => [](peer[n].session # s))
<1> DEFINE Gone == peer[n].session \in W
<1>1. EInv /\ [Next]_vars /\ Gone => Gone'
  <2> SUFFICES ASSUME EInv, [Next]_vars, Gone
               PROVE  Gone'
    OBVIOUS
  <2>1. Climbs(peer[n], peer'[n]) /\ EInv'
    BY NextEInv
  <2>2. peer[n].session \in Id /\ peer'[n].session \in Id
    BY <2>1 DEF EInv, States
  <2> QED BY <2>1, <2>2 DEF Climbs
<1>2. Gone => peer[n].session # s
  OBVIOUS
<1> HIDE DEF Gone
<1>3. Spec => [](Gone => [](peer[n].session # s))
  BY <1>1, <1>2, ElectionInvariance, PTL DEF Spec
<1> QED BY <1>3 DEF Gone
=============================================================================
