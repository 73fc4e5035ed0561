--------------------------- MODULE SessionProofs ---------------------------
(***************************************************************************)
(* Proofs about Session.  One lemma per handler of Engine says that it     *)
(* keeps a good state good and which step of Membership it amounts to; the *)
(* theorems put them together.  Three parts follow over that invariant:    *)
(* the queue of measurements never stalls and closed gateways are          *)
(* forgotten, what a session may be replaced by, and how a measurement     *)
(* comes to its end.                                                       *)
(***************************************************************************)
EXTENDS Session, TLAPS

(* A task that measures a session to join it is about an unknown session   *)
(* other than the current one; a re-measurement is about a known one that  *)
(* the peer did not found under its NodeId.                                *)
GoodTask(s, t, U) ==
    /\ t.session \in U
    /\ t.purpose = "Join" => s.measured[t.session] = None /\ t.session # s.session
    /\ t.purpose = "Remeasure" => s.measured[t.session] # None /\ t.session # s.node

(* The tasks are good, and no two are about the same session. *)
GoodQueue(s, pending, U) ==
    /\ \A i \in DOMAIN pending : GoodTask(s, pending[i], U)
    /\ \A i, j \in DOMAIN pending : pending[i].session = pending[j].session => i = j

GoodFlight(s, pending, m, U) ==
    m # None => /\ GoodTask(s, m.task, U)
                /\ \A i \in DOMAIN pending : pending[i].session # m.task.session

(* The inductive invariant; U are the identifiers other peers can name.    *)
Good(s, U) ==
    /\ s \in States
    /\ s.node \in U /\ s.session \in U
    /\ \A i \in Id : s.measured[i] # None => i \in U
    /\ s.session # s.node => s.measured[s.session] # None
    /\ s.measured[s.session] # None => s.measured[s.session] = s.ghost_offset
    /\ GoodQueue(s, s.pending, U)
    /\ GoodFlight(s, s.pending, s.measurement, U)
    /\ s.gateways # {} => s.enabled

-----------------------------------------------------------------------------
(* The steps of Membership, between two records. *)

Same(s, r) ==
    /\ r.enabled = s.enabled
    /\ r.node = s.node
    /\ r.session = s.session
    /\ r.ghost_offset = s.ghost_offset
    /\ r.measured = s.measured

Learns(s, r) ==
    /\ \E i \in Id \ {s.session} :
          r.measured[i] \in Int /\ r.measured = [s.measured EXCEPT ![i] = r.measured[i]]
    /\ r.enabled = s.enabled /\ r.node = s.node /\ r.session = s.session
    /\ r.ghost_offset = s.ghost_offset

Joins(s, r) ==
    /\ r.session \in Id \ {s.session}
    /\ r.ghost_offset \in Int
    /\ JoinRule(r.ghost_offset - s.ghost_offset, r.session, s.session)
    /\ s.measured[r.session] \in {None, r.ghost_offset}
    /\ r.measured = [s.measured EXCEPT ![r.session] = r.ghost_offset,
                                       ![s.session] = s.ghost_offset]
    /\ r.enabled = s.enabled /\ r.node = s.node

Refines(s, r) ==
    /\ s.session # s.node
    /\ r.ghost_offset \in Int
    /\ r.measured = [s.measured EXCEPT ![s.session] = r.ghost_offset]
    /\ r.enabled = s.enabled /\ r.node = s.node /\ r.session = s.session

Founds(s, r) ==
    /\ r.node \in Id /\ r.node # s.node /\ r.node # s.session
    /\ s.measured[r.node] = None
    /\ r.session = r.node
    /\ r.ghost_offset \in Int
    /\ r.measured = [s.measured EXCEPT ![s.session] = s.ghost_offset]
    /\ r.enabled = s.enabled

-----------------------------------------------------------------------------
(* Frames. *)

(* A state that differs in its queue and measurement only. *)
LEMMA FrameQueue ==
    ASSUME NEW U, NEW s, NEW r \in States, Good(s, U), Same(s, r),
           GoodQueue(s, r.pending, U),
           GoodFlight(s, r.pending, r.measurement, U),
           r.gateways # {} => r.enabled
    PROVE  Good(r, U)
BY DEF Good, Same, GoodTask, GoodQueue, GoodFlight

(* A state that differs in none of the fields the invariant is about. *)
LEMMA FrameRest ==
    ASSUME NEW U, NEW s, NEW r \in States, Good(s, U), Same(s, r),
           r.pending = s.pending, r.measurement = s.measurement,
           r.gateways = s.gateways
    PROVE  Good(r, U)
BY DEF Good, Same, GoodTask, GoodQueue, GoodFlight

LEMMA Widen ==
    ASSUME NEW U, NEW V, U \subseteq V, NEW s, Good(s, U)
    PROVE  Good(s, V)
BY DEF Good, GoodTask, GoodQueue, GoodFlight

LEMMA NoneNoId == None \notin Id
<1>1. \A i \in Id : i \in Int
  BY EngineAssumption
<1> QED BY <1>1, NoneAssumption

LEMMA NewPeerType ==
    ASSUME NEW n \in Id, NEW t \in Int
    PROVE  NewPeer(n, t) \in States
BY EngineAssumption DEF NewPeer, States, ClampTempo, Timeline, StartStop, DefaultStartStop,
   EmptyMap, Measurement, Task, Entry

-----------------------------------------------------------------------------
(* The measurement queue. *)

LEMMA StartNextGood ==
    ASSUME NEW U, NEW s, Good(s, U)
    PROVE  Good(StartNextMeasurement(s), U) /\ Same(s, StartNextMeasurement(s))
<1> DEFINE task == Head(s.pending)
           popped == [s EXCEPT !.pending = Tail(@)]
           flight == [task |-> task, samples |-> 0, timeouts |-> 0]
           started == [popped EXCEPT !.measurement = flight]
<1>1. CASE s.measurement # None \/ s.pending = <<>>
  BY <1>1 DEF StartNextMeasurement, Same
<1>2. CASE ~(s.measurement # None \/ s.pending = <<>>)
  <2>1. /\ s \in States
        /\ s.pending \in Seq(Task) /\ s.pending # <<>>
    BY <1>2 DEF Good, States
  <2>2. /\ task \in Task
        /\ Tail(s.pending) \in Seq(Task)
        /\ 1 \in DOMAIN s.pending /\ task = s.pending[1]
        /\ \A i \in DOMAIN Tail(s.pending) :
              /\ i \in Nat \ {0} /\ i + 1 \in DOMAIN s.pending
              /\ Tail(s.pending)[i] = s.pending[i + 1]
    BY <2>1
  <2>3. /\ GoodQueue(s, Tail(s.pending), U)
        /\ GoodFlight(s, Tail(s.pending), flight, U)
    BY <2>2 DEF Good, GoodQueue, GoodFlight
  <2>4. popped \in States /\ Same(s, popped)
    BY <2>1, <2>2 DEF Same, States
  <2>5. /\ popped.pending = Tail(s.pending)
        /\ popped.measurement = None
        /\ popped.gateways = s.gateways /\ popped.enabled = s.enabled
    BY <1>2, <2>1 DEF States
  <2>6. Good(popped, U)
    <3> HIDE DEF popped, flight
    <3> QED BY <2>3, <2>4, <2>5, FrameQueue DEF Good, GoodFlight
  <2>7. flight \in Measurement
    BY <2>2, EngineAssumption DEF Measurement
  <2>8. started \in States /\ Same(s, started)
    BY <2>4, <2>7 DEF Same, States
  <2>9. /\ started.pending = Tail(s.pending)
        /\ started.measurement = flight
        /\ started.gateways = s.gateways /\ started.enabled = s.enabled
    BY <2>4, <2>5 DEF States
  <2>10. Good(started, U)
    <3> HIDE DEF popped, started, flight
    <3> QED BY <2>3, <2>8, <2>9, FrameQueue DEF Good
  <2> QED BY <1>2, <2>4, <2>6, <2>8, <2>10 DEF StartNextMeasurement
<1> QED BY <1>1, <1>2

Where == [target : Endpoints, gateway : Nat]

LEMMA EnqueueGood ==
    ASSUME NEW U, NEW s, Good(s, U), NEW sess \in Id, NEW w \in Where,
           NEW purpose \in {"Join", "Remeasure"}, ~HasTask(s, sess), sess \in U,
           purpose = "Join" => s.measured[sess] = None /\ sess # s.session,
           purpose = "Remeasure" => s.measured[sess] # None /\ sess # s.node
    PROVE  /\ Good(Enqueue(s, sess, w, purpose), U)
           /\ Same(s, Enqueue(s, sess, w, purpose))
<1> DEFINE task == [session |-> sess, target |-> w.target, gateway |-> w.gateway,
                    purpose |-> purpose]
           queue == Append(s.pending, task)
           r == [s EXCEPT !.pending = queue]
<1>1. s \in States /\ s.pending \in Seq(Task)
  BY DEF Good, States
<1>2. task \in Task /\ GoodTask(s, task, U)
  BY DEF Task, Where, GoodTask
<1>3. /\ queue \in Seq(Task)
      /\ \A i \in DOMAIN queue :
            \/ i \in DOMAIN s.pending /\ queue[i] = s.pending[i]
            \/ i = Len(s.pending) + 1 /\ queue[i] = task
  BY <1>1, <1>2
<1>4. GoodQueue(s, queue, U) /\ GoodFlight(s, queue, s.measurement, U)
  <2> HIDE DEF queue
  <2>1. \A i \in DOMAIN s.pending : s.pending[i].session # sess
    BY DEF HasTask
  <2>2. s.measurement # None => s.measurement.task.session # sess
    BY DEF HasTask
  <2>3. task.session = sess
    OBVIOUS
  <2> HIDE DEF task
  <2> QED BY <1>2, <1>3, <2>1, <2>2, <2>3 DEF Good, GoodQueue, GoodFlight
<1>5. r \in States /\ Same(s, r)
  BY <1>1, <1>3 DEF Same, States
<1>6. /\ r.pending = queue /\ r.measurement = s.measurement
      /\ r.gateways = s.gateways /\ r.enabled = s.enabled
  BY <1>1 DEF States
<1>7. Good(r, U)
  <2> HIDE DEF r, queue
  <2> QED BY <1>4, <1>5, <1>6, FrameQueue DEF Good
<1>8. r = Enqueue(s, sess, w, purpose)
  BY DEF Enqueue
<1> QED BY <1>5, <1>7, <1>8

LEMMA ReachType ==
    ASSUME NEW s \in States, NEW E \in SUBSET s.peers
    PROVE  Reach(E) \subseteq Where
BY DEF Reach, Where, States, Entry

LEMMA QueueMeasurementGood ==
    ASSUME NEW U, NEW s, Good(s, U), NEW gw \in Nat, NEW sess \in Id,
           NEW mep \in Endpoints \cup {None}, sess \in U,
           s.measured[sess] = None, sess # s.session,
           NEW r \in QueueMeasurement(s, gw, sess, mep)
    PROVE  Good(r, U) /\ Same(s, r)
<1>1. CASE r = s
  BY <1>1 DEF Same
<1>2. CASE r # s
  <2>1. /\ ~HasTask(s, sess)
        /\ \E w \in GossipTargets(s, gw, sess, mep) :
              r = StartNextMeasurement(Enqueue(s, sess, w, "Join"))
    BY <1>2 DEF QueueMeasurement
  <2>2. GossipTargets(s, gw, sess, mep) \subseteq Where
    BY ReachType DEF GossipTargets, Founders, Good, Where
  <2>3. PICK w \in Where : r = StartNextMeasurement(Enqueue(s, sess, w, "Join"))
    BY <2>1, <2>2
  <2>4. Good(Enqueue(s, sess, w, "Join"), U) /\ Same(s, Enqueue(s, sess, w, "Join"))
    BY <2>1, EnqueueGood
  <2> QED BY <2>3, <2>4, StartNextGood DEF Same
<1> QED BY <1>1, <1>2

LEMMA QueueRemeasureGood ==
    ASSUME NEW U, NEW s, Good(s, U), NEW r \in QueueRemeasure(s)
    PROVE  Good(r, U) /\ Same(s, r)
<1>1. CASE r = s
  BY <1>1 DEF Same
<1>2. CASE r # s
  <2>1. /\ ~HasTask(s, s.session) /\ s.session # s.node
        /\ \E w \in RemeasureTargets(s) : r = Enqueue(s, s.session, w, "Remeasure")
    BY <1>2 DEF QueueRemeasure
  <2>2. RemeasureTargets(s) \subseteq Where
    BY ReachType DEF RemeasureTargets, Founders, Members, Good
  <2>3. PICK w \in Where : r = Enqueue(s, s.session, w, "Remeasure")
    BY <2>1, <2>2
  <2>4. s.session \in Id /\ s.session \in U /\ s.measured[s.session] # None
    BY <2>1 DEF Good, States
  <2> QED BY <2>1, <2>3, <2>4, EnqueueGood
<1> QED BY <1>1, <1>2

-----------------------------------------------------------------------------
(* The end of a measurement. *)

Idle(s) == [s EXCEPT !.measurement = None]

LEMMA IdleGood ==
    ASSUME NEW U, NEW s, Good(s, U)
    PROVE  /\ Good(Idle(s), U) /\ Same(s, Idle(s))
           /\ Idle(s).pending = s.pending /\ Idle(s).measurement = None
<1>1. /\ Idle(s) \in States /\ Same(s, Idle(s))
      /\ Idle(s).pending = s.pending /\ Idle(s).measurement = None
      /\ Idle(s).gateways = s.gateways /\ Idle(s).enabled = s.enabled
  BY DEF Idle, Good, Same, States
<1>2. GoodQueue(s, Idle(s).pending, U) /\ GoodFlight(s, s.pending, None, U)
  BY <1>1 DEF Good, GoodFlight
<1> QED BY <1>1, <1>2, FrameQueue DEF Good

LEMMA FailedGood ==
    ASSUME NEW U, NEW s, Good(s, U), NEW task
    PROVE  /\ Good(MeasurementFailed(s, task), U)
           /\ Same(s, MeasurementFailed(s, task))
<1> DEFINE armed == s.remeasure_armed \/ task.purpose = "Remeasure"
           r == [s EXCEPT !.remeasure_armed = armed]
<1>1. armed \in BOOLEAN
  OBVIOUS
<1>2. /\ r \in States /\ Same(s, r)
      /\ r.pending = s.pending /\ r.measurement = s.measurement
      /\ r.gateways = s.gateways
  <2> HIDE DEF armed
  <2> QED BY <1>1 DEF Good, Same, States
<1>3. Good(r, U)
  <2> HIDE DEF r
  <2> QED BY <1>2, FrameRest
<1>4. MeasurementFailed(s, task) = StartNextMeasurement(r)
  BY DEF MeasurementFailed
<1> HIDE DEF r
<1> QED BY <1>2, <1>3, <1>4, StartNextGood DEF Same

LEMMA RetryGood ==
    ASSUME NEW U, NEW s, Good(s, U), s.measurement # None
    PROVE  Good(RetryExpired(s), U) /\ Same(s, RetryExpired(s))
<1>1. s \in States /\ s.measurement \in Measurement
  BY DEF Good, States
<1>2. CASE s.measurement.timeouts >= MaxRetries
  <2>1. RetryExpired(s) = MeasurementFailed(Idle(s), s.measurement.task)
    BY <1>2 DEF RetryExpired, Idle
  <2> QED BY <2>1, IdleGood, FailedGood DEF Same
<1>3. CASE ~(s.measurement.timeouts >= MaxRetries)
  <2> DEFINE m == [s.measurement EXCEPT !.timeouts = @ + 1]
             r == [s EXCEPT !.measurement = m]
  <2>1. m \in Measurement /\ m.task = s.measurement.task
    BY <1>1, <1>3, EngineAssumption DEF Measurement
  <2>2. /\ r \in States /\ Same(s, r)
        /\ r.pending = s.pending /\ r.measurement = m
        /\ r.gateways = s.gateways /\ r.enabled = s.enabled
    <3> HIDE DEF m
    <3> QED BY <1>1, <2>1 DEF Same, States
  <2>3. Good(r, U)
    <3> HIDE DEF r, m
    <3> QED BY <2>1, <2>2, FrameQueue DEF Good, GoodFlight
  <2>4. RetryExpired(s) = r
    BY <1>1, <1>3 DEF RetryExpired, States
  <2> QED BY <2>2, <2>3, <2>4
<1> QED BY <1>2, <1>3

-----------------------------------------------------------------------------
(* Joining. *)

LEMMA JoinedTimelineType ==
    ASSUME NEW s \in States, NEW sess \in Id
    PROVE  JoinedTimeline(s, sess) \in Timeline
<1>1. s.timeline \in Timeline /\ s.foreign_timelines[sess] \in Timeline \cup {None}
  BY DEF States
<1> QED BY <1>1, EngineAssumption DEF JoinedTimeline, Clamped, ClampTempo, Timeline

LEMMA EvaluateJoinGood ==
    ASSUME NEW U, NEW s, Good(s, U), NEW sess \in Id, sess \in U, NEW offset \in Int,
           s.measured[sess] = offset
    PROVE  /\ Good(EvaluateJoin(s, sess, offset), U)
           /\ \/ EvaluateJoin(s, sess, offset) = s
              \/ /\ Joins(s, EvaluateJoin(s, sess, offset))
                 /\ EvaluateJoin(s, sess, offset).session = sess
                 /\ EvaluateJoin(s, sess, offset).ghost_offset = offset
<1> DEFINE r == AdoptSession(s, sess, offset)
<1>1. CASE EvaluateJoin(s, sess, offset) = s
  BY <1>1
<1>2. CASE EvaluateJoin(s, sess, offset) # s
  <2>1. /\ sess # s.session
        /\ JoinRule(offset - s.ghost_offset, sess, s.session)
        /\ EvaluateJoin(s, sess, offset) = r
    BY <1>2 DEF EvaluateJoin
  <2>2. s \in States /\ s.ghost_offset \in Int /\ offset # None
    BY NoneAssumption DEF Good, States
  <2>3. JoinedTimeline(s, sess) \in Timeline
    BY <2>2, JoinedTimelineType
  <2>4. DefaultStartStop \in StartStop
    BY DEF DefaultStartStop, StartStop
  <2>5. r \in States
    BY <2>2, <2>3, <2>4 DEF AdoptSession, States
  <2>6. /\ r.session = sess /\ r.ghost_offset = offset /\ r.node = s.node
        /\ r.enabled = s.enabled /\ r.gateways = s.gateways
        /\ r.pending = s.pending /\ r.measurement = s.measurement
        /\ r.measured = [s.measured EXCEPT ![s.session] = s.ghost_offset]
    BY <2>2 DEF AdoptSession, States
  <2> HIDE DEF r
  <2>7. /\ s.session \in Id /\ s.measured \in [Id -> Int \cup {None}]
        /\ r.measured[s.session] = s.ghost_offset
        /\ \A i \in Id \ {s.session} : r.measured[i] = s.measured[i]
    BY <2>2, <2>6 DEF States
  <2>8. ASSUME NEW t, t.session \in Id, GoodTask(s, t, U)
        PROVE  GoodTask(r, t, U)
    BY <2>1, <2>2, <2>6, <2>7, <2>8, NoneAssumption DEF GoodTask
  <2>9. \A i \in DOMAIN s.pending : s.pending[i].session \in Id
    <3>1. s.pending \in Seq(Task)
      BY <2>2 DEF States
    <3>2. \A i \in DOMAIN s.pending : s.pending[i] \in Task
      BY <3>1
    <3> QED BY <3>2 DEF Task
  <2>10. s.measurement # None => s.measurement.task.session \in Id
    BY <2>2 DEF States, Measurement, Task
  <2>11. GoodQueue(r, r.pending, U) /\ GoodFlight(r, r.pending, r.measurement, U)
    BY <2>6, <2>8, <2>9, <2>10 DEF Good, GoodQueue, GoodFlight
  <2>12. Good(r, U)
    BY <2>1, <2>2, <2>5, <2>6, <2>7, <2>11 DEF Good
  <2>13. Joins(s, r)
    <3>1. r.measured = [s.measured EXCEPT ![sess] = offset, ![s.session] = s.ghost_offset]
      BY <2>6, <2>7
    <3> QED BY <2>1, <2>6, <3>1 DEF Joins
  <2> QED BY <2>1, <2>6, <2>12, <2>13
<1> QED BY <1>1, <1>2

LEMMA SucceededGood ==
    ASSUME NEW U, NEW s, Good(s, U), NEW task \in Task, GoodTask(s, task, U),
           \A i \in DOMAIN s.pending : s.pending[i].session # task.session,
           s.measurement = None, NEW offset \in Int
    PROVE  /\ Good(MeasurementSucceeded(s, task, offset), U)
           /\ \/ Learns(s, MeasurementSucceeded(s, task, offset))
              \/ Joins(s, MeasurementSucceeded(s, task, offset))
              \/ Refines(s, MeasurementSucceeded(s, task, offset))
<1> DEFINE k == [s EXCEPT !.measured[task.session] = offset]
           r == MeasurementSucceeded(s, task, offset)
<1>1. /\ s \in States /\ task.session \in Id
      /\ s.measured \in [Id -> Int \cup {None}]
      /\ s.session \in Id /\ s.node \in Id /\ s.ghost_offset \in Int
      /\ task.purpose \in {"Join", "Remeasure"}
      /\ offset # None
  BY NoneAssumption DEF Good, States, Task
<1>2. /\ k \in States
      /\ k.measured = [s.measured EXCEPT ![task.session] = offset]
      /\ k.enabled = s.enabled /\ k.node = s.node /\ k.session = s.session
      /\ k.ghost_offset = s.ghost_offset /\ k.gateways = s.gateways
      /\ k.pending = s.pending /\ k.measurement = None
  BY <1>1 DEF States
<1>3. k.measured[task.session] = offset
      /\ \A i \in Id \ {task.session} : k.measured[i] = s.measured[i]
  BY <1>1, <1>2
<1>4. \A i \in DOMAIN s.pending : s.pending[i].session \in Id
  <2>1. s.pending \in Seq(Task)
    BY <1>1 DEF States
  <2>2. \A i \in DOMAIN s.pending : s.pending[i] \in Task
    BY <2>1
  <2> QED BY <2>2 DEF Task
<1> HIDE DEF k
<1>5. \A x : /\ x.measured = k.measured /\ x.session = s.session /\ x.node = s.node
             /\ x.pending = s.pending /\ x.measurement = None
             => /\ GoodQueue(x, x.pending, U)
                /\ GoodFlight(x, x.pending, x.measurement, U)
  BY <1>3, <1>4 DEF Good, GoodQueue, GoodFlight, GoodTask
<1>6. CASE task.purpose = "Join"
  <2> DEFINE e == EvaluateJoin(k, task.session, offset)
  <2>1. task.session # s.session /\ s.measured[task.session] = None /\ task.session \in U
    BY <1>6 DEF GoodTask
  <2>2. Good(k, U)
    BY <1>1, <1>2, <1>3, <1>5, <2>1 DEF Good
  <2>3. /\ Good(e, U)
        /\ \/ e = k
           \/ Joins(k, e) /\ e.session = task.session /\ e.ghost_offset = offset
    BY <1>1, <1>3, <2>1, <2>2, EvaluateJoinGood
  <2>4. Learns(s, k)
    BY <1>1, <1>2, <1>3, <2>1 DEF Learns
  <2>5. Joins(k, e) /\ e.session = task.session /\ e.ghost_offset = offset => Joins(s, e)
    <3> HIDE DEF e
    <3> SUFFICES ASSUME Joins(k, e), e.session = task.session, e.ghost_offset = offset
                 PROVE  Joins(s, e)
      OBVIOUS
    <3>1. e.measured = [s.measured EXCEPT ![e.session] = e.ghost_offset,
                                          ![s.session] = s.ghost_offset]
      BY <1>1, <1>2 DEF Joins
    <3> QED BY <1>2, <2>1, <3>1 DEF Joins
  <2>6. r = StartNextMeasurement(e)
    BY <1>6 DEF MeasurementSucceeded, k
  <2> HIDE DEF e, r
  <2>7. Good(r, U) /\ Same(e, r)
    BY <2>3, <2>6, StartNextGood
  <2>8. Learns(s, e) \/ Joins(s, e)
    BY <2>3, <2>4, <2>5
  <2>9. Learns(s, r) \/ Joins(s, r)
    BY <2>7, <2>8 DEF Same, Learns, Joins
  <2> QED BY <2>7, <2>9 DEF r
<1>7. CASE task.purpose = "Remeasure"
  <2> DEFINE o == IF s.session = task.session THEN offset ELSE s.ghost_offset
             e == [k EXCEPT !.ghost_offset = o, !.remeasure_armed = TRUE]
  <2>1. s.measured[task.session] # None /\ task.session # s.node /\ task.session \in U
    BY <1>7 DEF GoodTask
  <2>2. /\ e \in States /\ o \in Int
        /\ e.measured = k.measured
        /\ e.enabled = s.enabled /\ e.node = s.node /\ e.session = s.session
        /\ e.ghost_offset = o /\ e.gateways = s.gateways
        /\ e.pending = s.pending /\ e.measurement = None
    BY <1>1, <1>2 DEF States
  <2>3. r = StartNextMeasurement(e)
    BY <1>2, <1>7 DEF MeasurementSucceeded, k
  <2> HIDE DEF e, r
  <2>4. Good(e, U)
    BY <1>1, <1>3, <1>5, <2>1, <2>2 DEF Good
  <2>5. Learns(s, e) \/ Refines(s, e)
    <3>1. CASE s.session = task.session
      BY <1>1, <1>2, <2>1, <2>2, <3>1 DEF Refines
    <3>2. CASE s.session # task.session
      BY <1>1, <1>2, <1>3, <2>1, <2>2, <3>2 DEF Learns
    <3> QED BY <3>1, <3>2
  <2>6. Good(r, U) /\ Same(e, r)
    BY <2>3, <2>4, StartNextGood
  <2>7. Learns(s, r) \/ Refines(s, r)
    BY <2>5, <2>6 DEF Same, Learns, Refines
  <2> QED BY <2>6, <2>7 DEF r
<1> QED BY <1>1, <1>6, <1>7

LEMMA PongGood ==
    ASSUME NEW U, NEW s, Good(s, U), NEW gw, NEW src, NEW sess,
           NEW samples \in 0 .. 2, NEW offset \in Int
    PROVE  LET r == HandlePong(s, gw, src, sess, samples, offset)
           IN  /\ Good(r, U)
               /\ \/ Same(s, r)
                  \/ s.enabled /\ (Learns(s, r) \/ Joins(s, r) \/ Refines(s, r))
<1> DEFINE r == HandlePong(s, gw, src, sess, samples, offset)
           m == s.measurement
           total == m.samples + samples
<1>1. CASE r = s
  BY <1>1 DEF Same
<1>2. CASE r # s
  <2>1. s.enabled /\ m # None
    BY <1>2 DEF HandlePong
  <2>2. /\ s \in States /\ m \in Measurement /\ m.task \in Task /\ m.samples \in Nat
        /\ GoodTask(s, m.task, U)
        /\ \A i \in DOMAIN s.pending : s.pending[i].session # m.task.session
    BY <2>1 DEF Good, GoodFlight, States, Measurement
  <2>3. /\ Good(Idle(s), U) /\ Same(s, Idle(s))
        /\ Idle(s).pending = s.pending /\ Idle(s).measurement = None
    BY IdleGood
  <2>4. CASE r = MeasurementFailed(Idle(s), m.task)
    <3> HIDE DEF r
    <3> QED BY <2>3, <2>4, FailedGood DEF Same, r
  <2>5. CASE r = MeasurementSucceeded(Idle(s), m.task, offset)
    <3> DEFINE d == Idle(s)
    <3> HIDE DEF r, m, d
    <3>1. GoodTask(d, m.task, U)
      BY <2>2, <2>3 DEF GoodTask, Same, d
    <3>2. Good(r, U) /\ (Learns(d, r) \/ Joins(d, r) \/ Refines(d, r))
      BY <2>2, <2>3, <2>5, <3>1, SucceededGood DEF d
    <3>3. Learns(s, r) \/ Joins(s, r) \/ Refines(s, r)
      BY <2>3, <3>2 DEF Same, Learns, Joins, Refines, d
    <3> QED BY <2>1, <3>2, <3>3 DEF r
  <2>6. CASE r = [s EXCEPT !.measurement.samples = total] /\ ~(total > SamplesRequired)
    <3> DEFINE n == [m EXCEPT !.samples = total]
    <3>1. n \in Measurement /\ n.task = m.task
      BY <2>2, <2>6, EngineAssumption DEF Measurement
    <3>2. r = [s EXCEPT !.measurement = n]
      BY <2>2, <2>6 DEF States
    <3> HIDE DEF n, r, m, total
    <3>3. /\ r \in States /\ Same(s, r)
          /\ r.pending = s.pending /\ r.measurement = n
          /\ r.gateways = s.gateways /\ r.enabled = s.enabled
      BY <2>2, <3>1, <3>2 DEF Same, States
    <3>4. GoodQueue(s, s.pending, U) /\ GoodFlight(s, s.pending, n, U)
      BY <2>2, <3>1 DEF Good, GoodFlight
    <3>5. r.gateways # {} => r.enabled
      BY <2>1, <3>3
    <3>6. Good(r, U)
      BY <3>3, <3>4, <3>5, FrameQueue
    <3> QED BY <3>3, <3>6 DEF r
  <2>7. \/ r = MeasurementFailed(Idle(s), m.task)
        \/ r = MeasurementSucceeded(Idle(s), m.task, offset)
        \/ r = [s EXCEPT !.measurement.samples = total] /\ ~(total > SamplesRequired)
    BY <1>2 DEF HandlePong, Idle
  <2> QED BY <2>4, <2>5, <2>6, <2>7
<1> QED BY <1>1, <1>2

-----------------------------------------------------------------------------
(* Founding.  A draw is acceptable when it names an identifier nobody can  *)
(* name yet.                                                               *)

LEMMA ResetGood ==
    ASSUME NEW U, NEW s, Good(s, U), NEW fresh, fresh.node \in Id \ U,
           fresh.now \in Int, fresh.beats \in Int
    PROVE  /\ Good(ResetSession(s, fresh), U \cup {fresh.node})
           /\ Founds(s, ResetSession(s, fresh))
<1> DEFINE r == ResetSession(s, fresh)
           V == U \cup {fresh.node}
<1>1. /\ s \in States /\ s.session \in Id /\ s.node \in Id /\ s.ghost_offset \in Int
      /\ s.measured \in [Id -> Int \cup {None}]
      /\ s.timeline \in Timeline /\ s.held_stst \in StartStop
  BY DEF Good, States
<1>2. /\ [tempo |-> s.timeline.tempo, beat_origin |-> fresh.beats] \in Timeline
      /\ [is_playing |-> s.held_stst.is_playing, beats |-> fresh.beats, timestamp |-> 0]
            \in StartStop
      /\ -fresh.now \in Int
  BY <1>1 DEF Timeline, StartStop
<1>3. r \in States
  BY <1>1, <1>2 DEF ResetSession, States
<1>4. /\ r.node = fresh.node /\ r.session = fresh.node
      /\ r.ghost_offset = -fresh.now
      /\ r.measured = [s.measured EXCEPT ![s.session] = s.ghost_offset]
      /\ r.enabled = s.enabled /\ r.gateways = s.gateways
      /\ r.pending = s.pending /\ r.measurement = s.measurement
  BY <1>1 DEF ResetSession, States
<1> HIDE DEF r
<1>5. /\ fresh.node # s.node /\ fresh.node # s.session
      /\ s.measured[fresh.node] = None
  BY DEF Good
<1>6. /\ r.measured[s.session] = s.ghost_offset /\ s.ghost_offset # None
      /\ r.measured[fresh.node] = None
      /\ \A i \in Id \ {s.session} : r.measured[i] = s.measured[i]
  BY <1>1, <1>4, <1>5, NoneAssumption
<1>7. ASSUME NEW t, t.session \in Id, GoodTask(s, t, U)
      PROVE  GoodTask(r, t, V)
  BY <1>4, <1>6, <1>7 DEF GoodTask
<1>8. /\ \A i \in DOMAIN s.pending : s.pending[i].session \in Id
      /\ s.measurement # None => s.measurement.task.session \in Id
  <2>1. s.pending \in Seq(Task) /\ s.measurement \in Measurement \cup {None}
    BY <1>1 DEF States
  <2>2. \A i \in DOMAIN s.pending : s.pending[i] \in Task
    BY <2>1
  <2> QED BY <2>1, <2>2 DEF Task, Measurement
<1>9. GoodQueue(r, r.pending, V) /\ GoodFlight(r, r.pending, r.measurement, V)
  <2> HIDE DEF V
  <2> QED BY <1>4, <1>7, <1>8 DEF Good, GoodQueue, GoodFlight
<1>10. Good(r, V)
  BY <1>1, <1>3, <1>4, <1>5, <1>6, <1>9 DEF Good
<1>11. Founds(s, r)
  BY <1>2, <1>4, <1>5 DEF Founds
<1> QED BY <1>10, <1>11 DEF r

(* r is reached from s without leaving the session, or by founding one.    *)
Lands(s, r, fresh, U) ==
    \/ Good(r, U) /\ Same(s, r)
    \/ /\ fresh.node \in Id \ U
       /\ Good(r, U \cup {fresh.node}) /\ Founds(s, r) /\ r.node = fresh.node

Drawable(fresh, U) ==
    fresh.node \in (Id \ U) \cup {None} /\ fresh.now \in Int /\ fresh.beats \in Int

LEMMA LossLands ==
    ASSUME NEW U, NEW s, Good(s, U), NEW fresh, Drawable(fresh, U),
           CheckSessionLoss(s, fresh).node # None
    PROVE  Lands(s, CheckSessionLoss(s, fresh), fresh, U)
<1>1. CASE CheckSessionLoss(s, fresh) = s
  BY <1>1 DEF Lands, Same
<1>2. CASE CheckSessionLoss(s, fresh) = ResetSession(s, fresh)
  <2>1. ResetSession(s, fresh).node = fresh.node
    BY DEF ResetSession, Good, States
  <2>2. fresh.node \in Id \ U /\ fresh.now \in Int /\ fresh.beats \in Int
    BY <1>2, <2>1 DEF Drawable
  <2> QED BY <1>2, <2>1, <2>2, ResetGood DEF Lands
<1> QED BY <1>1, <1>2 DEF CheckSessionLoss

(* Removing peers, then founding a session if none of its members is left. *)
LEMMA RemovalLands ==
    ASSUME NEW U, NEW s, Good(s, U), NEW fresh, Drawable(fresh, U),
           NEW P \in SUBSET s.peers,
           CheckSessionLoss([s EXCEPT !.peers = P], fresh).node # None
    PROVE  Lands(s, CheckSessionLoss([s EXCEPT !.peers = P], fresh), fresh, U)
<1> DEFINE q == [s EXCEPT !.peers = P]
           r == CheckSessionLoss(q, fresh)
<1>1. /\ q \in States /\ Same(s, q)
      /\ q.pending = s.pending /\ q.measurement = s.measurement
      /\ q.gateways = s.gateways
  BY DEF Good, States, Same
<1>2. r.node # None
  OBVIOUS
<1> HIDE DEF q
<1>3. Good(q, U)
  BY <1>1, FrameRest
<1>4. Lands(q, r, fresh, U)
  BY <1>2, <1>3, LossLands
<1> HIDE DEF r
<1>5. Lands(s, r, fresh, U)
  BY <1>1, <1>4 DEF Lands, Same, Founds
<1> QED BY <1>5 DEF r, q

LEMMA ByeByeLands ==
    ASSUME NEW U, NEW s, Good(s, U), NEW fresh, Drawable(fresh, U), NEW gw, NEW node,
           HandleByeBye(s, gw, node, fresh).node # None
    PROVE  /\ Lands(s, HandleByeBye(s, gw, node, fresh), fresh, U)
           /\ HandleByeBye(s, gw, node, fresh) # s => s.enabled
<1>1. CASE HandleByeBye(s, gw, node, fresh) = s
  BY <1>1 DEF Lands, Same
<1>2. CASE HandleByeBye(s, gw, node, fresh) # s
  <2> DEFINE P == {e \in s.peers : e.node # node \/ e.gateway # gw}
  <2>1. /\ s.enabled
        /\ HandleByeBye(s, gw, node, fresh) = CheckSessionLoss([s EXCEPT !.peers = P], fresh)
    BY <1>2 DEF HandleByeBye
  <2> HIDE DEF P
  <2>2. P \in SUBSET s.peers
    BY DEF P
  <2> QED BY <2>1, <2>2, RemovalLands
<1> QED BY <1>1, <1>2

LEMMA PruneLands ==
    ASSUME NEW U, NEW s, Good(s, U), NEW fresh, Drawable(fresh, U), NEW expired,
           PruneExpired(s, expired, fresh).node # None
    PROVE  Lands(s, PruneExpired(s, expired, fresh), fresh, U)
<1>1. CASE PruneExpired(s, expired, fresh) = s
  BY <1>1 DEF Lands, Same
<1>2. CASE PruneExpired(s, expired, fresh) # s
  <2> DEFINE P == s.peers \ expired
  <2>1. PruneExpired(s, expired, fresh) = CheckSessionLoss([s EXCEPT !.peers = P], fresh)
    BY <1>2 DEF PruneExpired
  <2> HIDE DEF P
  <2>2. P \in SUBSET s.peers
    BY DEF P
  <2> QED BY <2>1, <2>2, RemovalLands
<1> QED BY <1>1, <1>2

LEMMA HousekeepingLands ==
    ASSUME NEW U, NEW s, Good(s, U), NEW fresh, Drawable(fresh, U), NEW expired,
           NEW retry \in BOOLEAN, NEW remeasure \in BOOLEAN,
           retry => s.measurement # None,
           PruneExpired(s, expired, fresh).node # None,
           NEW r \in HousekeepingPass(s, expired, retry, remeasure, fresh)
    PROVE  Lands(s, r, fresh, U)
<1> DEFINE p == PruneExpired(s, expired, fresh)
           t == IF retry THEN RetryExpired(p) ELSE p
<1>1. Lands(s, p, fresh, U)
  BY PruneLands
<1>2. p.measurement = s.measurement
  BY DEF PruneExpired, CheckSessionLoss, ResetSession, Good, States
<1>3. PICK q : /\ q \in QueueRemeasure(t) \cup {t}
               /\ r = StartNextMeasurement(q)
  BY DEF HousekeepingPass
<1> HIDE DEF p
<1>4. ASSUME NEW V, Good(p, V)
      PROVE  Good(r, V) /\ Same(p, r)
  <2>1. Good(t, V) /\ Same(p, t)
    BY <1>2, <1>4, RetryGood DEF Same
  <2> HIDE DEF t
  <2>2. Good(q, V) /\ Same(t, q)
    BY <1>3, <2>1, QueueRemeasureGood DEF Same
  <2> QED BY <1>3, <2>1, <2>2, StartNextGood DEF Same
<1> QED BY <1>1, <1>4 DEF Lands, Same, Founds

-----------------------------------------------------------------------------
(* Gateways. *)

(* What is retained of a queue is made of its entries, each at most once.  *)
LEMMA RetainedProp ==
    ASSUME NEW queue \in Seq(Task), NEW id, NEW q \in Retained(queue, id)
    PROVE  /\ q \in Seq(Task)
           /\ \E f \in [DOMAIN q -> DOMAIN queue] :
                /\ \A i \in DOMAIN q : q[i] = queue[f[i]] /\ queue[f[i]].gateway # id
                /\ \A i, j \in DOMAIN q : f[i] = f[j] => i = j
<1> DEFINE K == {i \in DOMAIN queue : queue[i].gateway # id}
<1>0. PICK n \in 0 .. Len(queue) :
         q \in {[i \in 1 .. n |-> queue[f[i]]] : f \in Enumerations(K, n)}
  BY DEF Retained
<1>1. PICK f \in Enumerations(K, n) : q = [i \in 1 .. n |-> queue[f[i]]]
  BY <1>0
<1>2. /\ n \in Nat /\ f \in [1 .. n -> K]
      /\ \A i, j \in 1 .. n : i < j => f[i] < f[j]
  BY <1>1 DEF Enumerations
<1>3. \A i \in 1 .. n : f[i] \in DOMAIN queue /\ queue[f[i]] \in Task
                         /\ queue[f[i]].gateway # id
  BY <1>2
<1>4. q \in [1 .. n -> Task] /\ DOMAIN q = 1 .. n
  BY <1>1, <1>3
<1>5. q \in Seq(Task)
  BY <1>2, <1>4
<1>6. \A i, j \in 1 .. n : f[i] = f[j] => i = j
  <2> SUFFICES ASSUME NEW i \in 1 .. n, NEW j \in 1 .. n, i # j
               PROVE  f[i] # f[j]
    OBVIOUS
  <2>1. f[i] \in Int /\ f[j] \in Int
    BY <1>3
  <2>2. i < j \/ j < i
    BY <1>2
  <2> QED BY <1>2, <2>1, <2>2
<1>7. f \in [DOMAIN q -> DOMAIN queue]
  BY <1>2, <1>4
<1>8. \A i \in DOMAIN q : q[i] = queue[f[i]]
  BY <1>1, <1>4
<1> QED BY <1>3, <1>4, <1>5, <1>6, <1>7, <1>8

LEMMA CloseLands ==
    ASSUME NEW U, NEW s, Good(s, U), NEW fresh, Drawable(fresh, U), NEW id,
           NEW r \in CloseGateway(s, id, fresh), r.node # None
    PROVE  Lands(s, r, fresh, U)
<1> DEFINE P == {e \in s.peers : e.gateway # id}
           G == s.gateways \ {id}
<1>1. PICK q \in Retained(s.pending, id) :
        r = CheckSessionLoss([s EXCEPT !.gateways = G, !.peers = P, !.pending = q], fresh)
  BY DEF CloseGateway
<1> DEFINE c == [s EXCEPT !.gateways = G, !.peers = P, !.pending = q]
<1>2. s \in States /\ s.pending \in Seq(Task)
  BY DEF Good, States
<1>3. q \in Seq(Task)
  BY <1>2, RetainedProp
<1>4. PICK f \in [DOMAIN q -> DOMAIN s.pending] :
         /\ \A i \in DOMAIN q : q[i] = s.pending[f[i]]
         /\ \A i, j \in DOMAIN q : f[i] = f[j] => i = j
  BY <1>2, RetainedProp
<1>5. GoodQueue(s, q, U) /\ GoodFlight(s, q, s.measurement, U)
  BY <1>4 DEF Good, GoodQueue, GoodFlight
<1>6. /\ c \in States /\ Same(s, c)
      /\ c.pending = q /\ c.measurement = s.measurement
      /\ c.gateways \subseteq s.gateways /\ c.enabled = s.enabled
  BY <1>2, <1>3 DEF Same, States
<1>7. r = CheckSessionLoss(c, fresh)
  BY <1>1
<1> HIDE DEF c
<1>8. Good(c, U)
  BY <1>5, <1>6, FrameQueue DEF Good
<1>9. Lands(c, r, fresh, U)
  BY <1>7, <1>8, LossLands
<1> QED BY <1>6, <1>9 DEF Lands, Same, Founds

-----------------------------------------------------------------------------
(* Gossip. *)

Payload == [session : Id \cup {None}, timeline : Timeline \cup {None},
            stst : StartStop \cup {None}, mep : Endpoints \cup {None}]

LEMMA ClampedType ==
    ASSUME NEW tl \in Timeline
    PROVE  Clamped(tl) \in Timeline
BY EngineAssumption DEF Clamped, ClampTempo, Timeline

LEMMA PeerStateGood ==
    ASSUME NEW U, NEW s, Good(s, U), NEW gw \in Nat, NEW node \in Id, NEW ps \in Payload,
           ps.session # None => ps.session \in U,
           NEW r \in HandlePeerState(s, gw, node, ps)
    PROVE  Good(r, U) /\ (Same(s, r) \/ (s.enabled /\ Joins(s, r)))
<1>1. CASE r = s
  BY <1>1 DEF Same
<1>2. CASE r # s
  <2> DEFINE a == InsertPeer(s, gw, node, ps)
  <2>1. s.enabled /\ r \in ProcessPeerState(s, gw, node, ps)
    BY <1>2 DEF HandlePeerState
  <2>2. s \in States
    BY DEF Good
  <2>3. /\ ps.session \in Id \cup {None} /\ ps.mep \in Endpoints \cup {None}
        /\ ps.timeline \in Timeline \cup {None} /\ ps.stst \in StartStop \cup {None}
    BY DEF Payload
  <2>4. [node |-> node, gateway |-> gw, session |-> ps.session, mep |-> ps.mep] \in Entry
    BY <2>3 DEF Entry
  <2>5. /\ a \in States /\ Same(s, a)
        /\ a.pending = s.pending /\ a.measurement = s.measurement
        /\ a.gateways = s.gateways
    BY <2>2, <2>4 DEF InsertPeer, States, Same
  <2> HIDE DEF a
  <2>6. Good(a, U)
    BY <2>5, FrameRest
  <2>7. CASE ps.session = None
    BY <2>1, <2>5, <2>6, <2>7 DEF ProcessPeerState, a
  <2>8. CASE ps.session # None /\ ps.session = s.session
    <3> DEFINE b == [a EXCEPT !.session_member_seen = TRUE]
               c == AdoptTimeline(b, ps.timeline)
    <3>1. r = AdoptStartStop(c, ps.stst)
      BY <2>1, <2>8 DEF ProcessPeerState, a
    <3>2. /\ b \in States /\ Same(s, b)
          /\ b.pending = s.pending /\ b.measurement = s.measurement
          /\ b.gateways = s.gateways
      BY <2>5 DEF States, Same
    <3> HIDE DEF b
    <3>3. /\ c \in States /\ Same(s, c)
          /\ c.pending = s.pending /\ c.measurement = s.measurement
          /\ c.gateways = s.gateways
      <4>1. ps.timeline # None => Clamped(ps.timeline) \in Timeline
        BY <2>3, ClampedType
      <4> QED BY <3>2, <4>1 DEF AdoptTimeline, States, Same
    <3> HIDE DEF c
    <3>4. /\ r \in States /\ Same(s, r)
          /\ r.pending = s.pending /\ r.measurement = s.measurement
          /\ r.gateways = s.gateways
      <4>1. ps.stst # None => ps.stst \in StartStop /\ ps.stst.is_playing \in BOOLEAN
        BY <2>3 DEF StartStop
      <4>2. c.app_playing \in BOOLEAN
        BY <3>3 DEF States
      <4>3. CASE r = c
        BY <3>3, <4>3
      <4>4. CASE r # c
        <5> DEFINE p == IF c.sst_sync /\ ps.stst # DefaultStartStop
                        THEN ps.stst.is_playing ELSE c.app_playing
        <5>1. /\ ps.stst # None
              /\ r = [c EXCEPT !.held_stst = ps.stst, !.app_playing = p]
          BY <3>1, <4>4 DEF AdoptStartStop
        <5>2. p \in BOOLEAN
          BY <4>1, <4>2, <5>1
        <5> HIDE DEF p
        <5> QED BY <3>3, <4>1, <5>1, <5>2 DEF States, Same
      <4> QED BY <4>3, <4>4
    <3> QED BY <3>4, FrameRest
  <2>9. CASE ps.session # None /\ ps.session # s.session
    <3> DEFINE b == CacheTimeline(a, ps.session, ps.timeline)
    <3>1. /\ b \in States /\ Same(s, b)
          /\ b.pending = s.pending /\ b.measurement = s.measurement
          /\ b.gateways = s.gateways
      BY <2>3, <2>5, <2>9 DEF CacheTimeline, States, Same
    <3>2. r \in (IF s.measured[ps.session] # None
                 THEN {EvaluateJoin(b, ps.session, s.measured[ps.session])}
                 ELSE QueueMeasurement(b, gw, ps.session, ps.mep))
      BY <2>1, <2>9 DEF ProcessPeerState, a
    <3> HIDE DEF b
    <3>3. Good(b, U)
      BY <3>1, FrameRest
    <3>4. /\ b.measured = s.measured /\ b.session = s.session
          /\ ps.session \in Id /\ ps.session \in U
          /\ s.measured[ps.session] \in Int \cup {None}
      BY <2>2, <2>3, <2>9, <3>1 DEF Same, States
    <3>5. CASE s.measured[ps.session] # None
      <4>1. r = EvaluateJoin(b, ps.session, b.measured[ps.session])
            /\ b.measured[ps.session] \in Int
        BY <3>2, <3>4, <3>5
      <4>2. Good(r, U) /\ (r = b \/ Joins(b, r))
        BY <3>3, <3>4, <4>1, EvaluateJoinGood
      <4> QED BY <2>1, <3>1, <4>2 DEF Same, Joins
    <3>6. CASE s.measured[ps.session] = None
      BY <2>3, <2>9, <3>1, <3>2, <3>3, <3>4, <3>6, QueueMeasurementGood DEF Same
    <3> QED BY <3>5, <3>6
  <2> QED BY <2>7, <2>8, <2>9
<1> QED BY <1>1, <1>2

-----------------------------------------------------------------------------
(* The inductive invariant of the peer. *)

Nameable == Remotes \cup used

FormerState == [session : Id, timeline : Timeline, stst : StartStop, mep : Endpoints]

IInv ==
    /\ Good(st, Nameable)
    /\ used \subseteq Own /\ st.node \in used
    /\ now \in Clocks
    /\ former # None => /\ former.node \in used
                        /\ former.state \in FormerState
                        /\ former.state.session \in Nameable

(* A step as Membership sees it. *)
Enters(s, r) ==
    /\ ~s.enabled /\ r.enabled
    /\ r.node \in Id /\ r.node # s.node /\ r.node # s.session
    /\ s.measured[r.node] = None
    /\ r.session = r.node /\ r.ghost_offset \in Int /\ r.measured = EmptyMap

Leaves(s, r) ==
    /\ s.enabled /\ ~r.enabled
    /\ r.node = s.node /\ r.session = s.session
    /\ r.ghost_offset = s.ghost_offset /\ r.measured = s.measured

Allowed(s, r) ==
    \/ Same(s, r)
    \/ s.enabled /\ (Learns(s, r) \/ Joins(s, r) \/ Refines(s, r) \/ Founds(s, r))
    \/ Enters(s, r)
    \/ Leaves(s, r)

LEMMA InitIInv == Init => IInv
<1> SUFFICES ASSUME Init PROVE IInv
  OBVIOUS
<1>1. PICK t \in Tempos : st = NewPeer(FirstNode, t)
  BY DEF Init
<1>2. st \in States
  BY <1>1, NewPeerType, SessionAssumption
<1>3. /\ st.node = FirstNode /\ st.session = FirstNode /\ st.measured = EmptyMap
      /\ st.pending = <<>> /\ st.measurement = None /\ st.gateways = {}
  BY <1>1 DEF NewPeer
<1>4. FirstNode \in Id /\ FirstNode \in Nameable
  BY SessionAssumption DEF Init, Nameable
<1>5. Good(st, Nameable)
  BY <1>2, <1>3, <1>4 DEF Good, GoodQueue, GoodFlight, EmptyMap
<1> QED BY <1>3, <1>5, SessionAssumption DEF Init, IInv

LEMMA KeepStep ==
    ASSUME IInv, NEW s, Good(s, Nameable), s.node = st.node, Keep(s)
    PROVE  IInv'
BY DEF IInv, Keep, Nameable, Good, GoodQueue, GoodFlight, GoodTask

LEMMA DrawsDrawable ==
    ASSUME IInv, NEW fresh \in Draws
    PROVE  Drawable(fresh, Nameable)
BY SessionAssumption DEF IInv, Draws, Drawable, Nameable

LEMMA SettleStep ==
    ASSUME IInv, NEW fresh \in Draws, NEW s, Lands(st, s, fresh, Nameable),
           Settle(s, fresh)
    PROVE  IInv' /\ (Same(st, st') \/ Founds(st, st'))
<1>1. CASE Good(s, Nameable) /\ Same(st, s)
  <2>1. Keep(s)
    BY <1>1 DEF Settle, Same
  <2>2. st' = s
    BY <2>1 DEF Keep
  <2> QED BY <1>1, <2>1, <2>2, KeepStep DEF Same
<1>2. CASE /\ fresh.node \in Id \ Nameable /\ s.node = fresh.node
           /\ Good(s, Nameable \cup {fresh.node}) /\ Founds(st, s)
  <2>1. /\ st' = s /\ used' = used \cup {s.node} /\ now' = fresh.now
        /\ \E e \in Endpoints : former' = [node |-> st.node, state |-> OwnState(e)]
    BY <1>2 DEF Settle, Founds
  <2>2. PICK e \in Endpoints : former' = [node |-> st.node, state |-> OwnState(e)]
    BY <2>1
  <2>3. fresh.node \in Own /\ fresh.now \in Clocks
    <3>1. fresh.node \in (Own \ used) \cup {None} /\ fresh.now \in Clocks
      BY DEF Draws
    <3>2. fresh.node # None
      BY <1>2, NoneNoId
    <3> QED BY <3>1, <3>2
  <2>4. Nameable' = Nameable \cup {fresh.node}
    BY <1>2, <2>1 DEF Nameable
  <2>5. Good(st', Nameable')
    BY <1>2, <2>1, <2>4
  <2>6. st.session \in Nameable /\ st.session \in Id /\ st.timeline \in Timeline
        /\ st.held_stst \in StartStop /\ st.node \in Nameable
    BY DEF IInv, Good, States
  <2>7. OwnState(e) \in FormerState /\ OwnState(e).session = st.session
    BY <2>6 DEF OwnState, FormerState
  <2>8. st.node \in used'
    BY <2>1 DEF IInv
  <2>9. used' \subseteq Own /\ now' \in Clocks /\ st'.node \in used'
    BY <1>2, <2>1, <2>3 DEF IInv
  <2> QED BY <1>2, <2>1, <2>2, <2>4, <2>5, <2>6, <2>7, <2>8, <2>9 DEF IInv
<1> QED BY <1>1, <1>2 DEF Lands

LEMMA EnableStep ==
    ASSUME IInv, DoEnable
    PROVE  IInv' /\ Enters(st, st')
<1>1. PICK fresh \in Draws, count \in 0 .. (MaxGateways - st.next_gateway_id) :
        /\ fresh.node # None
        /\ st' = Enable(st, fresh, count)
        /\ used' = used \cup {fresh.node} /\ now' = fresh.now /\ former' = None
  BY DEF DoEnable
<1> DEFINE G == st.gateways \cup (st.next_gateway_id .. (st.next_gateway_id + count - 1))
<1>2. /\ st \in States /\ st.next_gateway_id \in Nat /\ count \in Nat
      /\ st.timeline \in Timeline /\ ~st.enabled
  BY SessionAssumption DEF IInv, Good, States, DoEnable
<1>3. /\ fresh.node \in Own \ used /\ fresh.node \in Id
      /\ fresh.now \in Clocks /\ fresh.now \in Int /\ -fresh.now \in Int
  <2>1. fresh.node \in Own \ used /\ fresh.now \in Clocks
    BY <1>1 DEF Draws
  <2>2. fresh.node \in Id /\ fresh.now \in Int
    BY <2>1, SessionAssumption
  <2> QED BY <2>1, <2>2
<1>4. /\ G \in SUBSET Nat /\ st.next_gateway_id + count \in Nat
  BY <1>2 DEF States
<1>5. /\ [tempo |-> st.timeline.tempo, beat_origin |-> 0] \in Timeline
      /\ DefaultStartStop \in StartStop
      /\ EmptyMap \in [Id -> Timeline \cup {None}]
      /\ EmptyMap \in [Id -> Int \cup {None}]
      /\ <<>> \in Seq(Task)
  BY <1>2 DEF Timeline, StartStop, DefaultStartStop, EmptyMap
<1>6. st' = [st EXCEPT
         !.enabled = TRUE, !.node = fresh.node, !.session = fresh.node,
         !.ghost_offset = -fresh.now,
         !.timeline = [tempo |-> st.timeline.tempo, beat_origin |-> 0],
         !.held_stst = DefaultStartStop, !.session_member_seen = FALSE,
         !.foreign_timelines = EmptyMap, !.measured = EmptyMap,
         !.measurement = None, !.pending = <<>>, !.peers = {},
         !.remeasure_armed = FALSE, !.gateways = G,
         !.next_gateway_id = st.next_gateway_id + count]
  BY <1>1, <1>2 DEF Enable, States
<1> HIDE DEF G
<1>7. st' \in States
  BY <1>2, <1>3, <1>4, <1>5, <1>6 DEF States
<1>8. /\ st'.enabled = TRUE /\ st'.node = fresh.node /\ st'.session = fresh.node
      /\ st'.ghost_offset = -fresh.now /\ st'.measured = EmptyMap
      /\ st'.measurement = None /\ st'.pending = <<>>
  BY <1>2, <1>6 DEF States
<1>9. \A i \in Id : EmptyMap[i] = None
  BY DEF EmptyMap
<1>10. fresh.node \in Nameable' /\ fresh.node \in used' /\ used' \subseteq Own
  BY <1>1, <1>3 DEF Nameable, IInv
<1>11. Good(st', Nameable')
  BY <1>3, <1>7, <1>8, <1>9, <1>10 DEF Good, GoodQueue, GoodFlight
<1>12. Enters(st, st')
  <2>1. fresh.node \notin Nameable
    BY <1>3, SessionAssumption DEF Nameable
  <2>2. fresh.node # st.node /\ fresh.node # st.session /\ st.measured[fresh.node] = None
    BY <1>3, <2>1 DEF IInv, Good
  <2> QED BY <1>2, <1>3, <1>8, <2>2 DEF Enters
<1> QED BY <1>1, <1>3, <1>8, <1>10, <1>11, <1>12 DEF IInv

LEMMA SilentStep ==
    ASSUME IInv, DoDisable \/ DoCrash
    PROVE  IInv' /\ Leaves(st, st')
<1>1. former' = None /\ used' = used /\ now' = now /\ st.enabled
  BY DEF DoDisable, DoCrash
<1>2. st \in States /\ <<>> \in Seq(Task)
  BY DEF IInv, Good, States
<1>3. /\ st' \in States
      /\ st'.enabled = FALSE /\ st'.node = st.node /\ st'.session = st.session
      /\ st'.ghost_offset = st.ghost_offset /\ st'.measured = st.measured
      /\ st'.measurement = None /\ st'.pending = <<>> /\ st'.gateways = {}
  <2>1. CASE DoDisable
    BY <1>2, <2>1 DEF DoDisable, Disable, GoSilent, States
  <2>2. CASE DoCrash
    BY <1>2, <2>2 DEF DoCrash, GoSilent, States
  <2> QED BY <2>1, <2>2
<1>4. Good(st', Nameable')
  BY <1>1, <1>3 DEF IInv, Good, GoodQueue, GoodFlight, Nameable
<1>5. Leaves(st, st')
  BY <1>1, <1>3 DEF Leaves
<1> QED BY <1>1, <1>3, <1>4, <1>5 DEF IInv

(* A step that touches none of the fields the invariant is about. *)
LEMMA RestStep ==
    ASSUME IInv, NEW s, Keep(s), s \in States, Same(st, s),
           s.pending = st.pending, s.measurement = st.measurement,
           s.gateways = st.gateways
    PROVE  IInv' /\ Same(st, st')
<1>1. Good(s, Nameable)
  BY FrameRest DEF IInv
<1>2. st' = s
  BY DEF Keep
<1> QED BY <1>1, <1>2, KeepStep DEF Same

LEMMA ApplicationStep ==
    ASSUME IInv, SetsTempo \/ SetsPlaying \/ SetsStartStopSync
    PROVE  IInv' /\ Same(st, st')
<1>1. /\ st \in States /\ st.timeline \in Timeline /\ st.held_stst \in StartStop
      /\ st.ghost_offset \in Int
  BY DEF IInv, Good, States
<1>2. CASE SetsTempo
  <2>1. PICK t \in Tempos, b \in Beats : Keep(SetTempo(st, t, b))
    BY <1>2 DEF SetsTempo
  <2> DEFINE tl == [tempo |-> ClampTempo(t),
                    beat_origin |-> Larger(b, st.timeline.beat_origin + 1)]
  <2>2. tl \in Timeline
    BY <1>1, SessionAssumption, EngineAssumption DEF Timeline, ClampTempo, Larger
  <2>3. SetTempo(st, t, b) = [st EXCEPT !.timeline = tl]
    BY <1>1 DEF SetTempo, States
  <2> HIDE DEF tl
  <2> QED BY <1>1, <2>1, <2>2, <2>3, RestStep DEF States, Same
<1>3. CASE SetsPlaying
  <2>1. PICK p \in BOOLEAN, b \in Beats, c \in Clocks :
            Keep(SetIsPlaying(st, p, b, c + st.ghost_offset))
    BY <1>3 DEF SetsPlaying
  <2> DEFINE h == IF st.sst_sync
                  THEN [is_playing |-> p, beats |-> b,
                        timestamp |-> Larger(c + st.ghost_offset, st.held_stst.timestamp + 1)]
                  ELSE st.held_stst
  <2>2. h \in StartStop
    BY <1>1, SessionAssumption DEF StartStop, Larger
  <2>3. SetIsPlaying(st, p, b, c + st.ghost_offset)
          = [st EXCEPT !.app_playing = p, !.held_stst = h]
    BY <1>1 DEF SetIsPlaying, States
  <2> HIDE DEF h
  <2> QED BY <1>1, <2>1, <2>2, <2>3, RestStep DEF States, Same
<1>4. CASE SetsStartStopSync
  <2>1. PICK on \in BOOLEAN : Keep(EnableStartStopSync(st, on))
    BY <1>4, SessionAssumption DEF SetsStartStopSync
  <2> DEFINE a == IF on /\ st.held_stst # DefaultStartStop
                  THEN st.held_stst.is_playing ELSE st.app_playing
  <2>2. a \in BOOLEAN
    BY <1>1 DEF States, StartStop
  <2>3. EnableStartStopSync(st, on) = [st EXCEPT !.sst_sync = on, !.app_playing = a]
    BY <1>1 DEF EnableStartStopSync, States
  <2> HIDE DEF a
  <2> QED BY <1>1, <2>1, <2>2, <2>3, RestStep DEF States, Same
<1> QED BY <1>2, <1>3, <1>4

LEMMA GossipStep ==
    ASSUME IInv, PeerStateArrives \/ OwnAliveArrives
    PROVE  IInv' /\ (Same(st, st') \/ (st.enabled /\ Joins(st, st')))
<1>1. st.gateways \subseteq Nat /\ Nameable \subseteq Id /\ Good(st, Nameable)
  BY SessionAssumption DEF IInv, Good, States, Nameable
<1>2. CASE PeerStateArrives
  <2>1. PICK gw \in st.gateways, n \in Remotes, ps \in PeerStates :
          \E s \in HandlePeerState(st, gw, n, ps) : Keep(s)
    BY <1>2 DEF PeerStateArrives
  <2>2. PICK s \in HandlePeerState(st, gw, n, ps) : Keep(s)
    BY <2>1
  <2>3. /\ ps.session \in Named \cup Missing /\ ps.timeline \in Timelines \cup Missing
        /\ ps.stst \in StartStops \cup Missing /\ ps.mep \in Endpoints \cup Missing
        /\ ps = [session |-> ps.session, timeline |-> ps.timeline, stst |-> ps.stst,
                 mep |-> ps.mep]
    BY DEF PeerStates
  <2>4. Named \subseteq Nameable
    BY DEF Named, Nameable
  <2>5. ps \in Payload /\ (ps.session # None => ps.session \in Nameable)
    BY <1>1, <2>3, <2>4, SessionAssumption DEF Payload
  <2>6. Good(s, Nameable) /\ (Same(st, s) \/ (st.enabled /\ Joins(st, s)))
    BY <1>1, <2>2, <2>5, PeerStateGood, SessionAssumption
  <2>7. st' = s
    BY <2>2 DEF Keep
  <2> QED BY <2>2, <2>6, <2>7, KeepStep DEF Same, Joins
<1>3. CASE OwnAliveArrives
  <2>0. PICK gw \in st.gateways :
          \E s \in HandlePeerState(st, gw, former.node, former.state) :
             st' = s /\ former' = None /\ used' = used /\ now' = now
    BY <1>3 DEF OwnAliveArrives
  <2>1. PICK s \in HandlePeerState(st, gw, former.node, former.state) :
          st' = s /\ former' = None /\ used' = used /\ now' = now
    BY <2>0
  <2>2. /\ former.node \in Id
        /\ former.state \in Payload /\ former.state.session \in Nameable
    BY <1>3, SessionAssumption DEF OwnAliveArrives, IInv, Payload, FormerState
  <2>3. Good(s, Nameable) /\ (Same(st, s) \/ (st.enabled /\ Joins(st, s)))
    BY <1>1, <2>1, <2>2, PeerStateGood
  <2>4. Nameable' = Nameable /\ s.node = st.node
    BY <2>1, <2>3 DEF Nameable, Same, Joins
  <2> QED BY <2>1, <2>3, <2>4 DEF IInv
<1> QED BY <1>2, <1>3

LEMMA PongStep ==
    ASSUME IInv, PongArrives
    PROVE  IInv' /\ (\/ Same(st, st')
                     \/ st.enabled /\ (Learns(st, st') \/ Joins(st, st') \/ Refines(st, st')))
<1>1. PICK gw \in st.gateways, src \in Endpoints, sess \in Named, k \in Sampling,
           offset \in Offsets : Keep(HandlePong(st, gw, src, sess, k, offset))
  BY DEF PongArrives
<1> DEFINE r == HandlePong(st, gw, src, sess, k, offset)
<1>2. k \in 0 .. 2 /\ offset \in Int /\ Good(st, Nameable)
  BY SessionAssumption DEF IInv
<1>3. /\ Good(r, Nameable)
      /\ \/ Same(st, r)
         \/ st.enabled /\ (Learns(st, r) \/ Joins(st, r) \/ Refines(st, r))
  BY <1>2, PongGood
<1>4. st' = r
  BY <1>1 DEF Keep
<1>5. Keep(r)
  BY <1>1
<1> HIDE DEF r
<1>6. r.node = st.node
  BY <1>3 DEF Same, Learns, Joins, Refines
<1> QED BY <1>3, <1>4, <1>5, <1>6, KeepStep

LEMMA ByeByeStep ==
    ASSUME IInv, ByeByeArrives
    PROVE  IInv' /\ (Same(st, st') \/ (st.enabled /\ Founds(st, st')))
<1>1. PICK gw \in st.gateways, n \in Remotes, fresh \in Draws :
        Settle(HandleByeBye(st, gw, n, fresh), fresh)
  BY DEF ByeByeArrives
<1> DEFINE r == HandleByeBye(st, gw, n, fresh)
<1>2. st.node # None
  BY NoneNoId DEF IInv, Good, States
<1>3. r.node # None
  BY <1>1, <1>2 DEF Settle
<1>4. Lands(st, r, fresh, Nameable) /\ (r # st => st.enabled)
  BY <1>3, DrawsDrawable, ByeByeLands DEF IInv
<1>5. Settle(r, fresh)
  BY <1>1
<1> HIDE DEF r
<1>6. IInv' /\ (Same(st, st') \/ Founds(st, st'))
  BY <1>4, <1>5, SettleStep
<1>7. st' = r
  BY <1>5 DEF Settle, Keep
<1> QED BY <1>4, <1>6, <1>7 DEF Founds

LEMMA HousekeepingStep ==
    ASSUME IInv, HousekeepingRuns
    PROVE  IInv' /\ (Same(st, st') \/ (st.enabled /\ Founds(st, st')))
<1>1. PICK expired \in SUBSET st.peers, retry \in BOOLEAN, remeasure \in BOOLEAN :
        Housekeeping(expired, retry, remeasure)
  BY DEF HousekeepingRuns
<1>0. PICK fresh \in Draws :
        /\ PruneExpired(st, expired, fresh).node # None
        /\ \E s \in HousekeepingPass(st, expired, retry, remeasure, fresh) :
              Settle(s, fresh)
  BY <1>1 DEF Housekeeping
<1>2. PICK s \in HousekeepingPass(st, expired, retry, remeasure, fresh) :
        PruneExpired(st, expired, fresh).node # None /\ Settle(s, fresh)
  BY <1>0
<1>3. st.enabled /\ (retry => st.measurement # None)
  BY <1>1 DEF Housekeeping
<1>4. Lands(st, s, fresh, Nameable)
  BY <1>2, <1>3, DrawsDrawable, HousekeepingLands DEF IInv
<1> QED BY <1>2, <1>3, <1>4, SettleStep

LEMMA GatewayStep ==
    ASSUME IInv, GatewayOpens \/ GatewayCloses
    PROVE  IInv' /\ (Same(st, st') \/ (st.enabled /\ Founds(st, st')))
<1>1. CASE GatewayOpens
  <2> DEFINE G == st.gateways \cup {st.next_gateway_id}
             r == [st EXCEPT !.gateways = G, !.next_gateway_id = st.next_gateway_id + 1]
  <2>1. st \in States /\ Good(st, Nameable) /\ st.enabled
    BY <1>1 DEF IInv, Good, GatewayOpens
  <2>2. Keep(r)
    BY <1>1, <2>1 DEF GatewayOpens, OpenGateway, States
  <2>3. G \in SUBSET Nat /\ st.next_gateway_id + 1 \in Nat
    BY <2>1 DEF States
  <2>4. /\ r \in States /\ Same(st, r)
        /\ r.pending = st.pending /\ r.measurement = st.measurement
        /\ r.enabled = st.enabled
    <3> HIDE DEF G
    <3> QED BY <2>1, <2>3 DEF Same, States
  <2> HIDE DEF r
  <2>5. Good(r, Nameable)
    BY <2>1, <2>4, FrameQueue DEF Good
  <2>6. st' = r
    BY <2>2 DEF Keep
  <2> QED BY <2>2, <2>4, <2>5, <2>6, KeepStep DEF Same
<1>2. CASE GatewayCloses
  <2>1. PICK gw \in st.gateways, fresh \in Draws :
          \E s \in CloseGateway(st, gw, fresh) : Settle(s, fresh)
    BY <1>2 DEF GatewayCloses
  <2>2. PICK s \in CloseGateway(st, gw, fresh) : Settle(s, fresh)
    BY <2>1
  <2>3. st.node # None /\ st.enabled
    BY <2>1, NoneNoId DEF IInv, Good, States
  <2>4. s.node # None
    BY <2>2, <2>3 DEF Settle
  <2>5. Lands(st, s, fresh, Nameable)
    BY <2>2, <2>4, DrawsDrawable, CloseLands DEF IInv
  <2> QED BY <2>2, <2>3, <2>5, SettleStep
<1> QED BY <1>1, <1>2

(* Every step keeps the invariant and is one that Membership allows. *)
LEMMA NextStep ==
    ASSUME IInv, [Next]_vars
    PROVE  IInv' /\ Allowed(st, st')
<1>1. CASE UNCHANGED vars
  BY <1>1 DEF vars, IInv, Good, GoodQueue, GoodFlight, GoodTask, Nameable, Allowed, Same
<1>2. CASE DoEnable
  BY <1>2, EnableStep DEF Allowed
<1>3. CASE DoDisable \/ DoCrash
  BY <1>3, SilentStep DEF Allowed
<1>4. CASE PeerStateArrives \/ OwnAliveArrives
  BY <1>4, GossipStep DEF Allowed
<1>5. CASE ByeByeArrives
  BY <1>5, ByeByeStep DEF Allowed
<1>6. CASE PongArrives
  BY <1>6, PongStep DEF Allowed
<1>7. CASE HousekeepingRuns
  BY <1>7, HousekeepingStep DEF Allowed
<1>8. CASE GatewayOpens \/ GatewayCloses
  BY <1>8, GatewayStep DEF Allowed
<1>9. CASE SetsTempo \/ SetsPlaying \/ SetsStartStopSync
  BY <1>9, ApplicationStep DEF Allowed
<1> QED BY <1>1, <1>2, <1>3, <1>4, <1>5, <1>6, <1>7, <1>8, <1>9 DEF Next

THEOREM Invariance == Spec => []IInv
<1>1. Init => IInv
  BY InitIInv
<1>2. IInv /\ [Next]_vars => IInv'
  BY NextStep
<1> QED BY <1>1, <1>2, PTL DEF Spec

(* Type correctness: every field of `State` keeps its type, the retry      *)
(* count never exceeds MAX_MEASUREMENT_RETRIES and the sample count of an  *)
(* unfinished measurement never exceeds SAMPLES_REQUIRED.                  *)
THEOREM TypeCorrect == Spec => []TypeOK
<1>1. IInv => TypeOK
  BY DEF IInv, Good, TypeOK, FormerState
<1> QED BY <1>1, Invariance, PTL

(* The ghost transform in use is always the one on record for the current  *)
(* session (evaluate_join, measurement_succeeded, reset_session).          *)
THEOREM TransformAlwaysOnRecord == Spec => []TransformOnRecord
<1>1. IInv => TransformOnRecord
  BY DEF IInv, Good, TransformOnRecord
<1> QED BY <1>1, Invariance, PTL

(* No session is ever measured by two tasks at a time (queue_measurement,  *)
(* queue_remeasure).                                                       *)
THEOREM AlwaysOneTaskPerSession == Spec => []OneTaskPerSession
<1>1. IInv => OneTaskPerSession
  BY DEF IInv, Good, GoodQueue, GoodFlight, OneTaskPerSession
<1> QED BY <1>1, Invariance, PTL

(* The peer implements Membership: whatever its handlers do, its session   *)
(* and ghost transform change only by founding under a fresh NodeId,       *)
(* joining a known session that wins, re-measuring a session it joined, or *)
(* leaving the network.                                                    *)
THEOREM Refinement == Spec => KeepsPromise
<1>1. Init => Promise!Init
  BY SessionAssumption
  DEF Init, NewPeer, EmptyMap, Promise!Init, Promise!Nothing
<1>2. IInv /\ [Next]_vars => [Promise!Next]_(Promise!vars)
  <2> SUFFICES ASSUME IInv, [Next]_vars PROVE [Promise!Next]_(Promise!vars)
    OBVIOUS
  <2>1. Allowed(st, st') /\ IInv'
    BY NextStep
  <2>2. CASE Same(st, st')
    BY <2>2 DEF Same, Promise!vars
  <2>3. CASE st.enabled /\ Learns(st, st')
    BY <2>3 DEF Learns, Promise!Next, Promise!Learn
  <2>4. CASE st.enabled /\ Joins(st, st')
    <3>1. st.ghost_offset \in Int /\ st'.ghost_offset \in Int
      BY <2>4 DEF IInv, Good, States, Joins
    <3>2. Promise!Wins(st'.session, st'.ghost_offset)
      BY <2>4, <3>1, EngineAssumption DEF Joins, JoinRule, Promise!Wins
    <3> QED BY <2>4, <3>2 DEF Joins, Promise!Next, Promise!Join
  <2>5. CASE st.enabled /\ Refines(st, st')
    BY <2>5 DEF Refines, Promise!Next, Promise!Refine
  <2>6. CASE st.enabled /\ Founds(st, st')
    BY <2>6 DEF Founds, Promise!Next, Promise!Found, Promise!Fresh
  <2>7. CASE Enters(st, st')
    BY <2>7 DEF Enters, EmptyMap, Promise!Next, Promise!Enter, Promise!Fresh,
       Promise!Nothing
  <2>8. CASE Leaves(st, st')
    BY <2>8 DEF Leaves, Promise!Next, Promise!Leave
  <2> QED BY <2>1, <2>2, <2>3, <2>4, <2>5, <2>6, <2>7, <2>8 DEF Allowed
<1> QED BY <1>1, <1>2, Invariance, PTL DEF Spec, KeepsPromise, Promise!Spec

-----------------------------------------------------------------------------
(***************************************************************************)
(* Proofs that the queue of measurements of Session never stalls, and that *)
(* nothing but a measurement in flight refers to a closed gateway.  The    *)
(* first needs the second: a task whose gateway is gone is popped without  *)
(* being started (start_next_measurement), and what is behind it would     *)
(* wait.  Types come from the invariant above.                             *)
(***************************************************************************)

(* Entries and queued tasks name open gateways, whose ids have been given. *)
Tidy(s) ==
    /\ \A e \in s.peers : e.gateway \in s.gateways
    /\ \A i \in DOMAIN s.pending : s.pending[i].gateway \in s.gateways
    /\ \A g \in s.gateways : g < s.next_gateway_id

Served(s) == s.pending # <<>> => s.measurement # None

(* Two states with the same gateways. *)
SameGateways(s, r) ==
    r.gateways = s.gateways /\ r.next_gateway_id = s.next_gateway_id

(* Two states with the same gateways, entries, queue and measurement. *)
Calm(s, r) ==
    /\ SameGateways(s, r)
    /\ r.peers = s.peers /\ r.pending = s.pending /\ r.measurement = s.measurement

LEMMA CalmKeeps ==
    ASSUME NEW s, NEW r, Calm(s, r)
    PROVE  (Tidy(s) => Tidy(r)) /\ (Served(s) => Served(r))
BY DEF Calm, SameGateways, Tidy, Served

-----------------------------------------------------------------------------
(* The measurement queue. *)

LEMMA StartNextTidy ==
    ASSUME NEW s \in States, Tidy(s)
    PROVE  Tidy(StartNextMeasurement(s)) /\ Served(StartNextMeasurement(s))
<1> DEFINE r == StartNextMeasurement(s)
           task == Head(s.pending)
           flight == [task |-> task, samples |-> 0, timeouts |-> 0]
<1>1. CASE s.measurement # None \/ s.pending = <<>>
  BY <1>1 DEF StartNextMeasurement, Served
<1>2. CASE ~(s.measurement # None \/ s.pending = <<>>)
  <2>1. s.pending \in Seq(Task) /\ s.pending # <<>>
    BY <1>2 DEF States
  <2>2. /\ 1 \in DOMAIN s.pending /\ task = s.pending[1] /\ task \in Task
        /\ \A i \in DOMAIN Tail(s.pending) :
              /\ i + 1 \in DOMAIN s.pending
              /\ Tail(s.pending)[i] = s.pending[i + 1]
    BY <2>1
  <2>3. task.gateway \in s.gateways
    BY <2>2 DEF Tidy
  <2>4. r = [s EXCEPT !.pending = Tail(s.pending), !.measurement = flight]
    BY <1>2, <2>3 DEF StartNextMeasurement, States
  <2>5. /\ r.pending = Tail(s.pending) /\ r.measurement = flight
        /\ SameGateways(s, r) /\ r.peers = s.peers
    <3> HIDE DEF flight, r
    <3> QED BY <2>4 DEF States, SameGateways
  <2>6. flight \in Measurement
    BY <2>2, EngineAssumption DEF Measurement
  <2> HIDE DEF r, flight, task
  <2>7. Tidy(r)
    BY <2>2, <2>5 DEF Tidy, SameGateways
  <2> QED BY <2>5, <2>6, <2>7, MeasurementAssumption DEF Served, r
<1> QED BY <1>1, <1>2

LEMMA EnqueueTidy ==
    ASSUME NEW s \in States, Tidy(s), NEW sess, NEW purpose,
           NEW w, w.gateway \in s.gateways
    PROVE  Tidy(Enqueue(s, sess, w, purpose))
<1> DEFINE task == [session |-> sess, target |-> w.target, gateway |-> w.gateway,
                    purpose |-> purpose]
           queue == Append(s.pending, task)
           r == [s EXCEPT !.pending = queue]
<1>1. s.pending \in Seq(Task)
  BY DEF States
<1>2. \A i \in DOMAIN queue :
         queue[i] = task \/ (i \in DOMAIN s.pending /\ queue[i] = s.pending[i])
  BY <1>1
<1>3. r.pending = queue /\ SameGateways(s, r) /\ r.peers = s.peers
  BY DEF States, SameGateways
<1>4. task.gateway \in s.gateways
  OBVIOUS
<1>5. r = Enqueue(s, sess, w, purpose)
  BY DEF Enqueue
<1> HIDE DEF r, queue, task
<1>6. Tidy(r)
  BY <1>2, <1>3, <1>4 DEF Tidy, SameGateways
<1> QED BY <1>5, <1>6

(* Endpoints of entries are reached through open gateways. *)
LEMMA ReachOpen ==
    ASSUME NEW s, Tidy(s), NEW E \in SUBSET s.peers, NEW w \in Reach(E)
    PROVE  w.gateway \in s.gateways
BY DEF Reach, Tidy

LEMMA QueueMeasurementTidy ==
    ASSUME NEW U, NEW s, Good(s, U), Tidy(s), Served(s), NEW gw \in s.gateways,
           NEW sess \in Id, NEW mep \in Endpoints \cup {None}, sess \in U,
           s.measured[sess] = None, sess # s.session,
           NEW r \in QueueMeasurement(s, gw, sess, mep)
    PROVE  Tidy(r) /\ Served(r)
<1>1. CASE r = s
  BY <1>1
<1>2. CASE r # s
  <2>1. /\ ~HasTask(s, sess)
        /\ \E w \in GossipTargets(s, gw, sess, mep) :
              r = StartNextMeasurement(Enqueue(s, sess, w, "Join"))
    BY <1>2 DEF QueueMeasurement
  <2>2. PICK w \in GossipTargets(s, gw, sess, mep) :
           r = StartNextMeasurement(Enqueue(s, sess, w, "Join"))
    BY <2>1
  <2>3. s \in States /\ gw \in Nat
    BY DEF Good, States
  <2>4. w \in Where
    BY <2>3, ReachType DEF GossipTargets, Founders, Where
  <2>5. w.gateway \in s.gateways
    BY ReachOpen DEF GossipTargets, Founders
  <2>6. Enqueue(s, sess, w, "Join") \in States
    BY <2>1, <2>4, EnqueueGood DEF Good
  <2>7. Tidy(Enqueue(s, sess, w, "Join"))
    BY <2>3, <2>5, EnqueueTidy
  <2> QED BY <2>2, <2>6, <2>7, StartNextTidy
<1> QED BY <1>1, <1>2

LEMMA QueueRemeasureTidy ==
    ASSUME NEW s \in States, Tidy(s), NEW r \in QueueRemeasure(s)
    PROVE  Tidy(r)
<1>1. CASE r = s
  BY <1>1
<1>2. CASE r # s
  <2>1. PICK w \in RemeasureTargets(s) : r = Enqueue(s, s.session, w, "Remeasure")
    BY <1>2 DEF QueueRemeasure
  <2>2. w.gateway \in s.gateways
    BY ReachOpen DEF RemeasureTargets, Founders, Members
  <2> QED BY <2>1, <2>2, EnqueueTidy
<1> QED BY <1>1, <1>2

-----------------------------------------------------------------------------
(* The end of a measurement.  Whatever ends it starts the next.            *)

LEMMA FailedTidy ==
    ASSUME NEW s \in States, Tidy(s), NEW task
    PROVE  Tidy(MeasurementFailed(s, task)) /\ Served(MeasurementFailed(s, task))
<1> DEFINE armed == s.remeasure_armed \/ task.purpose = "Remeasure"
           r == [s EXCEPT !.remeasure_armed = armed]
<1>1. armed \in BOOLEAN
  OBVIOUS
<1>2. r \in States /\ Calm(s, r)
  <2> HIDE DEF armed
  <2> QED BY <1>1 DEF States, Calm, SameGateways
<1>3. MeasurementFailed(s, task) = StartNextMeasurement(r)
  BY DEF MeasurementFailed
<1> HIDE DEF r
<1> QED BY <1>2, <1>3, CalmKeeps, StartNextTidy

LEMMA IdleTidy ==
    ASSUME NEW s \in States, Tidy(s)
    PROVE  Idle(s) \in States /\ Tidy(Idle(s))
<1>1. /\ Idle(s) \in States /\ SameGateways(s, Idle(s))
      /\ Idle(s).peers = s.peers /\ Idle(s).pending = s.pending
  BY DEF Idle, States, SameGateways
<1> QED BY <1>1 DEF Tidy, SameGateways

LEMMA JoinCalm ==
    ASSUME NEW s \in States, NEW sess \in Id, NEW offset \in Int
    PROVE  Calm(s, EvaluateJoin(s, sess, offset)) /\ EvaluateJoin(s, sess, offset) \in States
<1> DEFINE r == AdoptSession(s, sess, offset)
<1>1. JoinedTimeline(s, sess) \in Timeline /\ DefaultStartStop \in StartStop
  BY JoinedTimelineType DEF DefaultStartStop, StartStop
<1>2. s.ghost_offset \in Int /\ s.session \in Id
  BY DEF States
<1>3. r \in States
  BY <1>1, <1>2 DEF AdoptSession, States
<1>4. Calm(s, r)
  BY <1>1 DEF AdoptSession, States, Calm, SameGateways
<1>5. Calm(s, s)
  BY DEF Calm, SameGateways
<1> QED BY <1>3, <1>4, <1>5 DEF EvaluateJoin

LEMMA SucceededTidy ==
    ASSUME NEW U, NEW s, Good(s, U), Tidy(s), NEW task \in Task, GoodTask(s, task, U),
           \A i \in DOMAIN s.pending : s.pending[i].session # task.session,
           s.measurement = None, NEW offset \in Int
    PROVE  /\ Tidy(MeasurementSucceeded(s, task, offset))
           /\ Served(MeasurementSucceeded(s, task, offset))
<1> DEFINE k == [s EXCEPT !.measured[task.session] = offset]
           o == IF k.session = task.session THEN offset ELSE k.ghost_offset
           j == EvaluateJoin(k, task.session, offset)
           e == [k EXCEPT !.ghost_offset = o, !.remeasure_armed = TRUE]
<1>1. s \in States /\ task.session \in Id /\ s.measured \in [Id -> Int \cup {None}]
  BY DEF Good, States, Task
<1>2. k \in States /\ Calm(s, k)
  BY <1>1 DEF States, Calm, SameGateways
<1>3. MeasurementSucceeded(s, task, offset)
        = StartNextMeasurement(IF task.purpose = "Join" THEN j ELSE e)
  BY <1>2 DEF MeasurementSucceeded, States
<1> HIDE DEF k
<1>4. Calm(k, e) /\ e \in States
  <2>1. o \in Int
    BY <1>2 DEF States
  <2> HIDE DEF o
  <2> QED BY <1>2, <2>1 DEF States, Calm, SameGateways
<1>5. Calm(k, j) /\ j \in States
  BY <1>1, <1>2, JoinCalm
<1> HIDE DEF j, e
<1>6. Tidy(j) /\ Tidy(e)
  BY <1>2, <1>4, <1>5, CalmKeeps
<1> QED BY <1>3, <1>4, <1>5, <1>6, StartNextTidy

LEMMA PongTidy ==
    ASSUME NEW U, NEW s, Good(s, U), Tidy(s), Served(s), NEW gw, NEW src, NEW sess,
           NEW samples \in 0 .. 2, NEW offset \in Int
    PROVE  LET r == HandlePong(s, gw, src, sess, samples, offset)
           IN  Tidy(r) /\ Served(r)
<1> DEFINE r == HandlePong(s, gw, src, sess, samples, offset)
           m == s.measurement
           total == m.samples + samples
<1>1. CASE r = s
  BY <1>1
<1>2. CASE r # s
  <2>1. s.enabled /\ m # None
    BY <1>2 DEF HandlePong
  <2>2. /\ s \in States /\ m \in Measurement /\ m.task \in Task /\ m.samples \in Nat
        /\ GoodTask(s, m.task, U)
        /\ \A i \in DOMAIN s.pending : s.pending[i].session # m.task.session
    BY <2>1 DEF Good, GoodFlight, States, Measurement
  <2>3. /\ Good(Idle(s), U) /\ Same(s, Idle(s))
        /\ Idle(s).pending = s.pending /\ Idle(s).measurement = None
    BY IdleGood
  <2>4. Idle(s) \in States /\ Tidy(Idle(s))
    BY <2>2, IdleTidy
  <2>5. CASE r = MeasurementFailed(Idle(s), m.task)
    BY <2>4, <2>5, FailedTidy
  <2>6. CASE r = MeasurementSucceeded(Idle(s), m.task, offset)
    <3> DEFINE d == Idle(s)
    <3> HIDE DEF r, m, d
    <3>1. GoodTask(d, m.task, U)
      BY <2>2, <2>3 DEF GoodTask, Same, d
    <3>2. Tidy(r) /\ Served(r)
      BY <2>2, <2>3, <2>4, <2>6, <3>1, SucceededTidy DEF d
    <3> QED BY <3>2 DEF r
  <2>7. CASE r = [s EXCEPT !.measurement.samples = total] /\ ~(total > SamplesRequired)
    <3> DEFINE n == [m EXCEPT !.samples = total]
    <3>1. n \in Measurement
      BY <2>2, <2>7, EngineAssumption DEF Measurement
    <3>2. r = [s EXCEPT !.measurement = n]
      BY <2>2, <2>7 DEF States
    <3> HIDE DEF n, r, m, total
    <3>3. /\ SameGateways(s, r) /\ r.peers = s.peers
          /\ r.pending = s.pending /\ r.measurement = n
      BY <2>2, <3>2 DEF States, SameGateways
    <3>4. Tidy(r) /\ Served(r)
      BY <3>1, <3>3, MeasurementAssumption DEF Tidy, Served, SameGateways
    <3> QED BY <3>4 DEF r
  <2>8. \/ r = MeasurementFailed(Idle(s), m.task)
        \/ r = MeasurementSucceeded(Idle(s), m.task, offset)
        \/ r = [s EXCEPT !.measurement.samples = total] /\ ~(total > SamplesRequired)
    BY <1>2 DEF HandlePong, Idle
  <2> QED BY <2>5, <2>6, <2>7, <2>8
<1> QED BY <1>1, <1>2

LEMMA RetryTidy ==
    ASSUME NEW s \in States, Tidy(s), s.measurement # None
    PROVE  Tidy(RetryExpired(s)) /\ Served(RetryExpired(s))
<1>1. s.measurement \in Measurement
  BY DEF States
<1>2. CASE s.measurement.timeouts >= MaxRetries
  <2>1. RetryExpired(s) = MeasurementFailed(Idle(s), s.measurement.task)
    BY <1>2 DEF RetryExpired, Idle
  <2> QED BY <2>1, IdleTidy, FailedTidy
<1>3. CASE ~(s.measurement.timeouts >= MaxRetries)
  <2> DEFINE m == [s.measurement EXCEPT !.timeouts = @ + 1]
             r == [s EXCEPT !.measurement = m]
  <2>1. m \in Measurement
    BY <1>1, <1>3, EngineAssumption DEF Measurement
  <2>2. RetryExpired(s) = r
    BY <1>1, <1>3 DEF RetryExpired, States
  <2>3. /\ SameGateways(s, r) /\ r.peers = s.peers
        /\ r.pending = s.pending /\ r.measurement = m
    <3> HIDE DEF m
    <3> QED BY DEF States, SameGateways
  <2> HIDE DEF r, m
  <2>4. Tidy(r) /\ Served(r)
    BY <2>1, <2>3, MeasurementAssumption DEF Tidy, Served, SameGateways
  <2> QED BY <2>2, <2>4
<1> QED BY <1>2, <1>3

-----------------------------------------------------------------------------
(* Departures. *)

LEMMA LossCalm ==
    ASSUME NEW s \in States, NEW fresh
    PROVE  Calm(s, CheckSessionLoss(s, fresh))
BY DEF CheckSessionLoss, ResetSession, Calm, SameGateways, States

LEMMA RemovalTidy ==
    ASSUME NEW s \in States, Tidy(s), Served(s), NEW P \in SUBSET s.peers, NEW fresh
    PROVE  LET r == CheckSessionLoss([s EXCEPT !.peers = P], fresh)
           IN  Tidy(r) /\ Served(r)
<1> DEFINE q == [s EXCEPT !.peers = P]
           r == CheckSessionLoss(q, fresh)
<1>1. /\ q \in States /\ SameGateways(s, q) /\ q.peers = P
      /\ q.pending = s.pending /\ q.measurement = s.measurement
  BY DEF States, SameGateways
<1> HIDE DEF q
<1>2. Tidy(q) /\ Served(q)
  BY <1>1 DEF Tidy, Served, SameGateways
<1>3. Calm(q, r)
  BY <1>1, LossCalm
<1> HIDE DEF r
<1>4. Tidy(r) /\ Served(r)
  BY <1>2, <1>3, CalmKeeps
<1> QED BY <1>4 DEF r, q

LEMMA PruneTidy ==
    ASSUME NEW s \in States, Tidy(s), Served(s), NEW expired, NEW fresh
    PROVE  Tidy(PruneExpired(s, expired, fresh)) /\ Served(PruneExpired(s, expired, fresh))
<1> DEFINE P == s.peers \ expired
<1>1. P \in SUBSET s.peers
  OBVIOUS
<1>2. \/ PruneExpired(s, expired, fresh) = s
      \/ PruneExpired(s, expired, fresh) = CheckSessionLoss([s EXCEPT !.peers = P], fresh)
  BY DEF PruneExpired
<1> HIDE DEF P
<1> QED BY <1>1, <1>2, RemovalTidy

LEMMA ByeByeTidy ==
    ASSUME NEW s \in States, Tidy(s), Served(s), NEW gw, NEW node, NEW fresh
    PROVE  Tidy(HandleByeBye(s, gw, node, fresh)) /\ Served(HandleByeBye(s, gw, node, fresh))
<1> DEFINE P == {e \in s.peers : e.node # node \/ e.gateway # gw}
<1>1. P \in SUBSET s.peers
  OBVIOUS
<1>2. \/ HandleByeBye(s, gw, node, fresh) = s
      \/ HandleByeBye(s, gw, node, fresh) = CheckSessionLoss([s EXCEPT !.peers = P], fresh)
  BY DEF HandleByeBye
<1> HIDE DEF P
<1> QED BY <1>1, <1>2, RemovalTidy

LEMMA HousekeepingTidy ==
    ASSUME NEW U, NEW s, Good(s, U), Tidy(s), Served(s), NEW fresh, Drawable(fresh, U),
           NEW expired, NEW retry \in BOOLEAN, NEW remeasure \in BOOLEAN,
           retry => s.measurement # None,
           PruneExpired(s, expired, fresh).node # None,
           NEW r \in HousekeepingPass(s, expired, retry, remeasure, fresh)
    PROVE  Tidy(r) /\ Served(r)
<1> DEFINE p == PruneExpired(s, expired, fresh)
           t == IF retry THEN RetryExpired(p) ELSE p
<1>1. PICK V : Good(p, V)
  BY PruneLands DEF Lands
<1>2. Tidy(p) /\ p.measurement = s.measurement
  BY PruneTidy DEF Good, PruneExpired, CheckSessionLoss, ResetSession, States
<1>3. PICK q : /\ q \in QueueRemeasure(t) \cup {t}
               /\ r = StartNextMeasurement(q)
  BY DEF HousekeepingPass
<1> HIDE DEF p
<1>4. Good(t, V) /\ Tidy(t)
  BY <1>1, <1>2, RetryGood, RetryTidy DEF Good
<1> HIDE DEF t
<1>5. Good(q, V) /\ Tidy(q)
  BY <1>3, <1>4, QueueRemeasureGood, QueueRemeasureTidy DEF Good
<1> QED BY <1>3, <1>5, StartNextTidy DEF Good

(* Closing a gateway retains the tasks of the others, in a queue that was  *)
(* served: the measurement in flight stays, whatever its gateway.          *)
LEMMA CloseTidy ==
    ASSUME NEW s \in States, Tidy(s), Served(s), NEW id, NEW fresh,
           NEW r \in CloseGateway(s, id, fresh)
    PROVE  Tidy(r) /\ Served(r)
<1> DEFINE P == {e \in s.peers : e.gateway # id}
           G == s.gateways \ {id}
<1>1. PICK q \in Retained(s.pending, id) :
        r = CheckSessionLoss([s EXCEPT !.gateways = G, !.peers = P, !.pending = q], fresh)
  BY DEF CloseGateway
<1> DEFINE c == [s EXCEPT !.gateways = G, !.peers = P, !.pending = q]
<1>2. s.pending \in Seq(Task)
  BY DEF States
<1>3. q \in Seq(Task)
  BY <1>2, RetainedProp
<1>4. PICK f \in [DOMAIN q -> DOMAIN s.pending] :
         \A i \in DOMAIN q : q[i] = s.pending[f[i]] /\ s.pending[f[i]].gateway # id
  BY <1>2, RetainedProp
<1>5. q # <<>> => s.pending # <<>>
  <2> SUFFICES ASSUME q # <<>> PROVE s.pending # <<>>
    OBVIOUS
  <2>1. 1 \in DOMAIN q
    BY <1>3
  <2>2. f[1] \in DOMAIN s.pending
    BY <1>4, <2>1
  <2> QED BY <2>2
<1>6. /\ c \in States /\ c.pending = q /\ c.measurement = s.measurement
      /\ c.gateways = G /\ c.peers = P /\ c.next_gateway_id = s.next_gateway_id
  BY <1>3 DEF States
<1>7. r = CheckSessionLoss(c, fresh)
  BY <1>1
<1> HIDE DEF c
<1>8. Tidy(c) /\ Served(c)
  BY <1>4, <1>5, <1>6 DEF Tidy, Served
<1> QED BY <1>6, <1>7, <1>8, LossCalm, CalmKeeps

-----------------------------------------------------------------------------
(* Gossip, heard on an open gateway. *)

LEMMA PeerStateTidy ==
    ASSUME NEW U, NEW s, Good(s, U), Tidy(s), Served(s), NEW gw \in s.gateways,
           NEW node \in Id, NEW ps \in Payload, ps.session # None => ps.session \in U,
           NEW r \in HandlePeerState(s, gw, node, ps)
    PROVE  Tidy(r) /\ Served(r)
<1>1. CASE r = s
  BY <1>1
<1>2. CASE r # s
  <2> DEFINE entry == [node |-> node, gateway |-> gw, session |-> ps.session, mep |-> ps.mep]
             a == InsertPeer(s, gw, node, ps)
  <2>1. r \in ProcessPeerState(s, gw, node, ps)
    BY <1>2 DEF HandlePeerState
  <2>2. s \in States /\ gw \in Nat
    BY DEF Good, States
  <2>3. /\ ps.session \in Id \cup {None} /\ ps.mep \in Endpoints \cup {None}
        /\ ps.timeline \in Timeline \cup {None}
    BY DEF Payload
  <2>4. entry \in Entry /\ entry.gateway = gw
    BY <2>2, <2>3 DEF Entry
  <2>5. /\ a \in States /\ Same(s, a) /\ SameGateways(s, a)
        /\ a.pending = s.pending /\ a.measurement = s.measurement
        /\ a.peers \subseteq s.peers \cup {entry}
    <3> HIDE DEF entry
    <3>1. a = [s EXCEPT !.peers = {e \in s.peers : e.node # node \/ e.gateway # gw}
                                    \cup {entry}]
      BY <2>2 DEF InsertPeer, entry, States
    <3> QED BY SMTT(30), <2>2, <2>4, <3>1 DEF States, Same, SameGateways
  <2> HIDE DEF entry, a
  <2>6. Good(a, U)
    BY <2>5, FrameRest DEF SameGateways
  <2>7. Tidy(a) /\ Served(a)
    BY <2>4, <2>5 DEF Tidy, Served, SameGateways
  <2>8. CASE ps.session = None
    BY <2>1, <2>7, <2>8 DEF ProcessPeerState, a
  <2>9. CASE ps.session # None /\ ps.session = s.session
    <3> DEFINE b == [a EXCEPT !.session_member_seen = TRUE]
               c == AdoptTimeline(b, ps.timeline)
    <3>1. r = AdoptStartStop(c, ps.stst)
      BY <2>1, <2>9 DEF ProcessPeerState, a
    <3>2. b \in States /\ Calm(a, b)
      BY <2>5 DEF States, Calm, SameGateways
    <3> HIDE DEF b
    <3>3. c \in States /\ Calm(b, c)
      <4>1. ps.timeline # None => Clamped(ps.timeline) \in Timeline
        BY <2>3, ClampedType
      <4> QED BY <3>2, <4>1 DEF AdoptTimeline, States, Calm, SameGateways
    <3> HIDE DEF c
    <3>4. Calm(c, r)
      BY <3>1, <3>3 DEF AdoptStartStop, States, Calm, SameGateways
    <3> QED BY <2>7, <3>2, <3>3, <3>4, CalmKeeps
  <2>10. CASE ps.session # None /\ ps.session # s.session
    <3> DEFINE b == CacheTimeline(a, ps.session, ps.timeline)
    <3>1. b \in States /\ Same(s, b) /\ Calm(a, b)
      BY <2>3, <2>5, <2>10 DEF CacheTimeline, States, Same, Calm, SameGateways
    <3>2. r \in (IF s.measured[ps.session] # None
                 THEN {EvaluateJoin(b, ps.session, s.measured[ps.session])}
                 ELSE QueueMeasurement(b, gw, ps.session, ps.mep))
      BY <2>1, <2>10 DEF ProcessPeerState, a
    <3> HIDE DEF b
    <3>3. Tidy(b) /\ Served(b)
      BY <2>7, <3>1, CalmKeeps
    <3>4. /\ b.measured = s.measured /\ b.session = s.session
          /\ ps.session \in Id /\ ps.session \in U /\ gw \in b.gateways
          /\ s.measured[ps.session] \in Int \cup {None}
      BY <2>2, <2>3, <2>5, <2>10, <3>1 DEF Same, States, Calm, SameGateways
    <3>5. CASE s.measured[ps.session] # None
      <4>1. Calm(b, r)
        BY <3>1, <3>2, <3>4, <3>5, JoinCalm
      <4> QED BY <3>3, <4>1, CalmKeeps
    <3>6. CASE s.measured[ps.session] = None
      <4>1. Good(b, U)
        BY <2>5, <3>1, FrameRest DEF Calm, SameGateways
      <4> QED BY <2>3, <2>10, <3>2, <3>3, <3>4, <3>6, <4>1, QueueMeasurementTidy
    <3> QED BY <3>5, <3>6
  <2> QED BY <2>8, <2>9, <2>10
<1> QED BY <1>1, <1>2

-----------------------------------------------------------------------------
(* The invariant of the actions. *)

QInv == Tidy(st) /\ Served(st)

LEMMA InitQInv == Init => QInv
BY DEF Init, NewPeer, QInv, Tidy, Served

LEMMA EnableQStep ==
    ASSUME IInv, QInv, DoEnable
    PROVE  QInv'
<1>1. PICK fresh \in Draws, count \in 0 .. (MaxGateways - st.next_gateway_id) :
        st' = Enable(st, fresh, count)
  BY DEF DoEnable
<1>2. st \in States /\ st.next_gateway_id \in Nat /\ st.gateways \subseteq Nat
      /\ count \in Nat
  BY SessionAssumption DEF IInv, Good, States
<1>3. /\ st'.peers = {} /\ st'.pending = <<>>
      /\ st'.gateways = st.gateways
            \cup (st.next_gateway_id .. (st.next_gateway_id + count - 1))
      /\ st'.next_gateway_id = st.next_gateway_id + count
  BY <1>1, <1>2 DEF Enable, States
<1>4. \A g \in st'.gateways : g < st'.next_gateway_id
  BY <1>2, <1>3 DEF QInv, Tidy
<1> QED BY <1>3, <1>4 DEF QInv, Tidy, Served

LEMMA SilentQStep ==
    ASSUME IInv, DoDisable \/ DoCrash
    PROVE  QInv'
<1>1. st \in States
  BY DEF IInv, Good
<1>2. st'.peers = {} /\ st'.pending = <<>> /\ st'.gateways = {}
  BY <1>1 DEF DoDisable, DoCrash, Disable, GoSilent, States
<1> QED BY <1>2 DEF QInv, Tidy, Served

LEMMA GossipQStep ==
    ASSUME IInv, QInv, PeerStateArrives \/ OwnAliveArrives
    PROVE  QInv'
<1>1. Nameable \subseteq Id /\ Good(st, Nameable) /\ Tidy(st) /\ Served(st)
  BY SessionAssumption DEF IInv, QInv, Nameable
<1>2. CASE PeerStateArrives
  <2>1. PICK gw \in st.gateways, n \in Remotes, ps \in PeerStates :
          \E s \in HandlePeerState(st, gw, n, ps) : Keep(s)
    BY <1>2 DEF PeerStateArrives
  <2>2. PICK s \in HandlePeerState(st, gw, n, ps) : Keep(s)
    BY <2>1
  <2>3. /\ ps.session \in Named \cup Missing /\ ps.timeline \in Timelines \cup Missing
        /\ ps.stst \in StartStops \cup Missing /\ ps.mep \in Endpoints \cup Missing
        /\ ps = [session |-> ps.session, timeline |-> ps.timeline, stst |-> ps.stst,
                 mep |-> ps.mep]
    BY DEF PeerStates
  <2>4. Named \subseteq Nameable
    BY DEF Named, Nameable
  <2>5. ps \in Payload /\ (ps.session # None => ps.session \in Nameable)
    BY <1>1, <2>3, <2>4, SessionAssumption DEF Payload
  <2>6. Tidy(s) /\ Served(s)
    BY <1>1, <2>2, <2>5, PeerStateTidy, SessionAssumption
  <2> QED BY <2>2, <2>6 DEF Keep, QInv
<1>3. CASE OwnAliveArrives
  <2>1. PICK gw \in st.gateways :
          \E s \in HandlePeerState(st, gw, former.node, former.state) : st' = s
    BY <1>3 DEF OwnAliveArrives
  <2>2. /\ former.node \in Id
        /\ former.state \in Payload /\ former.state.session \in Nameable
    BY <1>3, SessionAssumption DEF OwnAliveArrives, IInv, Payload, FormerState
  <2>3. PICK s \in HandlePeerState(st, gw, former.node, former.state) : st' = s
    BY <2>1
  <2>4. Tidy(s) /\ Served(s)
    BY <1>1, <2>2, <2>3, PeerStateTidy
  <2> QED BY <2>3, <2>4 DEF QInv
<1> QED BY <1>2, <1>3

LEMMA DepartureQStep ==
    ASSUME IInv, QInv, ByeByeArrives \/ HousekeepingRuns \/ GatewayCloses
    PROVE  QInv'
<1>1. st \in States /\ Good(st, Nameable) /\ Tidy(st) /\ Served(st)
  BY DEF IInv, Good, QInv
<1>2. ASSUME NEW s, NEW fresh, Settle(s, fresh)
      PROVE  st' = s
  BY <1>2 DEF Settle, Keep
<1>3. CASE ByeByeArrives
  <2>1. PICK gw \in st.gateways, n \in Remotes, fresh \in Draws :
          Settle(HandleByeBye(st, gw, n, fresh), fresh)
    BY <1>3 DEF ByeByeArrives
  <2>2. st' = HandleByeBye(st, gw, n, fresh)
    BY <1>2, <2>1
  <2> QED BY <1>1, <2>2, ByeByeTidy DEF QInv
<1>4. CASE HousekeepingRuns
  <2>1. PICK expired \in SUBSET st.peers, retry \in BOOLEAN, remeasure \in BOOLEAN :
          Housekeeping(expired, retry, remeasure)
    BY <1>4 DEF HousekeepingRuns
  <2>2. PICK fresh \in Draws :
          /\ PruneExpired(st, expired, fresh).node # None
          /\ \E s \in HousekeepingPass(st, expired, retry, remeasure, fresh) :
                Settle(s, fresh)
    BY <2>1 DEF Housekeeping
  <2>3. PICK s \in HousekeepingPass(st, expired, retry, remeasure, fresh) : st' = s
    BY <1>2, <2>2
  <2>4. retry => st.measurement # None
    BY <2>1 DEF Housekeeping
  <2>5. Tidy(s) /\ Served(s)
    BY <1>1, <2>2, <2>4, DrawsDrawable, HousekeepingTidy
  <2> QED BY <2>3, <2>5 DEF QInv
<1>5. CASE GatewayCloses
  <2>1. PICK gw \in st.gateways, fresh \in Draws :
          \E s \in CloseGateway(st, gw, fresh) : Settle(s, fresh)
    BY <1>5 DEF GatewayCloses
  <2>2. PICK s \in CloseGateway(st, gw, fresh) : st' = s
    BY <1>2, <2>1
  <2>3. Tidy(s) /\ Served(s)
    BY <1>1, <2>2, CloseTidy
  <2> QED BY <2>2, <2>3 DEF QInv
<1> QED BY <1>3, <1>4, <1>5

LEMMA PongQStep ==
    ASSUME IInv, QInv, PongArrives
    PROVE  QInv'
<1>1. PICK gw \in st.gateways, src \in Endpoints, sess \in Named, k \in Sampling,
           offset \in Offsets : st' = HandlePong(st, gw, src, sess, k, offset)
  BY DEF PongArrives, Keep
<1>2. k \in 0 .. 2 /\ offset \in Int /\ Good(st, Nameable) /\ Tidy(st) /\ Served(st)
  BY SessionAssumption DEF IInv, QInv
<1> QED BY <1>1, <1>2, PongTidy DEF QInv

LEMMA OpenQStep ==
    ASSUME IInv, QInv, GatewayOpens
    PROVE  QInv'
<1>1. st \in States /\ st' = OpenGateway(st)
  BY DEF IInv, Good, GatewayOpens, Keep
<1>2. /\ st'.gateways = st.gateways \cup {st.next_gateway_id}
      /\ st'.next_gateway_id = st.next_gateway_id + 1
      /\ st'.peers = st.peers /\ st'.pending = st.pending
      /\ st'.measurement = st.measurement
      /\ st.gateways \subseteq Nat /\ st.next_gateway_id \in Nat
  BY <1>1 DEF OpenGateway, States
<1>3. \A g \in st'.gateways : g < st'.next_gateway_id
  BY <1>2 DEF QInv, Tidy
<1> QED BY <1>2, <1>3 DEF QInv, Tidy, Served

LEMMA ApplicationQStep ==
    ASSUME IInv, QInv, SetsTempo \/ SetsPlaying \/ SetsStartStopSync
    PROVE  QInv'
<1>1. st \in States
  BY DEF IInv, Good
<1>2. Calm(st, st')
  BY <1>1 DEF SetsTempo, SetsPlaying, SetsStartStopSync, Keep, SetTempo, SetIsPlaying,
     EnableStartStopSync, Calm, SameGateways, States
<1> QED BY <1>2, CalmKeeps DEF QInv

LEMMA NextQStep ==
    ASSUME IInv, QInv, [Next]_vars
    PROVE  QInv'
<1>1. CASE UNCHANGED vars
  BY <1>1 DEF vars, QInv, Tidy, Served
<1>2. CASE DoEnable
  BY <1>2, EnableQStep
<1>3. CASE DoDisable \/ DoCrash
  BY <1>3, SilentQStep
<1>4. CASE PeerStateArrives \/ OwnAliveArrives
  BY <1>4, GossipQStep
<1>5. CASE ByeByeArrives \/ HousekeepingRuns \/ GatewayCloses
  BY <1>5, DepartureQStep
<1>6. CASE PongArrives
  BY <1>6, PongQStep
<1>7. CASE GatewayOpens
  BY <1>7, OpenQStep
<1>8. CASE SetsTempo \/ SetsPlaying \/ SetsStartStopSync
  BY <1>8, ApplicationQStep
<1> QED BY <1>1, <1>2, <1>3, <1>4, <1>5, <1>6, <1>7, <1>8 DEF Next

THEOREM QueueInvariance == Spec => []QInv
<1>1. Init => QInv
  BY InitQInv
<1>2. IInv /\ QInv /\ [Next]_vars => QInv'
  BY NextQStep
<1> QED BY <1>1, <1>2, Invariance, PTL DEF Spec

(* Nobody waits behind a free slot, for any number of founders, gateways   *)
(* and tasks: whatever ends a measurement starts the next, and the task it *)
(* starts is never one that start_next_measurement would drop.             *)
THEOREM QueueAlwaysServed == Spec => []QueueNeverStalls
<1>1. QInv => QueueNeverStalls
  BY DEF QInv, Served, QueueNeverStalls
<1> QED BY <1>1, QueueInvariance, PTL

(* Only a measurement in flight refers to a closed gateway, and no id is   *)
(* given twice (close_gateway, open_gateway).                              *)
THEOREM ClosedGatewaysAlwaysForgotten == Spec => []ClosedGatewaysForgotten
<1>1. QInv => ClosedGatewaysForgotten
  BY DEF QInv, Tidy, ClosedGatewaysForgotten
<1> QED BY <1>1, QueueInvariance, PTL

-----------------------------------------------------------------------------
(***************************************************************************)
(* Proofs about what a step of Session may do to the session, the timeline *)
(* and the start/stop state it holds: a step leaves all three, turns to    *)
(* another session, or raises the priority of what it replaces.            *)
(***************************************************************************)

(* The same session, and what is held of it. *)
Held(s, r) ==
    /\ r.session = s.session /\ r.node = s.node
    /\ r.timeline = s.timeline /\ r.held_stst = s.held_stst

(* The same also of the peer table. *)
Quiet(s, r) == Held(s, r) /\ r.peers = s.peers

(* Another session; founded only if nobody names the one that is left.     *)
Turned(s, r) ==
    /\ r.session # s.session
    /\ r.node # s.node => Members(r, s.session) = {}

(* The same session, with a timeline and start/stop state of greater       *)
(* priority or the ones held before.                                       *)
Raised(s, r) ==
    /\ r.session = s.session /\ r.node = s.node
    /\ r.timeline # s.timeline => r.timeline.beat_origin > s.timeline.beat_origin
    /\ r.held_stst # s.held_stst => r.held_stst.timestamp > s.held_stst.timestamp

Moves(s, r) == Raised(s, r) \/ Turned(s, r)

LEMMA QuietMoves ==
    ASSUME NEW s, NEW q, NEW r, Moves(s, q), Quiet(q, r)
    PROVE  Moves(s, r)
BY DEF Moves, Raised, Turned, Quiet, Held, Members

LEMMA HeldMoves ==
    ASSUME NEW s, NEW q, NEW r, Held(s, q), Moves(q, r)
    PROVE  Moves(s, r)
BY DEF Moves, Raised, Turned, Held, Members

LEMMA HeldRaised ==
    ASSUME NEW s, NEW r, Held(s, r)
    PROVE  Moves(s, r)
BY DEF Moves, Raised, Held

-----------------------------------------------------------------------------
(* Measurements. *)

LEMMA StartNextQuiet ==
    ASSUME NEW s \in States
    PROVE  Quiet(s, StartNextMeasurement(s))
BY DEF StartNextMeasurement, Quiet, Held, States

LEMMA EnqueueQuiet ==
    ASSUME NEW s \in States, NEW sess, NEW w, NEW purpose
    PROVE  Quiet(s, Enqueue(s, sess, w, purpose))
BY DEF Enqueue, Quiet, Held, States

LEMMA QueueMeasurementQuiet ==
    ASSUME NEW U, NEW s, Good(s, U), NEW gw \in Nat, NEW sess \in Id,
           NEW mep \in Endpoints \cup {None}, sess \in U,
           s.measured[sess] = None, sess # s.session,
           NEW r \in QueueMeasurement(s, gw, sess, mep)
    PROVE  Quiet(s, r)
<1>1. CASE r = s
  BY <1>1 DEF Quiet, Held
<1>2. CASE r # s
  <2>1. /\ ~HasTask(s, sess)
        /\ \E w \in GossipTargets(s, gw, sess, mep) :
              r = StartNextMeasurement(Enqueue(s, sess, w, "Join"))
    BY <1>2 DEF QueueMeasurement
  <2>2. PICK w \in GossipTargets(s, gw, sess, mep) :
           r = StartNextMeasurement(Enqueue(s, sess, w, "Join"))
    BY <2>1
  <2>3. s \in States
    BY DEF Good
  <2>4. w \in Where
    BY <2>3, ReachType DEF GossipTargets, Founders, Where
  <2>5. Enqueue(s, sess, w, "Join") \in States
    BY <2>1, <2>4, EnqueueGood DEF Good
  <2> QED BY <2>2, <2>3, <2>5, EnqueueQuiet, StartNextQuiet DEF Quiet, Held
<1> QED BY <1>1, <1>2

LEMMA QueueRemeasureQuiet ==
    ASSUME NEW s \in States, NEW r \in QueueRemeasure(s)
    PROVE  Quiet(s, r)
<1>1. CASE r = s
  BY <1>1 DEF Quiet, Held
<1>2. CASE r # s
  BY <1>2, EnqueueQuiet DEF QueueRemeasure
<1> QED BY <1>1, <1>2

LEMMA IdleQuiet ==
    ASSUME NEW s \in States
    PROVE  Idle(s) \in States /\ Quiet(s, Idle(s))
BY DEF Idle, States, Quiet, Held

LEMMA FailedQuiet ==
    ASSUME NEW s \in States, NEW task
    PROVE  Quiet(s, MeasurementFailed(s, task))
<1> DEFINE armed == s.remeasure_armed \/ task.purpose = "Remeasure"
           r == [s EXCEPT !.remeasure_armed = armed]
<1>1. armed \in BOOLEAN
  OBVIOUS
<1>2. r \in States /\ Quiet(s, r)
  <2> HIDE DEF armed
  <2> QED BY <1>1 DEF States, Quiet, Held
<1>3. MeasurementFailed(s, task) = StartNextMeasurement(r)
  BY DEF MeasurementFailed
<1> HIDE DEF r
<1> QED BY <1>2, <1>3, StartNextQuiet DEF Quiet, Held

LEMMA RetryQuiet ==
    ASSUME NEW s \in States
    PROVE  Quiet(s, RetryExpired(s))
<1>1. CASE s.measurement.timeouts >= MaxRetries
  <2>1. RetryExpired(s) = MeasurementFailed(Idle(s), s.measurement.task)
    BY <1>1 DEF RetryExpired, Idle
  <2> QED BY <2>1, IdleQuiet, FailedQuiet DEF Quiet, Held
<1>2. CASE ~(s.measurement.timeouts >= MaxRetries)
  BY <1>2 DEF RetryExpired, Quiet, Held, States
<1> QED BY <1>1, <1>2

LEMMA JoinMoves ==
    ASSUME NEW s \in States, NEW sess \in Id, NEW offset \in Int
    PROVE  LET r == EvaluateJoin(s, sess, offset)
           IN  r \in States /\ (r = s \/ Turned(s, r))
<1> DEFINE r == EvaluateJoin(s, sess, offset)
           j == AdoptSession(s, sess, offset)
<1>1. CASE r = s
  BY <1>1
<1>2. CASE r # s
  <2>1. sess # s.session /\ r = j
    BY <1>2 DEF EvaluateJoin
  <2>2. JoinedTimeline(s, sess) \in Timeline /\ DefaultStartStop \in StartStop
        /\ s.ghost_offset \in Int /\ s.session \in Id
    BY JoinedTimelineType DEF DefaultStartStop, StartStop, States
  <2>3. j \in States /\ j.session = sess /\ j.node = s.node
    BY <2>2 DEF AdoptSession, States
  <2> QED BY <2>1, <2>3 DEF Turned
<1> QED BY <1>1, <1>2

LEMMA SucceededMoves ==
    ASSUME NEW s \in States, NEW task \in Task, NEW offset \in Int
    PROVE  Moves(s, MeasurementSucceeded(s, task, offset))
<1> DEFINE k == [s EXCEPT !.measured[task.session] = offset]
           o == IF k.session = task.session THEN offset ELSE k.ghost_offset
           j == EvaluateJoin(k, task.session, offset)
           e == [k EXCEPT !.ghost_offset = o, !.remeasure_armed = TRUE]
<1>1. task.session \in Id /\ s.measured \in [Id -> Int \cup {None}]
  BY DEF States, Task
<1>2. k \in States /\ Quiet(s, k)
  BY <1>1 DEF States, Quiet, Held
<1>3. MeasurementSucceeded(s, task, offset)
        = StartNextMeasurement(IF task.purpose = "Join" THEN j ELSE e)
  BY <1>2 DEF MeasurementSucceeded, States
<1> HIDE DEF k
<1>4. Quiet(k, e) /\ e \in States
  <2>1. o \in Int
    BY <1>2 DEF States
  <2> HIDE DEF o
  <2> QED BY <1>2, <2>1 DEF States, Quiet, Held
<1>5. j \in States /\ (j = k \/ Turned(k, j))
  BY <1>1, <1>2, JoinMoves
<1> HIDE DEF j, e
<1>6. Moves(s, j) /\ Moves(s, e)
  BY <1>2, <1>4, <1>5, HeldMoves, HeldRaised DEF Quiet, Held, Moves
<1> QED BY <1>3, <1>4, <1>5, <1>6, StartNextQuiet, QuietMoves

LEMMA PongMoves ==
    ASSUME NEW s \in States, NEW gw, NEW src, NEW sess, NEW samples, NEW offset \in Int
    PROVE  Moves(s, HandlePong(s, gw, src, sess, samples, offset))
<1> DEFINE r == HandlePong(s, gw, src, sess, samples, offset)
           m == s.measurement
           total == m.samples + samples
<1>1. CASE r = s
  BY <1>1, HeldRaised DEF Held
<1>2. CASE r = MeasurementFailed(Idle(s), m.task)
  <2> HIDE DEF r
  <2> QED BY <1>2, IdleQuiet, FailedQuiet, HeldRaised DEF Quiet, Held, r
<1>3. CASE r = MeasurementSucceeded(Idle(s), m.task, offset) /\ m # None
  <2>1. m.task \in Task
    BY <1>3 DEF States, Measurement
  <2> HIDE DEF r, m
  <2> QED BY <1>3, <2>1, IdleQuiet, SucceededMoves, HeldMoves DEF Quiet, r
<1>4. CASE r = [s EXCEPT !.measurement.samples = total]
  BY <1>4, HeldRaised DEF States, Held
<1> QED BY <1>1, <1>2, <1>3, <1>4 DEF HandlePong, Idle

-----------------------------------------------------------------------------
(* Departures. *)

LEMMA LossMoves ==
    ASSUME NEW s \in States, NEW fresh, fresh.node # s.session
    PROVE  Moves(s, CheckSessionLoss(s, fresh))
<1> DEFINE r == CheckSessionLoss(s, fresh)
<1>1. CASE r = s
  BY <1>1, HeldRaised DEF Held
<1>2. CASE r # s
  <2>1. r = ResetSession(s, fresh) /\ Members(s, s.session) = {}
    BY <1>2 DEF CheckSessionLoss
  <2>2. r.session = fresh.node /\ r.peers = s.peers
    BY <2>1 DEF ResetSession, States
  <2> HIDE DEF r
  <2>3. Turned(s, r)
    BY <2>1, <2>2 DEF Turned, Members
  <2> QED BY <2>3 DEF Moves, r
<1> QED BY <1>1, <1>2

LEMMA RemovalMoves ==
    ASSUME NEW s \in States, NEW P \in SUBSET s.peers, NEW fresh, fresh.node # s.session
    PROVE  Moves(s, CheckSessionLoss([s EXCEPT !.peers = P], fresh))
<1> DEFINE q == [s EXCEPT !.peers = P]
           r == CheckSessionLoss(q, fresh)
<1>1. q \in States /\ Held(s, q)
  BY DEF States, Held
<1> HIDE DEF q
<1>2. Moves(q, r)
  BY <1>1, LossMoves DEF Held
<1> HIDE DEF r
<1>3. Moves(s, r)
  BY <1>1, <1>2, HeldMoves
<1> QED BY <1>3 DEF r, q

LEMMA PruneMoves ==
    ASSUME NEW s \in States, NEW expired, NEW fresh, fresh.node # s.session
    PROVE  Moves(s, PruneExpired(s, expired, fresh))
<1> DEFINE P == s.peers \ expired
<1>1. P \in SUBSET s.peers
  OBVIOUS
<1>2. \/ PruneExpired(s, expired, fresh) = s
      \/ PruneExpired(s, expired, fresh) = CheckSessionLoss([s EXCEPT !.peers = P], fresh)
  BY DEF PruneExpired
<1> HIDE DEF P
<1> QED BY <1>1, <1>2, RemovalMoves, HeldRaised DEF Held

LEMMA ByeByeMoves ==
    ASSUME NEW s \in States, NEW gw, NEW node, NEW fresh, fresh.node # s.session
    PROVE  Moves(s, HandleByeBye(s, gw, node, fresh))
<1> DEFINE P == {e \in s.peers : e.node # node \/ e.gateway # gw}
<1>1. P \in SUBSET s.peers
  OBVIOUS
<1>2. \/ HandleByeBye(s, gw, node, fresh) = s
      \/ HandleByeBye(s, gw, node, fresh) = CheckSessionLoss([s EXCEPT !.peers = P], fresh)
  BY DEF HandleByeBye
<1> HIDE DEF P
<1> QED BY <1>1, <1>2, RemovalMoves, HeldRaised DEF Held

LEMMA HousekeepingMoves ==
    ASSUME NEW U, NEW s, Good(s, U), NEW fresh, Drawable(fresh, U), fresh.node # s.session,
           NEW expired, NEW retry \in BOOLEAN, NEW remeasure \in BOOLEAN,
           retry => s.measurement # None,
           PruneExpired(s, expired, fresh).node # None,
           NEW r \in HousekeepingPass(s, expired, retry, remeasure, fresh)
    PROVE  Moves(s, r)
<1> DEFINE p == PruneExpired(s, expired, fresh)
           t == IF retry THEN RetryExpired(p) ELSE p
<1>1. PICK V : Good(p, V)
  BY PruneLands DEF Lands
<1>2. Moves(s, p) /\ p.measurement = s.measurement
  BY PruneMoves DEF Good, PruneExpired, CheckSessionLoss, ResetSession, States
<1>3. PICK q : /\ q \in QueueRemeasure(t) \cup {t}
               /\ r = StartNextMeasurement(q)
  BY DEF HousekeepingPass
<1> HIDE DEF p
<1>4. Good(t, V) /\ Quiet(p, t)
  BY <1>1, <1>2, RetryGood, RetryQuiet DEF Good, Quiet, Held
<1> HIDE DEF t
<1>5. Good(q, V) /\ Quiet(t, q)
  BY <1>3, <1>4, QueueRemeasureGood, QueueRemeasureQuiet DEF Good, Quiet, Held
<1>6. Quiet(q, r)
  BY <1>3, <1>5, StartNextQuiet DEF Good
<1> QED BY <1>2, <1>4, <1>5, <1>6, QuietMoves

LEMMA CloseMoves ==
    ASSUME NEW s \in States, NEW id, NEW fresh, fresh.node # s.session,
           NEW r \in CloseGateway(s, id, fresh)
    PROVE  Moves(s, r)
<1> DEFINE P == {e \in s.peers : e.gateway # id}
           G == s.gateways \ {id}
<1>1. PICK q \in Retained(s.pending, id) :
        r = CheckSessionLoss([s EXCEPT !.gateways = G, !.peers = P, !.pending = q], fresh)
  BY DEF CloseGateway
<1> DEFINE c == [s EXCEPT !.gateways = G, !.peers = P, !.pending = q]
<1>2. q \in Seq(Task)
  BY RetainedProp DEF States
<1>3. c \in States /\ Held(s, c)
  BY <1>2 DEF States, Held
<1>4. r = CheckSessionLoss(c, fresh)
  BY <1>1
<1> HIDE DEF c
<1>5. Moves(c, r)
  BY <1>3, <1>4, LossMoves DEF Held
<1> QED BY <1>3, <1>5, HeldMoves

-----------------------------------------------------------------------------
(* Gossip. *)

LEMMA PeerStateMoves ==
    ASSUME NEW U, NEW s, Good(s, U), NEW gw \in Nat, NEW node \in Id, NEW ps \in Payload,
           ps.session # None => ps.session \in U,
           NEW r \in HandlePeerState(s, gw, node, ps)
    PROVE  Moves(s, r)
<1>1. CASE r = s
  BY <1>1, HeldRaised DEF Held
<1>2. CASE r # s
  <2> DEFINE a == InsertPeer(s, gw, node, ps)
  <2>1. r \in ProcessPeerState(s, gw, node, ps)
    BY <1>2 DEF HandlePeerState
  <2>2. s \in States
    BY DEF Good
  <2>3. /\ ps.session \in Id \cup {None} /\ ps.mep \in Endpoints \cup {None}
        /\ ps.timeline \in Timeline \cup {None} /\ ps.stst \in StartStop \cup {None}
    BY DEF Payload
  <2>4. [node |-> node, gateway |-> gw, session |-> ps.session, mep |-> ps.mep] \in Entry
    BY <2>3 DEF Entry
  <2>5. /\ a \in States /\ Same(s, a) /\ Held(s, a)
        /\ a.pending = s.pending /\ a.measurement = s.measurement
        /\ a.gateways = s.gateways
    BY <2>2, <2>4 DEF InsertPeer, States, Same, Held
  <2> HIDE DEF a
  <2>6. Good(a, U)
    BY <2>5, FrameRest
  <2>7. CASE ps.session = None
    BY <2>1, <2>5, <2>7, HeldRaised DEF ProcessPeerState, a
  <2>8. CASE ps.session # None /\ ps.session = s.session
    <3> DEFINE b == [a EXCEPT !.session_member_seen = TRUE]
               c == AdoptTimeline(b, ps.timeline)
    <3>1. r = AdoptStartStop(c, ps.stst)
      BY <2>1, <2>8 DEF ProcessPeerState, a
    <3>2. b \in States /\ Held(s, b)
      BY <2>5 DEF States, Held
    <3> HIDE DEF b
    <3>3. /\ c \in States /\ Raised(s, c) /\ c.held_stst = s.held_stst
      <4>1. ps.timeline # None =>
              /\ Clamped(ps.timeline) \in Timeline
              /\ Clamped(ps.timeline).beat_origin = ps.timeline.beat_origin
        BY <2>3, ClampedType DEF Clamped, Timeline
      <4> QED BY <3>2, <4>1 DEF AdoptTimeline, States, Raised, Held
    <3> HIDE DEF c
    <3>4. Raised(c, r) /\ r.timeline = c.timeline
      BY <3>1, <3>3 DEF AdoptStartStop, States, Raised
    <3> QED BY <3>3, <3>4 DEF Moves, Raised
  <2>9. CASE ps.session # None /\ ps.session # s.session
    <3> DEFINE b == CacheTimeline(a, ps.session, ps.timeline)
    <3>1. /\ b \in States /\ Same(s, b) /\ Held(s, b)
          /\ b.pending = s.pending /\ b.measurement = s.measurement
          /\ b.gateways = s.gateways
      BY <2>3, <2>5, <2>9 DEF CacheTimeline, States, Same, Held
    <3>2. r \in (IF s.measured[ps.session] # None
                 THEN {EvaluateJoin(b, ps.session, s.measured[ps.session])}
                 ELSE QueueMeasurement(b, gw, ps.session, ps.mep))
      BY <2>1, <2>9 DEF ProcessPeerState, a
    <3> HIDE DEF b
    <3>3. /\ b.measured = s.measured /\ b.session = s.session
          /\ ps.session \in Id /\ ps.session \in U
          /\ s.measured[ps.session] \in Int \cup {None}
      BY <2>2, <2>3, <2>9, <3>1 DEF Same, States
    <3>4. CASE s.measured[ps.session] # None
      <4>1. r = b \/ Turned(b, r)
        BY <3>1, <3>2, <3>3, <3>4, JoinMoves
      <4> QED BY <3>1, <4>1, HeldRaised, HeldMoves DEF Moves
    <3>5. CASE s.measured[ps.session] = None
      <4>1. Good(b, U)
        BY <3>1, FrameRest
      <4>2. Quiet(b, r)
        BY <2>3, <2>9, <3>2, <3>3, <3>5, <4>1, QueueMeasurementQuiet
      <4> QED BY <3>1, <4>2, HeldRaised, QuietMoves
    <3> QED BY <3>4, <3>5
  <2> QED BY <2>7, <2>8, <2>9
<1> QED BY <1>1, <1>2

-----------------------------------------------------------------------------
(* The actions. *)

LEMMA DrawnElsewhere ==
    ASSUME IInv, NEW fresh \in Draws
    PROVE  fresh.node # st.session
<1>1. fresh.node \in (Id \ Nameable) \cup {None}
  BY DrawsDrawable DEF Drawable
<1> QED BY <1>1, NoneNoId DEF IInv, Good, States

LEMMA DepartureMoves ==
    ASSUME IInv, ByeByeArrives \/ HousekeepingRuns \/ GatewayCloses
    PROVE  Moves(st, st')
<1>1. st \in States /\ Good(st, Nameable)
  BY DEF IInv, Good
<1>2. ASSUME NEW s, NEW fresh, Settle(s, fresh)
      PROVE  st' = s
  BY <1>2 DEF Settle, Keep
<1>3. CASE ByeByeArrives
  <2>1. PICK gw \in st.gateways, n \in Remotes, fresh \in Draws :
          Settle(HandleByeBye(st, gw, n, fresh), fresh)
    BY <1>3 DEF ByeByeArrives
  <2>2. st' = HandleByeBye(st, gw, n, fresh)
    BY <1>2, <2>1
  <2> QED BY <1>1, <2>2, DrawnElsewhere, ByeByeMoves
<1>4. CASE HousekeepingRuns
  <2>1. PICK expired \in SUBSET st.peers, retry \in BOOLEAN, remeasure \in BOOLEAN :
          Housekeeping(expired, retry, remeasure)
    BY <1>4 DEF HousekeepingRuns
  <2>2. PICK fresh \in Draws :
          /\ PruneExpired(st, expired, fresh).node # None
          /\ \E s \in HousekeepingPass(st, expired, retry, remeasure, fresh) :
                Settle(s, fresh)
    BY <2>1 DEF Housekeeping
  <2>3. PICK s \in HousekeepingPass(st, expired, retry, remeasure, fresh) : st' = s
    BY <1>2, <2>2
  <2>4. retry => st.measurement # None
    BY <2>1 DEF Housekeeping
  <2> QED BY <1>1, <2>2, <2>3, <2>4, DrawsDrawable, DrawnElsewhere, HousekeepingMoves
<1>5. CASE GatewayCloses
  <2>1. PICK gw \in st.gateways, fresh \in Draws :
          \E s \in CloseGateway(st, gw, fresh) : Settle(s, fresh)
    BY <1>5 DEF GatewayCloses
  <2>2. PICK s \in CloseGateway(st, gw, fresh) : st' = s
    BY <1>2, <2>1
  <2> QED BY <1>1, <2>2, DrawnElsewhere, CloseMoves
<1> QED BY <1>3, <1>4, <1>5

LEMMA GossipMoves ==
    ASSUME IInv, PeerStateArrives \/ OwnAliveArrives
    PROVE  Moves(st, st')
<1>1. st.gateways \subseteq Nat /\ Nameable \subseteq Id /\ Good(st, Nameable)
  BY SessionAssumption DEF IInv, Good, States, Nameable
<1>2. CASE PeerStateArrives
  <2>1. PICK gw \in st.gateways, n \in Remotes, ps \in PeerStates :
          \E s \in HandlePeerState(st, gw, n, ps) : Keep(s)
    BY <1>2 DEF PeerStateArrives
  <2>2. PICK s \in HandlePeerState(st, gw, n, ps) : Keep(s)
    BY <2>1
  <2>3. /\ ps.session \in Named \cup Missing /\ ps.timeline \in Timelines \cup Missing
        /\ ps.stst \in StartStops \cup Missing /\ ps.mep \in Endpoints \cup Missing
        /\ ps = [session |-> ps.session, timeline |-> ps.timeline, stst |-> ps.stst,
                 mep |-> ps.mep]
    BY DEF PeerStates
  <2>4. Named \subseteq Nameable
    BY DEF Named, Nameable
  <2>5. ps \in Payload /\ (ps.session # None => ps.session \in Nameable)
    BY <1>1, <2>3, <2>4, SessionAssumption DEF Payload
  <2>6. Moves(st, s)
    BY <1>1, <2>2, <2>5, PeerStateMoves, SessionAssumption
  <2> QED BY <2>2, <2>6 DEF Keep
<1>3. CASE OwnAliveArrives
  <2>1. PICK gw \in st.gateways :
          \E s \in HandlePeerState(st, gw, former.node, former.state) : st' = s
    BY <1>3 DEF OwnAliveArrives
  <2>2. /\ former.node \in Id
        /\ former.state \in Payload /\ former.state.session \in Nameable
    BY <1>3, SessionAssumption DEF OwnAliveArrives, IInv, Payload, FormerState
  <2> QED BY <1>1, <2>1, <2>2, PeerStateMoves
<1> QED BY <1>2, <1>3

(* Silence and gateways that open leave all that is held.                  *)
LEMMA SilentHeld ==
    ASSUME IInv, DoDisable \/ DoCrash \/ GatewayOpens
    PROVE  Held(st, st')
<1>1. st \in States
  BY DEF IInv, Good
<1>2. CASE DoDisable
  BY <1>1, <1>2 DEF DoDisable, Disable, GoSilent, States, Held
<1>3. CASE DoCrash
  BY <1>1, <1>3 DEF DoCrash, Keep, GoSilent, States, Held
<1>4. CASE GatewayOpens
  BY <1>1, <1>4 DEF GatewayOpens, Keep, OpenGateway, States, Held
<1> QED BY <1>2, <1>3, <1>4

(* The application's calls raise the priority of what they set.            *)
LEMMA ApplicationMoves ==
    ASSUME IInv, SetsTempo \/ SetsPlaying \/ SetsStartStopSync
    PROVE  Raised(st, st')
<1>1. /\ st \in States /\ st.timeline \in Timeline /\ st.held_stst \in StartStop
      /\ st.ghost_offset \in Int
  BY DEF IInv, Good, States
<1>2. CASE SetsTempo
  <2>1. PICK t \in Tempos, b \in Beats : st' = SetTempo(st, t, b)
    BY <1>2 DEF SetsTempo, Keep
  <2> DEFINE tl == [tempo |-> ClampTempo(t),
                    beat_origin |-> Larger(b, st.timeline.beat_origin + 1)]
  <2>2. b \in Int /\ st.timeline.beat_origin \in Int
    BY <1>1, SessionAssumption DEF Timeline
  <2>3. tl.beat_origin > st.timeline.beat_origin
    BY <2>2 DEF Larger
  <2>4. st' = [st EXCEPT !.timeline = tl]
    BY <1>1, <2>1 DEF SetTempo, States
  <2> HIDE DEF tl
  <2> QED BY <1>1, <2>3, <2>4 DEF States, Raised
<1>3. CASE SetsPlaying
  <2>1. PICK p \in BOOLEAN, b \in Beats, c \in Clocks :
            st' = SetIsPlaying(st, p, b, c + st.ghost_offset)
    BY <1>3 DEF SetsPlaying, Keep
  <2> DEFINE stamp == Larger(c + st.ghost_offset, st.held_stst.timestamp + 1)
             h == [is_playing |-> p, beats |-> b, timestamp |-> stamp]
  <2>2. c + st.ghost_offset \in Int /\ st.held_stst.timestamp \in Int
    BY <1>1, SessionAssumption DEF StartStop
  <2>3. h.timestamp > st.held_stst.timestamp
    BY <2>2 DEF Larger
  <2>4. st' = [st EXCEPT !.app_playing = p,
                         !.held_stst = IF st.sst_sync THEN h ELSE st.held_stst]
    BY <1>1, <2>1 DEF SetIsPlaying, States
  <2> HIDE DEF h
  <2> QED BY <1>1, <2>3, <2>4 DEF States, Raised
<1>4. CASE SetsStartStopSync
  BY <1>1, <1>4 DEF SetsStartStopSync, Keep, EnableStartStopSync, States, Raised
<1> QED BY <1>2, <1>3, <1>4

LEMMA StepMoves ==
    ASSUME IInv, [Next]_vars
    PROVE  Moves(st, st') \/ Enters(st, st')
<1>1. CASE UNCHANGED vars
  BY <1>1, HeldRaised DEF vars, Held
<1>2. CASE DoEnable
  BY <1>2, EnableStep
<1>3. CASE DoDisable \/ DoCrash \/ GatewayOpens
  BY <1>3, SilentHeld, HeldRaised
<1>4. CASE PeerStateArrives \/ OwnAliveArrives
  BY <1>4, GossipMoves
<1>5. CASE ByeByeArrives \/ HousekeepingRuns \/ GatewayCloses
  BY <1>5, DepartureMoves
<1>6. CASE PongArrives
  <2>1. PICK gw \in st.gateways, src \in Endpoints, sess \in Named, k \in Sampling,
             offset \in Offsets : st' = HandlePong(st, gw, src, sess, k, offset)
    BY <1>6 DEF PongArrives, Keep
  <2>2. offset \in Int /\ st \in States
    BY SessionAssumption DEF IInv, Good
  <2> QED BY <2>1, <2>2, PongMoves
<1>7. CASE SetsTempo \/ SetsPlaying \/ SetsStartStopSync
  BY <1>7, ApplicationMoves DEF Moves
<1> QED BY <1>1, <1>2, <1>3, <1>4, <1>5, <1>6, <1>7 DEF Next

(* Only greater priority replaces the timeline or the start/stop state of  *)
(* a session (process_peer_state, set_tempo, set_is_playing).              *)
THEOREM AlwaysPriorityWithinSession == Spec => PriorityWithinSession
<1>1. IInv /\ [Next]_vars =>
        [st'.session = st.session =>
           /\ st'.timeline # st.timeline =>
                st'.timeline.beat_origin > st.timeline.beat_origin
           /\ st'.held_stst # st.held_stst =>
                st'.held_stst.timestamp > st.held_stst.timestamp]_vars
  BY StepMoves DEF Moves, Raised, Turned, Enters
<1> QED BY <1>1, Invariance, PTL DEF Spec, PriorityWithinSession

(* Whichever of the three resets a peer, a departure heard, an expiry or a *)
(* closed gateway, no entry left names the session abandoned               *)
(* (check_session_loss).                                                   *)
THEOREM ResetsAlwaysLeaveNobody == Spec => ResetsLeaveNobody
<1>1. IInv /\ [Next]_vars =>
        [st.enabled /\ st'.enabled /\ st'.node # st.node
           => Members(st', st.session) = {}]_vars
  BY StepMoves DEF Moves, Raised, Turned, Enters
<1> QED BY <1>1, Invariance, PTL DEF Spec, ResetsLeaveNobody

-----------------------------------------------------------------------------
(***************************************************************************)
(* Proofs about the measurement in flight: nothing takes back what it has  *)
(* come to, and what its end leaves behind is about other sessions.        *)
(***************************************************************************)

(* The measurement s has in flight is in flight in r, as far or further.   *)
GoesOn(s, r) ==
    /\ r.measurement # None /\ r.measurement.task = s.measurement.task
    /\ r.measurement.samples >= s.measurement.samples
    /\ r.measurement.timeouts >= s.measurement.timeouts

Further(s, r) ==
    r.measurement.samples + r.measurement.timeouts
      > s.measurement.samples + s.measurement.timeouts

(* It does, unless its session is left without a task. *)
Onward(s, r) ==
    s.measurement # None /\ HasTask(r, s.measurement.task.session) => GoesOn(s, r)

Advances(s, r) ==
    s.measurement # None /\ HasTask(r, s.measurement.task.session)
      => GoesOn(s, r) /\ Further(s, r)

LEMMA KeptOnward ==
    ASSUME NEW s \in States, NEW r, s.measurement # None => r.measurement = s.measurement
    PROVE  Onward(s, r)
<1> SUFFICES ASSUME s.measurement # None PROVE GoesOn(s, r)
  BY DEF Onward
<1>1. s.measurement.samples \in Int /\ s.measurement.timeouts \in Int
  BY EngineAssumption DEF States, Measurement
<1> QED BY <1>1 DEF GoesOn

-----------------------------------------------------------------------------
(* A session without a task gets none by what follows a measurement.       *)

LEMMA StartNextWithout ==
    ASSUME NEW s \in States, NEW x, ~HasTask(s, x)
    PROVE  ~HasTask(StartNextMeasurement(s), x)
<1> DEFINE task == Head(s.pending)
           popped == [s EXCEPT !.pending = Tail(@)]
           flight == [task |-> task, samples |-> 0, timeouts |-> 0]
           started == [popped EXCEPT !.measurement = flight]
<1>1. CASE s.measurement # None \/ s.pending = <<>>
  BY <1>1 DEF StartNextMeasurement
<1>2. CASE ~(s.measurement # None \/ s.pending = <<>>)
  <2>1. /\ task.session # x
        /\ \A i \in DOMAIN Tail(s.pending) : Tail(s.pending)[i].session # x
    <3>1. s.pending \in Seq(Task) /\ s.pending # <<>>
      BY <1>2 DEF States
    <3>2. /\ 1 \in DOMAIN s.pending /\ task = s.pending[1]
          /\ \A i \in DOMAIN Tail(s.pending) :
                /\ i + 1 \in DOMAIN s.pending
                /\ Tail(s.pending)[i] = s.pending[i + 1]
      BY <3>1
    <3> QED BY <3>2 DEF HasTask
  <2>2. popped.pending = Tail(s.pending) /\ popped.measurement = None
    BY <1>2 DEF States
  <2>3. started.pending = Tail(s.pending) /\ started.measurement = flight
    BY <1>2 DEF States
  <2>4. flight.task = task
    OBVIOUS
  <2>5. StartNextMeasurement(s) \in {popped, started}
    BY <1>2 DEF StartNextMeasurement
  <2> HIDE DEF popped, started, flight, task
  <2>6. ~HasTask(popped, x) /\ ~HasTask(started, x)
    BY <2>1, <2>2, <2>3, <2>4 DEF HasTask
  <2> QED BY <2>5, <2>6
<1> QED BY <1>1, <1>2

LEMMA EnqueueWithout ==
    ASSUME NEW s \in States, NEW x, ~HasTask(s, x), NEW sess, sess # x, NEW w, NEW purpose
    PROVE  ~HasTask(Enqueue(s, sess, w, purpose), x)
<1> DEFINE task == [session |-> sess, target |-> w.target, gateway |-> w.gateway,
                    purpose |-> purpose]
           r == Enqueue(s, sess, w, purpose)
<1>1. s.pending \in Seq(Task)
  BY DEF States
<1>2. r.measurement = s.measurement /\ r.pending = Append(s.pending, task)
  BY DEF Enqueue, States
<1>3. \A i \in DOMAIN Append(s.pending, task) :
         \/ i \in DOMAIN s.pending /\ Append(s.pending, task)[i] = s.pending[i]
         \/ Append(s.pending, task)[i] = task
  BY <1>1
<1>4. task.session = sess
  OBVIOUS
<1> HIDE DEF task, r
<1>5. ~HasTask(r, x)
  BY <1>2, <1>3, <1>4 DEF HasTask
<1> QED BY <1>5 DEF r

(* An invariant state with its measurement taken away. *)
LEMMA IdleWithout ==
    ASSUME NEW U, NEW s, Good(s, U), s.measurement # None
    PROVE  Idle(s) \in States /\ ~HasTask(Idle(s), s.measurement.task.session)
BY IdleGood DEF Good, GoodFlight, HasTask

LEMMA FailedWithout ==
    ASSUME NEW s \in States, NEW x, ~HasTask(s, x), NEW task
    PROVE  ~HasTask(MeasurementFailed(s, task), x)
<1> DEFINE armed == s.remeasure_armed \/ task.purpose = "Remeasure"
           r == [s EXCEPT !.remeasure_armed = armed]
<1>1. armed \in BOOLEAN
  OBVIOUS
<1>2. r \in States /\ r.pending = s.pending /\ r.measurement = s.measurement
  <2> HIDE DEF armed
  <2> QED BY <1>1 DEF States
<1>3. MeasurementFailed(s, task) = StartNextMeasurement(r)
  BY DEF MeasurementFailed
<1> HIDE DEF r
<1>4. ~HasTask(r, x)
  BY <1>2 DEF HasTask
<1> QED BY <1>2, <1>3, <1>4, StartNextWithout

LEMMA SucceededWithout ==
    ASSUME NEW s \in States, NEW x, ~HasTask(s, x), NEW task \in Task, NEW offset \in Int
    PROVE  ~HasTask(MeasurementSucceeded(s, task, offset), x)
<1> DEFINE k == [s EXCEPT !.measured[task.session] = offset]
           o == IF k.session = task.session THEN offset ELSE k.ghost_offset
           j == EvaluateJoin(k, task.session, offset)
           e == [k EXCEPT !.ghost_offset = o, !.remeasure_armed = TRUE]
<1>1. task.session \in Id /\ s.measured \in [Id -> Int \cup {None}]
  BY DEF States, Task
<1>2. k \in States /\ k.pending = s.pending /\ k.measurement = s.measurement
  BY <1>1 DEF States
<1>3. MeasurementSucceeded(s, task, offset)
        = StartNextMeasurement(IF task.purpose = "Join" THEN j ELSE e)
  BY <1>2 DEF MeasurementSucceeded, States
<1> HIDE DEF k
<1>4. e \in States /\ e.pending = k.pending /\ e.measurement = k.measurement
  <2>1. o \in Int
    BY <1>2 DEF States
  <2> HIDE DEF o
  <2> QED BY <1>2, <2>1 DEF States
<1>5. j \in States
  BY <1>1, <1>2, JoinMoves
<1>6. j.pending = k.pending /\ j.measurement = k.measurement
  BY <1>2 DEF EvaluateJoin, AdoptSession, States
<1> HIDE DEF j, e
<1>7. ~HasTask(j, x) /\ ~HasTask(e, x)
  BY <1>2, <1>4, <1>6 DEF HasTask
<1> QED BY <1>3, <1>4, <1>5, <1>7, StartNextWithout

-----------------------------------------------------------------------------
(* Pongs and the retry timer. *)

LEMMA PongOnward ==
    ASSUME NEW U, NEW s, Good(s, U), NEW gw, NEW src, NEW sess, NEW k \in 0 .. 2,
           NEW offset \in Int
    PROVE  LET r == HandlePong(s, gw, src, sess, k, offset)
               task == s.measurement.task
           IN  /\ Onward(s, r)
               /\ s.enabled /\ gw = task.gateway /\ src = task.target /\ k > 0
                    => Advances(s, r)
<1> DEFINE r == HandlePong(s, gw, src, sess, k, offset)
           m == s.measurement
           total == m.samples + k
           counted == [s EXCEPT !.measurement.samples = total]
<1>1. s \in States
  BY DEF Good
<1>2. CASE r = s /\ (~s.enabled \/ m = None \/ m.task.gateway # gw \/ m.task.target # src)
  BY <1>1, <1>2, KeptOnward DEF Advances
<1>3. CASE m # None /\ r = MeasurementFailed(Idle(s), m.task)
  <2> HIDE DEF r
  <2>1. ~HasTask(r, m.task.session)
    BY <1>3, IdleWithout, FailedWithout
  <2> QED BY <2>1 DEF Onward, Advances, r
<1>4. CASE m # None /\ r = MeasurementSucceeded(Idle(s), m.task, offset)
  <2>1. m.task \in Task
    BY <1>1, <1>4 DEF States, Measurement
  <2> HIDE DEF r
  <2>2. ~HasTask(r, m.task.session)
    BY <1>4, <2>1, IdleWithout, SucceededWithout
  <2> QED BY <2>2 DEF Onward, Advances, r
<1>5. CASE m # None /\ ~(total > SamplesRequired) /\ r = counted
  <2>1. m \in Measurement /\ m.samples \in Int /\ m.timeouts \in Int
    BY <1>1, <1>5, EngineAssumption DEF States, Measurement
  <2>2. /\ r.measurement # None /\ r.measurement.task = m.task
        /\ r.measurement.samples = total /\ r.measurement.timeouts = m.timeouts
    <3>1. r.measurement = [m EXCEPT !.samples = total]
      BY <1>1, <1>5 DEF States
    <3>2. /\ [m EXCEPT !.samples = total].task = m.task
          /\ [m EXCEPT !.samples = total].samples = total
          /\ [m EXCEPT !.samples = total].timeouts = m.timeouts
      BY <2>1 DEF Measurement
    <3>3. [m EXCEPT !.samples = total] \in Measurement
      BY <1>5, <2>1, EngineAssumption DEF Measurement
    <3> QED BY <3>1, <3>2, <3>3, MeasurementAssumption
  <2> HIDE DEF r
  <2> QED BY <2>1, <2>2 DEF Onward, Advances, GoesOn, Further, r
<1> QED BY <1>2, <1>3, <1>4, <1>5 DEF HandlePong, Idle

LEMMA RetryAdvances ==
    ASSUME NEW U, NEW s, Good(s, U), s.measurement # None
    PROVE  LET r == RetryExpired(s)
               m == s.measurement
           IN  \/ m.timeouts >= MaxRetries /\ ~HasTask(r, m.task.session)
               \/ /\ m.timeouts < MaxRetries
                  /\ GoesOn(s, r) /\ Further(s, r)
<1> DEFINE r == RetryExpired(s)
           m == s.measurement
<1>1. s \in States /\ m \in Measurement
  BY DEF Good, States
<1>2. m.samples \in Int /\ m.timeouts \in Int /\ MaxRetries \in Int
  BY <1>1, EngineAssumption DEF Measurement
<1>3. CASE m.timeouts >= MaxRetries
  <2>1. r = MeasurementFailed(Idle(s), m.task)
    BY <1>3 DEF RetryExpired, Idle
  <2> HIDE DEF r
  <2>2. ~HasTask(r, m.task.session)
    BY <2>1, IdleWithout, FailedWithout
  <2> QED BY <1>3, <2>2 DEF r
<1>4. CASE ~(m.timeouts >= MaxRetries)
  <2> DEFINE n == [m EXCEPT !.timeouts = @ + 1]
  <2>1. r.measurement = n
    BY <1>1, <1>4 DEF RetryExpired, States
  <2>2. n \in Measurement /\ n.task = m.task /\ n.samples = m.samples
        /\ n.timeouts = m.timeouts + 1
    BY <1>1, <1>4, EngineAssumption DEF Measurement
  <2> HIDE DEF r, n
  <2>3. GoesOn(s, r) /\ Further(s, r)
    BY <1>2, <2>1, <2>2, MeasurementAssumption DEF GoesOn, Further
  <2> QED BY <1>2, <1>4, <2>3 DEF r
<1> QED BY <1>3, <1>4

(* A pass in which the retry timer is due advances the measurement. The    *)
(* session it was about is not queued again in the same pass: a joining    *)
(* measurement is of another session than the one in use, and that of the  *)
(* one in use pushes the re-measure timer when it fails.                   *)
LEMMA HousekeepingOnward ==
    ASSUME NEW U, NEW s, Good(s, U), NEW fresh, Drawable(fresh, U), NEW expired,
           NEW retry \in BOOLEAN, NEW remeasure \in BOOLEAN,
           retry => s.measurement # None,
           PruneExpired(s, expired, fresh).node # None,
           NEW r \in HousekeepingPass(s, expired, retry, remeasure, fresh)
    PROVE  Onward(s, r) /\ (retry => Advances(s, r))
<1> DEFINE p == PruneExpired(s, expired, fresh)
           t == IF retry THEN RetryExpired(p) ELSE p
           m == s.measurement
           x == m.task.session
           failed == retry /\ p.measurement.timeouts >= MaxRetries
                           /\ p.measurement.task.purpose = "Remeasure"
<1>1. PICK V : Good(p, V)
  BY PruneLands DEF Lands
<1>2. p.measurement = m
  BY DEF PruneExpired, CheckSessionLoss, ResetSession, Good, States
<1>3. PICK q : /\ q \in (IF remeasure /\ t.remeasure_armed /\ ~failed
                         THEN QueueRemeasure(t) ELSE {t})
               /\ r = StartNextMeasurement(q)
  BY DEF HousekeepingPass
<1>4. s \in States /\ p \in States
  BY <1>1 DEF Good
<1> HIDE DEF p
<1>5. Good(t, V) /\ t.session = p.session
  BY <1>1, <1>2, RetryGood DEF Same
<1>6. \/ q = t
      \/ /\ ~failed
         /\ q \in QueueRemeasure(t)
         /\ \E w, purpose : q = Enqueue(t, t.session, w, purpose)
  BY <1>3 DEF QueueRemeasure
<1>7. q.measurement = t.measurement /\ q \in States
  BY <1>5, <1>6, QueueRemeasureGood DEF Enqueue, Good, States
<1>8. t.measurement # None => r.measurement = t.measurement
  BY <1>3, <1>7 DEF StartNextMeasurement
<1>9. CASE ~retry
  <2>1. m # None => r.measurement = m
    BY <1>2, <1>8, <1>9
  <2> QED BY <1>4, <1>9, <2>1, KeptOnward
<1>10. CASE retry
  <2>1. m # None /\ t = RetryExpired(p) /\ p.measurement # None
    BY <1>2, <1>10
  <2>2. CASE p.measurement.timeouts < MaxRetries /\ GoesOn(p, t) /\ Further(p, t)
    <3> HIDE DEF t
    <3>1. GoesOn(s, r) /\ Further(s, r)
      BY <1>2, <1>8, <2>2 DEF GoesOn, Further
    <3> QED BY <3>1 DEF Onward, Advances
  <2>3. CASE p.measurement.timeouts >= MaxRetries /\ ~HasTask(t, x)
    <3>1. ~failed => t.session # x
      <4>1. GoodTask(p, m.task, V) /\ m.task.purpose \in {"Join", "Remeasure"}
        BY <1>1, <1>2, <1>4, <2>1 DEF Good, GoodFlight, States, Measurement, Task
      <4> QED BY <1>2, <1>5, <1>10, <2>3, <4>1 DEF GoodTask
    <3> HIDE DEF t, failed
    <3>2. ~HasTask(q, x)
      BY <1>5, <1>6, <2>3, <3>1, EnqueueWithout DEF Good
    <3>3. ~HasTask(r, x)
      BY <1>3, <1>7, <3>2, StartNextWithout
    <3> QED BY <3>3 DEF Onward, Advances
  <2> QED BY <1>1, <1>2, <2>1, <2>2, <2>3, RetryAdvances
<1> QED BY <1>9, <1>10

-----------------------------------------------------------------------------
(* Everything else leaves a measurement in flight alone, or silences the   *)
(* peer.                                                                   *)

LEMMA GossipKept ==
    ASSUME NEW s \in States, s.measurement # None, NEW gw, NEW node, NEW ps,
           NEW r \in HandlePeerState(s, gw, node, ps)
    PROVE  r.measurement = s.measurement
<1> DEFINE a == InsertPeer(s, gw, node, ps)
           b == CacheTimeline(a, ps.session, ps.timeline)
           c == AdoptTimeline([a EXCEPT !.session_member_seen = TRUE], ps.timeline)
<1>1. CASE r = s
  BY <1>1
<1>2. CASE r # s
  <2>1. r \in ProcessPeerState(s, gw, node, ps)
    BY <1>2 DEF HandlePeerState
  <2>2. /\ a.measurement = s.measurement /\ b.measurement = s.measurement
        /\ c.measurement = s.measurement
    BY DEF InsertPeer, CacheTimeline, AdoptTimeline, States
  <2>3. CASE ps.session = None
    BY <2>1, <2>2, <2>3 DEF ProcessPeerState
  <2>4. CASE ps.session # None /\ ps.session = s.session
    <3>1. r = AdoptStartStop(c, ps.stst)
      BY <2>1, <2>4 DEF ProcessPeerState
    <3> HIDE DEF c
    <3> QED BY <2>2, <3>1 DEF AdoptStartStop
  <2>5. CASE ps.session # None /\ ps.session # s.session
    <3>1. \/ r = EvaluateJoin(b, ps.session, s.measured[ps.session])
          \/ r \in QueueMeasurement(b, gw, ps.session, ps.mep)
      BY <2>1, <2>5 DEF ProcessPeerState
    <3> HIDE DEF b
    <3>2. CASE r = EvaluateJoin(b, ps.session, s.measured[ps.session])
      BY <2>2, <3>2 DEF EvaluateJoin, AdoptSession
    <3>3. CASE r \in QueueMeasurement(b, gw, ps.session, ps.mep)
      <4>1. \/ r = b
            \/ \E w : r = StartNextMeasurement(Enqueue(b, ps.session, w, "Join"))
        BY <3>3 DEF QueueMeasurement
      <4>2. ASSUME NEW w
            PROVE  Enqueue(b, ps.session, w, "Join").measurement = b.measurement
        BY DEF Enqueue
      <4>3. ASSUME NEW q, q.measurement # None
            PROVE  StartNextMeasurement(q) = q
        BY <4>3 DEF StartNextMeasurement
      <4> QED BY <2>2, <4>1, <4>2, <4>3
    <3> QED BY <3>1, <3>2, <3>3
  <2> QED BY <2>3, <2>4, <2>5
<1> QED BY <1>1, <1>2

LEMMA RestKept ==
    ASSUME IInv,
           \/ UNCHANGED vars
           \/ PeerStateArrives \/ OwnAliveArrives \/ ByeByeArrives
           \/ GatewayOpens \/ GatewayCloses
           \/ SetsTempo \/ SetsPlaying \/ SetsStartStopSync
    PROVE  st.measurement # None => st'.measurement = st.measurement
<1>1. st \in States
  BY DEF IInv, Good
<1>2. ASSUME NEW s, NEW fresh, Settle(s, fresh)
      PROVE  st' = s
  BY <1>2 DEF Settle, Keep
<1>3. CASE UNCHANGED vars
  BY <1>3 DEF vars
<1>4. CASE PeerStateArrives \/ OwnAliveArrives
  BY <1>1, <1>4, GossipKept DEF PeerStateArrives, OwnAliveArrives, Keep
<1>5. CASE ByeByeArrives
  <2>1. PICK gw, n, fresh : st' = HandleByeBye(st, gw, n, fresh)
    BY <1>2, <1>5 DEF ByeByeArrives
  <2> QED BY <1>1, <2>1 DEF HandleByeBye, CheckSessionLoss, ResetSession, States
<1>6. CASE GatewayOpens
  BY <1>1, <1>6 DEF GatewayOpens, Keep, OpenGateway, States
<1>7. CASE GatewayCloses
  <2>1. PICK gw, fresh : \E s \in CloseGateway(st, gw, fresh) : st' = s
    BY <1>2, <1>7 DEF GatewayCloses
  <2> QED BY <1>1, <2>1 DEF CloseGateway, CheckSessionLoss, ResetSession, States
<1>8. CASE SetsTempo \/ SetsPlaying \/ SetsStartStopSync
  BY <1>1, <1>8 DEF SetsTempo, SetsPlaying, SetsStartStopSync, Keep, SetTempo,
     SetIsPlaying, EnableStartStopSync, States
<1> QED BY <1>3, <1>4, <1>5, <1>6, <1>7, <1>8

LEMMA SilentWithout ==
    ASSUME IInv, DoEnable \/ DoDisable \/ DoCrash, NEW x
    PROVE  ~HasTask(st', x)
<1>1. st \in States
  BY DEF IInv, Good
<1>2. st'.measurement = None /\ st'.pending = <<>>
  BY <1>1 DEF DoEnable, Enable, DoDisable, Disable, DoCrash, GoSilent, States
<1> QED BY <1>2 DEF HasTask

LEMMA PassAdvances ==
    ASSUME IInv, NEW expired, NEW retry \in BOOLEAN, NEW remeasure \in BOOLEAN,
           Housekeeping(expired, retry, remeasure)
    PROVE  Onward(st, st') /\ (retry => Advances(st, st'))
<1>1. PICK fresh \in Draws :
        /\ PruneExpired(st, expired, fresh).node # None
        /\ \E s \in HousekeepingPass(st, expired, retry, remeasure, fresh) :
              Settle(s, fresh)
  BY DEF Housekeeping
<1>2. PICK s \in HousekeepingPass(st, expired, retry, remeasure, fresh) : st' = s
  BY <1>1 DEF Settle, Keep
<1>3. retry => st.measurement # None
  BY DEF Housekeeping
<1> QED BY <1>1, <1>2, <1>3, DrawsDrawable, HousekeepingOnward DEF IInv

LEMMA StepOnward ==
    ASSUME IInv, [Next]_vars
    PROVE  Onward(st, st')
<1>1. st \in States /\ Good(st, Nameable)
  BY DEF IInv, Good
<1>2. CASE DoEnable \/ DoDisable \/ DoCrash
  BY <1>2, SilentWithout DEF Onward
<1>3. CASE PongArrives
  <2>1. PICK gw \in st.gateways, src \in Endpoints, sess \in Named, k \in Sampling,
             offset \in Offsets : st' = HandlePong(st, gw, src, sess, k, offset)
    BY <1>3 DEF PongArrives, Keep
  <2>2. k \in 0 .. 2 /\ offset \in Int
    BY SessionAssumption
  <2> QED BY <1>1, <2>1, <2>2, PongOnward
<1>4. CASE HousekeepingRuns
  BY <1>4, PassAdvances DEF HousekeepingRuns
<1>5. CASE ~(DoEnable \/ DoDisable \/ DoCrash \/ PongArrives \/ HousekeepingRuns)
  BY <1>1, <1>5, RestKept, KeptOnward DEF Next
<1> QED BY <1>2, <1>3, <1>4, <1>5

LEMMA FairStepAdvances ==
    ASSUME IInv, RetryTimerRuns \/ SampleTaken
    PROVE  Advances(st, st')
<1>1. CASE RetryTimerRuns
  BY <1>1, PassAdvances DEF RetryTimerRuns
<1>2. CASE SampleTaken
  <2> DEFINE task == st.measurement.task
  <2>1. PICK k \in Sampling \ {0}, offset \in Offsets :
          /\ task.gateway \in st.gateways
          /\ st' = HandlePong(st, task.gateway, task.target, task.session, k, offset)
    BY <1>2 DEF SampleTaken, Keep
  <2>2. k \in 0 .. 2 /\ k > 0 /\ offset \in Int
    BY SessionAssumption
  <2>3. Good(st, Nameable) /\ st.enabled
    BY <2>1 DEF IInv, Good
  <2> QED BY <2>1, <2>2, <2>3, PongOnward
<1> QED BY <1>1, <1>2

(* What MeasurementsEnd rests on, for every retry budget and number of     *)
(* samples: while the session of a measurement has a task, that task is    *)
(* the measurement itself, it loses neither a sample nor a timeout, and    *)
(* each expiry served and each pong that brings samples adds to them, also *)
(* in between pongs that only re-arm the timer, resets and rescans; by     *)
(* TypeCorrect that is so SamplesRequired + MaxRetries times at most       *)
(* (handle_pong, housekeeping_pass).                                       *)
MeasurementsOnlyAdvance ==
    [][st.measurement # None /\ HasTask(st', st.measurement.task.session) =>
         /\ GoesOn(st, st')
         /\ RetryTimerRuns \/ SampleTaken => Further(st, st')]_vars

(* Every measurement only advances.                                        *)
THEOREM MeasurementsAlwaysAdvance == Spec => MeasurementsOnlyAdvance
<1>1. IInv /\ [Next]_vars =>
        [st.measurement # None /\ HasTask(st', st.measurement.task.session) =>
           /\ GoesOn(st, st')
           /\ RetryTimerRuns \/ SampleTaken => Further(st, st')]_vars
  BY StepOnward, FairStepAdvances DEF Onward, Advances
<1> QED BY <1>1, Invariance, PTL DEF Spec, MeasurementsOnlyAdvance
=============================================================================
