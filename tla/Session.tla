------------------------------ MODULE Session ------------------------------
(***************************************************************************)
(* One peer on the network: every call of the application, every datagram  *)
(* another peer can send it, every timer and every change of its gateways, *)
(* as one action per handler (src/crates/tactus/src/engine.rs, runtime.rs, *)
(* lib.rs).  Each action applies the handler of Engine to `st`.            *)
(*                                                                         *)
(* The environment is any set of other peers: they may name, in any order, *)
(* any session that somebody has founded, and their datagrams may be lost, *)
(* repeated and reordered, a pong and a ByeBye included, which arrive on   *)
(* different sockets read by different threads.                            *)
(***************************************************************************)
EXTENDS Engine

CONSTANTS
    Remotes,      \* NodeIds of the other peers
    Own,          \* NodeIds this peer may draw
    FirstNode,    \* the one it is constructed with, never on the wire
    Endpoints,    \* measurement endpoints of the other peers
    Offsets,      \* ghost offsets a measurement may yield
    Clocks,       \* readings of the local clock
    Timelines, StartStops, Tempos, Beats,   \* payloads and arguments
    SyncSettings, \* values the application gives start/stop sync
    Missing,      \* {None} if a peer state may lack entries, else {}
    Sampling,     \* numbers of samples a pong may yield
    MaxGateways,  \* gateways ever opened
    MaxOrigin,    \* largest beat origin the application sets
    MaxStamp      \* largest start/stop timestamp the application sets

ASSUME SessionAssumption ==
    /\ Remotes \subseteq Id /\ Own \subseteq Id /\ Remotes \cap Own = {}
    /\ FirstNode \in Own
    /\ None \notin Endpoints
    /\ Offsets \subseteq Int /\ Clocks \subseteq Int /\ Beats \subseteq Int
    /\ Tempos \subseteq Int
    /\ Timelines \subseteq Timeline /\ StartStops \subseteq StartStop
    /\ Sampling \subseteq 0 .. 2
    /\ SyncSettings \subseteq BOOLEAN
    /\ Missing \subseteq {None}
    /\ MaxGateways \in Nat

VARIABLES
    st,      \* the State of the peer
    used,    \* the NodeIds it has drawn so far
    now,     \* its clock when it last founded a session
    former   \* an own Alive, sent under the NodeId before the last reset and
             \* still unread on a loopback gateway's socket; or None

vars == <<st, used, now, former>>

(* The sessions that exist: each is named after the NodeId that founded it. *)
Named == Remotes \cup (used \ {FirstNode})

PeerStates == [session : Named \cup Missing, timeline : Timelines \cup Missing,
               stst : StartStops \cup Missing, mep : Endpoints \cup Missing]

(* What the peer draws when it founds a session.  Drawing None stands for  *)
(* Own being used up: a handler may then run only if it does not found.    *)
Draws == [node : (Own \ used) \cup {None}, now : {c \in Clocks : c >= now},
          beats : Beats]

OwnState(mep) == [session |-> st.session, timeline |-> st.timeline,
                  stst |-> st.held_stst, mep |-> mep]

-----------------------------------------------------------------------------
Init ==
    /\ \E t \in Tempos : st = NewPeer(FirstNode, t)
    /\ used = {FirstNode}
    /\ now \in Clocks
    /\ former = None

Keep(s) == st' = s /\ UNCHANGED <<used, now, former>>

(* The outcome of a handler that may have founded a fresh session. *)
Settle(s, fresh) ==
    IF s.node = st.node THEN Keep(s)
    ELSE /\ s.node # None
         /\ st' = s
         /\ used' = used \cup {s.node}
         /\ now' = fresh.now
         /\ \E e \in Endpoints : former' = [node |-> st.node, state |-> OwnState(e)]

DoEnable ==
    /\ ~st.enabled
    /\ \E fresh \in Draws, count \in 0 .. (MaxGateways - st.next_gateway_id) :
         /\ fresh.node # None
         /\ st' = Enable(st, fresh, count)
         /\ used' = used \cup {fresh.node}
         /\ now' = fresh.now
         /\ former' = None

DoDisable ==
    /\ st.enabled
    /\ st' = Disable(st)
    /\ former' = None
    /\ UNCHANGED <<used, now>>

(* simulate_crash: nobody is told, and what disabling resets is left.      *)
DoCrash ==
    /\ st.enabled
    /\ st' = GoSilent(st)
    /\ former' = None
    /\ UNCHANGED <<used, now>>

(* The receivers drop a datagram whose gateway has been closed. *)
PeerStateArrives ==
    \E gw \in st.gateways, n \in Remotes, ps \in PeerStates :
       \E s \in HandlePeerState(st, gw, n, ps) : Keep(s)

OwnAliveArrives ==
    /\ former # None
    /\ \E gw \in st.gateways :
          \E s \in HandlePeerState(st, gw, former.node, former.state) :
             st' = s /\ former' = None /\ UNCHANGED <<used, now>>

ByeByeArrives ==
    \E gw \in st.gateways, n \in Remotes, fresh \in Draws :
       Settle(HandleByeBye(st, gw, n, fresh), fresh)

PongArrives ==
    \E gw \in st.gateways, src \in Endpoints, sess \in Named,
       k \in Sampling, offset \in Offsets :
       Keep(HandlePong(st, gw, src, sess, k, offset))

Housekeeping(expired, retry, remeasure) ==
    /\ st.enabled
    /\ retry => st.measurement # None
    /\ remeasure => st.remeasure_armed
    /\ \E fresh \in Draws :
         /\ PruneExpired(st, expired, fresh).node # None
         /\ \E s \in HousekeepingPass(st, expired, retry, remeasure, fresh) :
               Settle(s, fresh)

HousekeepingRuns ==
    \E expired \in SUBSET st.peers, retry, remeasure \in BOOLEAN :
       Housekeeping(expired, retry, remeasure)

GatewayOpens ==
    /\ st.enabled
    /\ st.next_gateway_id < MaxGateways
    /\ Keep(OpenGateway(st))

GatewayCloses ==
    \E gw \in st.gateways, fresh \in Draws :
       \E s \in CloseGateway(st, gw, fresh) : Settle(s, fresh)

SetsTempo ==
    \E t \in Tempos, b \in Beats :
       /\ st.timeline.beat_origin < MaxOrigin
       /\ Keep(SetTempo(st, t, b))

SetsPlaying ==
    \E p \in BOOLEAN, b \in Beats, c \in Clocks :
       /\ st.sst_sync => st.held_stst.timestamp < MaxStamp
       /\ Keep(SetIsPlaying(st, p, b, c + st.ghost_offset))

SetsStartStopSync ==
    \E on \in SyncSettings : Keep(EnableStartStopSync(st, on))

Next ==
    \/ DoEnable
    \/ DoDisable
    \/ DoCrash
    \/ PeerStateArrives
    \/ OwnAliveArrives
    \/ ByeByeArrives
    \/ PongArrives
    \/ HousekeepingRuns
    \/ GatewayOpens
    \/ GatewayCloses
    \/ SetsTempo
    \/ SetsPlaying
    \/ SetsStartStopSync

Spec == Init /\ [][Next]_vars

(* The housekeeping thread sleeps no longer than the next deadline, so a   *)
(* measurement in flight never just hangs: either its retry timer expires  *)
(* and is served, or pongs it accepts keep re-arming the timer.            *)
RetryTimerRuns ==
    \E remeasure \in BOOLEAN : Housekeeping(st.peers \ st'.peers, TRUE, remeasure)

SampleTaken ==
    /\ st.measurement # None
    /\ LET task == st.measurement.task
       IN  \E k \in Sampling \ {0}, offset \in Offsets :
              /\ task.gateway \in st.gateways
              /\ Keep(HandlePong(st, task.gateway, task.target, task.session, k, offset))

(* Weak fairness of the two together, which are enabled as long as a       *)
(* measurement is in flight.  A pong need not bring a sample, so it is not *)
(* the pongs that are fair but the timer: what is excluded is a peer that  *)
(* answers for ever and never with a sample.                               *)
FairSpec ==
    /\ Spec
    /\ \/ []<>(st.measurement = None)
       \/ []<><<RetryTimerRuns \/ SampleTaken>>_vars

-----------------------------------------------------------------------------
(* Types. *)

Entry == [node : Id, gateway : Nat, session : Id \cup {None},
          mep : Endpoints \cup {None}]
Task == [session : Id, target : Endpoints, gateway : Nat,
         purpose : {"Join", "Remeasure"}]
Measurement == [task : Task, samples : 0 .. SamplesRequired, timeouts : 0 .. MaxRetries]

(* `measurement` is an Option: the absent value is no measurement.         *)
ASSUME MeasurementAssumption == None \notin Measurement

States ==
    [enabled : BOOLEAN, node : Id, session : Id, timeline : Timeline,
     ghost_offset : Int, held_stst : StartStop, app_playing : BOOLEAN,
     sst_sync : BOOLEAN, gateways : SUBSET Nat, next_gateway_id : Nat,
     peers : SUBSET Entry, session_member_seen : BOOLEAN,
     foreign_timelines : [Id -> Timeline \cup {None}],
     measured : [Id -> Int \cup {None}],
     measurement : Measurement \cup {None}, pending : Seq(Task),
     remeasure_armed : BOOLEAN]

(* Every field of the peer's state has its type, and the retry budget and  *)
(* the sample count of a measurement stay within their limits              *)
(* (engine.rs `State`, `Measurement`).                                     *)
TypeOK ==
    /\ st \in States
    /\ used \subseteq Own
    /\ now \in Clocks
    /\ former # None =>
         /\ former.node \in used
         /\ former.state \in [session : Id, timeline : Timeline, stst : StartStop,
                              mep : Endpoints]

-----------------------------------------------------------------------------
(* Safety. *)

(* The ghost transform in use is the one on record for the session: a      *)
(* session joined has a recorded transform, and whatever is recorded for   *)
(* the current session equals ghost_offset.  A late measurement, one begun *)
(* under another identity, or a rejoin must not separate the two           *)
(* (evaluate_join, measurement_succeeded, reset_session).                  *)
TransformOnRecord ==
    /\ st.session # st.node => st.measured[st.session] # None
    /\ st.measured[st.session] # None => st.measured[st.session] = st.ghost_offset

(* A session is measured by at most one task, in flight or queued, however *)
(* many peers gossip it and whatever the timers do (queue_measurement,     *)
(* queue_remeasure).                                                       *)
OneTaskPerSession ==
    /\ \A i, j \in DOMAIN st.pending :
          st.pending[i].session = st.pending[j].session => i = j
    /\ st.measurement # None =>
          \A i \in DOMAIN st.pending :
             st.pending[i].session # st.measurement.task.session

(* Nothing refers to a closed gateway except a measurement in flight, and  *)
(* ids are never reused, so state keyed by a closed gateway never aliases  *)
(* a newer one (close_gateway, open_gateway, State::next_gateway_id).      *)
ClosedGatewaysForgotten ==
    /\ \A e \in st.peers : e.gateway \in st.gateways
    /\ \A i \in DOMAIN st.pending : st.pending[i].gateway \in st.gateways
    /\ \A g \in st.gateways : g < st.next_gateway_id

(* Nobody waits behind a free slot: while a task is queued a measurement   *)
(* is in flight (start_next_measurement is called wherever one ends).      *)
QueueNeverStalls == st.pending # <<>> => st.measurement # None

(* Within a session the timeline and the start/stop state only ever move   *)
(* to a strictly greater beat origin and timestamp, whichever of gossip,   *)
(* the application and re-measurement changes them; equal priority never   *)
(* replaces what is held (chapter 02 sections 6 and 8, process_peer_state, *)
(* set_tempo, set_is_playing).                                             *)
PriorityWithinSession ==
    [][st'.session = st.session =>
         /\ st'.timeline # st.timeline =>
              st'.timeline.beat_origin > st.timeline.beat_origin
         /\ st'.held_stst # st.held_stst =>
              st'.held_stst.timestamp > st.held_stst.timestamp]_vars

(* A reset abandons nobody: when a peer founds a fresh session while it is  *)
(* enabled, no entry of its table, on any gateway, still names the session *)
(* it leaves, be it the founder's or another member's (check_session_loss, *)
(* close_gateway, housekeeping_pass).                                      *)
ResetsLeaveNobody ==
    [][st.enabled /\ st'.enabled /\ st'.node # st.node
         => Members(st', st.session) = {}]_vars

-----------------------------------------------------------------------------
(* The peer keeps the promises of Membership. *)

Promise == INSTANCE Membership WITH
    enabled <- st.enabled, node <- st.node, session <- st.session,
    offset <- st.ghost_offset, known <- st.measured

(* Every step founds, joins, learns, refines or leaves a session as        *)
(* Membership allows, or changes nothing it speaks of.                     *)
KeepsPromise == Promise!Spec

-----------------------------------------------------------------------------
(* Liveness. *)

(* Every measurement queued ends, by its samples, a mismatch or its retry  *)
(* budget, and so does the wait of those behind it: retries and pongs that *)
(* re-arm the timer use up the budget and the samples missing, whatever    *)
(* their order (handle_pong, housekeeping_pass).                           *)
MeasurementsEnd == \A s \in Id \ {FirstNode} : HasTask(st, s) ~> ~HasTask(st, s)

-----------------------------------------------------------------------------
(* What the comments say and the code does not do. *)

(* engine.rs:98, "the found-fresh-session reset fires only on the          *)
(* transition back to zero members": a session taken up as having members  *)
(* has one in the table, so that their leaving can be such a transition.   *)
JoinsInhabitedSession ==
    [][st'.session # st.session /\ st'.session_member_seen
         => Members(st', st'.session) # {}]_vars
=============================================================================
