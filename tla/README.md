# A verification of link-wire-rs

`link-wire-rs` implements a Link-compatible peer: processes on a local network
discover each other by UDP multicast, elect one session, share its tempo, beat
origin and transport state, and exchange audio channels. `crates/tactus-wire`
is the codec, `crates/tactus` the peer. This directory models the peer in TLA+,
checks the models with TLC and proves theorems about them with TLAPS.

## The system

A peer (`Link`) is one `State` behind one mutex, and threads that take it:

| part | state | operations | interacts through |
|---|---|---|---|
| engine (`engine.rs`) | identity, session, ghost transform, timeline, start/stop, peer table, foreign timelines, measured transforms, one measurement in flight, a queue of them | `handle_discovery_datagram`, `handle_measurement_datagram`, `housekeeping_pass`, `close_gateway`, and what they call: `process_peer_state`, `evaluate_join`, `reset_session`, ... | discovery multicast and unicast, ping/pong |
| threads (`runtime.rs`) | `epoch`, one housekeeping thread, four receivers per gateway, one rescan thread per epoch | `enable`, `disable`, `spawn_rescan`, `wait_in_epoch`, `gateway_live` | the mutex, the `wake` condition variable |
| application interface (`lib.rs`) | none of its own | `set_tempo`, `set_is_playing`, `enable_start_stop_sync`, getters, audio calls, `Drop` | the mutex |
| interface scan (`iface.rs`) | none | `initial`, `plan`, `diff`, `admit` | the rescan thread |
| sockets (`net.rs`) | four sockets per gateway | `Gateway::open`, sends | UDP |
| arithmetic (`math.rs`) | none | timeline bijection, beat grid, rounding, clamping | called everywhere |
| audio (`audio.rs`) | published sinks with requesters and pending segments, subscribed sources with inbox and loss counter, known channels, path statistics | announcement rounds, requests, byes, `write_sink`, `deliver`, expiry | unicast audio datagrams |
| codec (`tactus-wire`) | none | encode, decode of every message | bytes |

What makes it hard: handlers are atomic, but the order in which the receiver
threads win the lock is not the order in which datagrams were sent; UDP loses,
repeats and reorders; departures (ByeBye, expiry, a closed gateway) race with
measurements of many round trips; identities change under the feet of messages
that carry the old one; a rescan works on a snapshot taken before the lock was
released. `PROJECT.json` lists each hazard at its line.

What must hold, by component:

* engine: the ghost transform in use is the measured one of the session the
  peer is in; a session is joined only if it wins; no two measurements of one
  session, and none waits for ever; a reset abandons no member; only greater
  priority replaces a timeline or transport; peers that hear each other end up
  in one session with the tempo and transport set last;
* timers: broadcasts keep their spacing, no change stays untold, a peer is never
  silent for longer than the period, nothing outlives its ttl and padding;
* threads: one gateway per address, and the gateways the interfaces admit;
  nothing is heard through a closed gateway; every network hears of a new
  NodeId; what belongs to an ended epoch ends;
* arithmetic: the beat grid's two directions compose; peers that count by
  different quanta agree on the session's beats; a new tempo turns at its
  origin, a reset goes on at the same beat;
* audio: chunks are numbered without gaps and beat-stamped within a rounding
  step; the loss counter never overstates; a subscription comes to be served,
  and what nobody refreshes goes; a channel never outlives its peer;
* codec: what is read is what was said, or nothing; a pong returns its ping's
  payload; what is split over datagrams is complete.

## The modules

| module | what it is |
|---|---|
| `Engine` | `State` as a record and each handler as an operator from state to state (to a set of states where a hash map's order decides) |
| `Session` | one peer: the record as a variable, each handler as an action, in an environment of other peers; its properties |
| `Membership` | abstract specification: what a peer promises about the session it is in, without peers, gateways, timers or measurements |
| `Election` | several peers, each an `Engine` state, that hear and measure each other |
| `Housekeeping` | the deadlines of an enabled peer in ticks, and the one thread that sleeps until the next of them |
| `Gateways` | epochs, rescan threads, receivers and gateways, with the lock released where the code releases it |
| `Channels` | announcements, requests, byes and expiry between the publisher and a subscriber of a channel |
| `Source` | the receiving end of one audio channel: inbox, sequence numbers and the loss counter, fed by a publisher through an unreliable network |
| `Sink` | the transmitting end of one audio channel: segments, contiguity, and the packing of datagrams |
| `Wire` | every message of the three protocols, cell by cell with its size: encoders, decoders, admission, stateless answers, splitting |
| `BeatMath` | rounding, phase and alignment |
| `Clock` | timelines, beats and times of several peers, as their applications read them |
| `SessionProofs`, `ElectionProofs`, `SourceProofs`, `SinkProofs`, `ChannelsProofs`, `GatewaysProofs`, `HousekeepingProofs`, `ClockProofs` | the theorems about the modules they name |
| `MCSession`, `MCSource`, ... | the constants of the small instances; each `.cfg` is one instance |

`Session` and `Election` are two compositions of the same `Engine` operators: one
peer against everything its environment may do, and several peers with nothing
but each other. `Session` implements `Membership`. `Sink` and `Clock` share
`BeatMath`. `Housekeeping` holds what `Session` abstracts to "may have expired",
`Gateways` what it abstracts to "a gateway opens, a gateway closes". `Channels`,
`Source` and `Sink` divide the audio runtime: `Channels` decides whether `Sink` has
a requester, `Sink` produces the datagrams that `Source` numbers and counts. The
engine reaches them through departures, resets, the session id and the timeline,
which each of the three lets happen at any time.

### Correspondence

In `Session` and `Election`, a peer's state is the `State` of `engine.rs`, with its
field names; a map keyed by session (`measured`, `foreign_timelines`) is a
function with `None` for an absent key; `peers` is the set of its entries with
key and value in one record; `remeasure_armed` is `next_remeasure_at.is_some()`.
`used`, `now` and `former` belong to the environment: the NodeIds drawn so far
(64 random bits, so never drawn again nor by another peer), the clock at the last
founding, and one own Alive still unread on a loopback gateway's socket, under
the NodeId before the last reset.

| action of `Session` | code |
|---|---|
| `DoEnable`, `DoDisable` | `runtime::enable`, `runtime::disable` (and `Drop`) |
| `DoCrash` | `Link::simulate_crash` |
| `PeerStateArrives`, `ByeByeArrives` | receivers, `handle_discovery_datagram` |
| `OwnAliveArrives` | the same, for an own multicast looped back (`net.rs:108`) |
| `PongArrives` | receivers, `handle_measurement_datagram`, `handle_pong` |
| `HousekeepingRuns` | one `housekeeping_pass`: pruning, retry timer, re-measurement |
| `GatewayOpens`, `GatewayCloses` | one opening, one closure of a rescan |
| `SetsTempo`, `SetsPlaying`, `SetsStartStopSync` | the calls of `lib.rs` |

| action of `Election` | code |
|---|---|
| `Hears` | `broadcast_alive` and `build_state` at one peer, `handle_discovery_datagram` at another |
| `Delays`, `HearsLate` | an Alive that stays behind in the network, and a receiver that reads it later, any number of times |
| `Measures` | pings of one peer, pongs of the one it measures |
| `SetsTempo`, `SetsPlaying` | the calls of `lib.rs` |

| action of `Housekeeping` | code |
|---|---|
| `HousekeepingPass`, `Tick` | `spawn_housekeeping`'s loop: `housekeeping_pass`, then `wait_timeout` until the deadline it returned |
| `StateChanges` | `schedule_state_broadcast`, from a handler or the application |
| `PeerHeard`, `PeerLeaves` | the deadline of an entry; `ByeBye` |
| `MeasurementQueued`, `PongArrives` | `start_next_measurement`, `handle_pong`, for their timer |

| action of `Gateways` | code |
|---|---|
| `Enable`, `Disable`, `Drop` | `runtime::enable`, `runtime::disable`, `Link`'s `Drop` |
| `Wakes`, `Snapshots`, `Scans`, `Applies` of a rescan | the stretches of `spawn_rescan`'s loop between taking and releasing the lock |
| `Dispatches`, `Exits` of a receiver | `spawn_receiver`'s loop after `recv_from` |
| `SendAlive` | a pass that finds a broadcast due |
| `HostChanges` | interfaces come and go |

| action of `Channels` | code |
|---|---|
| `Publish`, `Unpublish`, `Write`, `Subscribe`, `Unsubscribe`, `DisableAudio` | the calls of `lib.rs` |
| `PublisherPass`, `SubscriberPass` | `audio::housekeeping` at either end |
| `Arrives` | `audio::handle_datagram` on announcements, byes, requests and stops |
| `PublisherSeen`, `SubscriberSeen`, `PublisherByeBye`, `PublisherExpires`, `SubscriberGone`, `GatewayCloses`, `Resets` | what the engine does to the audio state |

| action of `Source` | code |
|---|---|
| `Subscribe`, `Unsubscribe`, `Poll` | `audio::subscribe`, `audio::unsubscribe`, `Link::poll_channel` |
| `Sends` | the numbering of chunks in `drain_datagrams` |
| `Arrives` | `handle_datagram` on an `AudioBuffer`, with `deliver` |
| `Moves` | a join or a reset at either end |

| action of `Sink` | code |
|---|---|
| `Writes` | `Link::write_channel`, that is `write_sink` with `drain_datagrams` |
| `RequesterComes`, `RequestersGone` | a request; a stop, or the expiry that `write_sink` looks at |
| `TempoChanges` | a timeline set, heard or joined, seen by the next write |

| action of `Clock` | code |
|---|---|
| `SetsTempo` | `Link::set_tempo` |
| `Hears`, `Joins`, `Resets` | the timeline and transform in `process_peer_state`, `evaluate_join`, `reset_session` |

`Wire` takes one exchange after another: `SpeaksDiscovery`, `Pings`, `SpeaksAudio`,
`Streams`, `Announces` and `Withdraws` encode, `Restyles` makes of the datagram what
another implementation or the network could (entries reordered, added,
mis-sized, cut short, of another version, group or protocol), `Arrives` is the
receiving handler as far as it parses, admits and answers, `PongArrives` and
`ChainPings` the measuring side.

In `Source` a datagram is an interval of chunk numbers, since a publisher numbers
the chunks of a datagram consecutively; `deliver`'s loop over them is one
operator with the three positions such an interval can have. The ghosts `start`,
`heard` and `ambiguous` record what was delivered since subscribing, so that the
loss counter can be compared with the chunks really missing, and `since` how many
chunks came after the last arrival of each, which says what the inbox ought to
hold. In `Election` the ghost `said` is the timeline and the transport set last in
each session, against which those that everybody ends up with are compared. In `Sink` a sample is
the number of its place in all that was written, which keeps what happens to
each visible; `stamps` remembers the beat and tempo the application wrote it at,
and the number the next chunk had then (`next_seq`), so that the chunks drawn
since can be counted.
The two sizings (`fill_audio_datagrams`) are one planner with other parameters,
as in the code. Its three loops (planning, consuming, draining) are functions
that iterate one step (`PlanStep`, `Consume`, `DrainStep`) so often that the loop
has ended: a planning step enters a segment or spends room, a datagram takes
some sample.

Abstractions of `Session`: deadlines are "may have passed", so any set of entries may expire
at any pass and timers may fire at any time (more behaviours than the code has);
the closures and openings of one rescan are separate steps; a measurement yields
any offset of a set once it has more than `SamplesRequired` samples, and each
pong any number of samples of a set; a peer state may name any session ever
founded, with any payload of a set. `time_origin` follows `beat_origin` in every
assignment and is left out here; `Clock` keeps it. A handler that founds a session
draws a NodeId of `Own \ used`; when `Own` is used up it cannot run, which bounds
the number of resets. Abstractions of the other modules are at their heads.

## The runs

| run | instance | shows | distinct states |
|---|---|---|---|
| `session_membership` | two founders (ids below and above the peer's own), three NodeIds for the peer (construction, enabling, one more founding), one gateway, retry budget 1 | `TypeOK`, `TransformOnRecord`, `OneTaskPerSession`, `QueueNeverStalls`, and that the peer implements `Membership` (`KeepsPromise`) | 856,000 |
| `session_life` | one founder heard through two gateways that open and close, a tempo above the clamp, application calls; retry budget 1, a measurement takes two pongs with a sample, and pongs without one come between; the retry timer served | `ClosedGatewaysForgotten`, `PriorityWithinSession`, `ResetsLeaveNobody`, `MeasurementsEnd` | 349,000 |
| `election` | three peers in a chain, 1 and 3 known to each other only through 2; sessions 1 and 2 within the tolerance, 3 beating both; peer 3's application sets tempo and transport, twice in all; one Alive delayed and repeated at will | `OneClockPerSession`, `EverybodyAgrees` | 392,000 |
| `housekeeping` | two entries, 2, 5, 2 and 6 ticks for 50 ms, 250 ms, 50 ms and 1 s, one retry, one queued measurement | `SpacingKept`, `ToldInTime`, `NeverSilent`, `PrunedInTime` | 67,000 |
| `gateways` | three addresses, an interface that moves from one to another, automatic and explicit lists, three epochs, two upsets | `OneGatewayPerAddress`, `SnapshotStaysValid`, `HeardOnOpenGateways`, `FirstAliveIsCurrent`, `ToldOrDue`, `GatewaysFollow`, `ThreadsEnd` | 1,030,000 |
| `channels` | publisher and subscriber with three NodeIds between them, one gateway, ttl, padding and request period of one tick, one datagram in flight | `KnownHasPeer`, `SubscriptionServed`, `Quiesces` | 352,000 |
| `source_stream` | losses, repetition and reordering, 5 chunks of at most 2 a datagram, an inbox smaller than that, two sessions | `LossNeverOverstated`, `LossExact`, `OldestDropped` | 332,000 |
| `sink_stream` | both sizings, mono and stereo, two tempos, writes of 1, 2 and 4 samples (one of them half a stereo frame), continuing or a beat off; room for 3 samples | `InOrder`, `ChunksOnBeat`, `DatagramsFull`, `NothingDropped` | 2,505,000 |
| `wire` | every message, seven styles, up to five channels with short and long names, 1 to 291 withdrawn | `Understood`, `SpoiledDiscarded`, `EchoVerbatim`, `RoundComplete` | 7,200 |
| `clock` | two peers, two tempos, no quantum, an odd and an even one, beats from -9 to 9, four units to a beat | `DirectionsCompose`, `SessionBeatsAgree`, `TempoTurnsAtOrigin`, `ResetContinues` | 215,000 |
| `session_dead_join` | as `session_membership` | a counterexample to `JoinsInhabitedSession` | |
| `channels_lapse` | as `channels` | a counterexample to `RequestsLastThroughPadding` | |

The instances are small because a hazard needs few parties. Two foreign sessions
suffice for one measured while the other waits, a rejoin of a session left
before, and a departure during a measurement; two foundings for a late result
that crosses a reset; two gateways for a queued task whose gateway closes while
another stays. `Epsilon` is 2 with offsets 0 and 3 in the `session_*` runs, so that
a difference is below or above the tolerance. `SamplesRequired` is 1 and the retry
budget is 1 in all of them. In `session_membership` and `session_dead_join` a pong
yields no sample or two, so that one pong ends a measurement or adds nothing; in
`session_life` it yields no sample or one, so that a measurement takes two pongs
that bring one, before, between and after which the timer may expire once and
be re-armed by pongs that bring none. Three peers are what a relay needs, and two
changes what an earlier and a later one need, of the tempo, the transport or one
each; the delayed Alive may be from before both. Enabling and disabling each
begin an epoch: of the three, the first is an enabling, the second the disabling
that ends it and the third an enabling that may find the rescan thread and the
receivers of the first still there; two upsets let an enumeration fail while the
interfaces change. In `channels` three NodeIds let either end be reset once, and
one datagram in flight, kept when it is delivered, can come late, twice or never.
One gateway is enough for every way an entry ends, but not for a peer that says
goodbye on one while it is heard on another: the model drops its channels as the
code does, and no property is about that. `KnownHasPeer`, which is about several
gateways, is proved for any number. In `source_stream` four chunks make a repeated
datagram, a gap and a late chunk possible in one stream, five overflow the inbox
with a gap in it. In `sink_stream` a room of three samples is filled by one write,
by several, or left one short, and a write of four is split between datagrams;
the filling sizing's room of seven units takes one capped chunk and one short
one. `ChunksOnBeat` allows two micro-beats, and half of one for each chunk drawn
since the sample was written: the run finds that half a micro-beat less would do
for these writes, and that a whole one less would not. `wire` has the real sizes: 145
channel ids are what one message of byes holds, two names of 256 what fits an
announcement only alone. In `clock` a beat has 4 units instead of a million, so
that most conversions round, ties included. The proofs remove the bounds for the
properties they cover.

The check for deadlock is off where the system, or its time, may stop: `sink_stream`
and `gateways` (nothing more to write, no epoch left) and `clock` (`MaxNow`).

Fairness, per specification:

* `Session`: weak fairness of "the retry timer is served, or a pong brings a
  sample", as one action. The housekeeping thread sleeps at most until the
  earliest deadline and then serves it (`runtime.rs:32`, `engine.rs:665`); a pong
  re-arms the timer, hence the disjunction. A pong without a sample re-arms it too
  (`engine.rs:467`), and is not fair: it may come at any time and any number of
  times, but what is excluded is a peer that answers for ever and never with a
  sample, whose measurement lasts as long as that peer goes on.
* `Election`: each peer hears each other it has a link with again and again, since
  an Alive is sent every 250 ms and some get through; a measurement in flight
  gets its pongs. The delayed Alive need never come.
* `Gateways`: the rescan thread of each epoch goes on (its wait is 5 s at most), a
  receiver's `recv_from` times out and lets it look at its epoch, a broadcast due is
  sent. Nothing is assumed of the application, the host or failures except that
  `MaxUpsets` bounds the latter.
* `Channels`: time passes, each peer's housekeeping runs in each tick, and what is in
  flight arrives. Before the environment turns calm anything may be lost; it
  need not turn calm, and the two liveness properties speak only of when it has.
* `Housekeeping` needs none: time does not advance past a wait that is over, so
  promptness is a safety property there.

### What the runs found

Two runs end in a counterexample to what the repository says of itself:

* `JoinsInhabitedSession` (`session_dead_join`): a join marks the session inhabited without looking at
  the peer table. If the members left while it was measured, the peer stays in a
  session without members and nothing resets it: there is no transition to zero
  members left to notice, until another departure happens to run the check.
* `RequestsLastThroughPadding` (`channels_lapse`): housekeeping grants a request a
  second beyond its ttl, `write_sink` none. Requests are re-sent every 5 s under a
  ttl of 5 s, so a write between the deadline and a refresh that is a moment late
  drops the requester and clears what is pending for it.

Behaviours met while modelling that no run is about:

* The self check compares with the current NodeId only, so an own Alive looped
  back and read after a reset is a peer to itself until its ttl ends
  (`engine.rs:245`). `Session` includes it (`OwnAliveArrives`), and its invariants hold
  nevertheless.
* A member that names another session is overwritten without the session-loss
  check (`engine.rs:282`), and a later departure of somebody else resets the peer.
  By then nobody names the session (`ResetsLeaveNobody`).
* What a pass changes after it has passed the place where a deadline is
  computed, a reset's delayed broadcast or the timer of a measurement it starts
  at its end (`engine.rs:698`), is not in the deadline it returns ("returns the
  next deadline", `engine.rs:613`), and its `notify` finds nobody waiting. It is
  served late, by the periodic Alive at the latest: `ToldInTime` speaks of
  changes made by handlers, `NeverSilent` of all.
* A receiver returns on any socket error but a timeout (`runtime.rs:70`), and its gateway
  stays: deaf on that socket until its address goes or the peer is re-enabled.
* After a reset, or a tempo set, the application's beats may jump by up to half a
  quantum, since alignment follows the new beat origin; the session's raw beats
  continue, which is what `ResetContinues` and `TempoTurnsAtOrigin` state of the
  comment at `engine.rs:541`.
* Two peers that set the tempo in the same instant have equal beat origins, and
  each keeps its own until the tempo is set again.
* Offsets exactly the tolerance apart elect neither session, and a chain of
  sessions each within the tolerance of the next may prefer each other in a
  circle. `EverybodyAgrees` is stated for sessions that the join rule orders
  (`Ordered`), since there is nothing to agree on otherwise; everything else about
  `Election`, proofs included, is for any clocks.
* A repeated datagram, or one from before the first delivered, is taken by
  `deliver` for a late one and hides a loss: `LossExact` holds until then,
  `LossNeverOverstated` always.
* Material pending at a join keeps the beats of the old session's grid and leaves
  in a datagram that names the new one (`audio.rs:603`).
* The reference sizing counts samples only; more than some 25 chunks of a few
  frames in one datagram exceed the message size.
* A frame of more than 251 channels (`num_channels` goes up to 255) is larger than
  the reference sizing's budget: the planner takes nothing, nothing is sent, and
  what is pending grows as long as somebody requests the channel
  (`audio.rs:574`). `AlwaysDatagramsFull` assumes that it fits.
* A Pong of any sender adds a path entry under its NodeId (`audio.rs:240`).

## The proofs

Every theorem holds for every value of the constants that satisfies the named
assumptions of its module.

`SessionProofs` (`NoneAssumption`, `EngineAssumption`, `SessionAssumption`):

* `TypeCorrect`: `Spec => []TypeOK`;
* `TransformAlwaysOnRecord`: `Spec => []TransformOnRecord`;
* `AlwaysOneTaskPerSession`: `Spec => []OneTaskPerSession`;
* `Refinement`: `Spec => KeepsPromise`, `Session` implements `Membership`.

All four rest on one inductive invariant, `IInv` (`Invariance`). `TransformOnRecord`
is not inductive by itself: a re-measurement that succeeds overwrites both the
record and the transform of the current session, a join measurement only the
record, so no *join* task may be about the current session once that session has
a recorded transform, and none about the peer's own. That in turn needs the
session names: every session in the tables, the queue and the flight is one that
somebody has founded, so a fresh NodeId cannot collide with it. `IInv` conjoins
these facts with the types. The argument is one lemma per handler of `Engine`
(what it changes and what it keeps), one per action, and a `QED` by `Next`.

The end of a measurement (the same module): `MeasurementsAlwaysAdvance`. Fairness is
out of the prover's reach, and so is `MeasurementsEnd` for the code's retry budget and
number of samples; what it rests on is proved for every value of both. As long
as the session of a measurement in flight has a task, that task is this
measurement, no step takes a sample or a timeout from it, and each of the two
kinds of fair steps adds to them (`MeasurementsOnlyAdvance`): by `TypeCorrect` that can
happen `SamplesRequired + MaxRetries` times before its session is without a task.
The step that needs care is a pass in which a measurement fails and the
re-measure timer is due as well. It does not queue the session again, because a
joining measurement is of another session than the one in use (`IInv`), and the
one in use has pushed the timer when its re-measurement failed
(`HousekeepingOnward`).

The queue of measurements (the same module and assumptions, and
`MeasurementAssumption`):

* `QueueAlwaysServed`: `Spec => []QueueNeverStalls`;
* `ClosedGatewaysAlwaysForgotten`: `Spec => []ClosedGatewaysForgotten`.

The first needs the second. `start_next_measurement` pops one task and gives up if
its gateway is gone, so the queue is served only because no queued task has a
closed gateway. `QInv` is the conjunction of both (`Served`, `Tidy`) over `IInv`;
`CloseGateway`, which drops the tasks of the gateway from the queue and may reset
the session, is the step where the order of the code matters.

Priority (the same module): `AlwaysPriorityWithinSession` and `ResetsAlwaysLeaveNobody`, the two
action properties of `Session`. Every step is shown to be of one of three kinds (`StepMoves`):
it keeps the session and raises what it replaces (`Raised`), it turns to another
session, founded only if nobody in the table names the one left (`Turned`), or
the peer is enabled or disabled. A handler is a chain of operators, and the lemmas
say which chains of moves are moves.

`ElectionProofs` (`ElectionAssumption`), for any number of peers with any clocks:

* `AlwaysOneClockPerSession`: `Spec => []OneClockPerSession`;
* `OnlyWinnersJoined`: a peer's session changes only to one that wins over it by
  the founders' own clocks;
* `NeverReturns`: a peer that is in one of a set of sessions closed under winning
  stays in the set for ever.

`OneClockPerSession` compares peers and says nothing of what they have on record,
so that a join from an old record could break it. `EInv` (`ElectionInvariance`) is
that every clock a peer holds, in use or on record, is the one of the founder of
the session it is filed under. It is kept because a pong names the session its
sender is in *then*, and `handle_pong` files nothing under another. Once what is on
record is right, the join rule compares the founders' clocks, which never change:
hence `OnlyWinnersJoined`. `NeverReturns` makes of single steps a statement about
behaviours, for any clocks: a peer that left a session can come back to it only
if winners over winners lead back to it, so only along a circle of the join
rule, which three clocks each within the tolerance of the next can form. Where
they do not, the sessions it can still reach are such a set without the one it
left, and the election goes one way for it, which is the safety half of
`EverybodyAgrees`.

`SourceProofs` (`SourceAssumption`):

* `CounterInvariance`: `Spec => []SInv`;
* `CounterNeverOverstates`: `Spec => []LossNeverOverstated`, for any number of
  chunks, any inbox limit and any network;
* `CounterExact`: `Spec => []LossExact`;
* `OldestAlwaysDropped`: `Spec => []OldestDropped`.

The bound is not inductive alone, because a late chunk lowers the counter *and*
may shrink the set of missing chunks. `SInv` adds where things are: what was
delivered lies below the next chunk expected, and the first one delivered is not
above it. `GapCounted` and `LateCounted` then compare the two sides: a gap adds
to both the same number, and the late chunks of one datagram take from the
missing at most as many as they take from the counter, or leave it at zero.
Exactness is the same comparison with equality, as long as no chunk came twice
or from before the first. The inbox needs an invariant of its own (`OInv`),
about any network: a chunk's last arrival stands in the inbox as far from its
back as there were chunks after it, if that is less than the limit, and the inbox
holds nothing else. `PushFromBack` says where a push leaves what was in an inbox,
counted from the back, and `ArrivesRecent` that a datagram's arrival keeps the two
in step.

`SinkProofs` (`SinkAssumption`), for any sizing, formats, tempos and writes:

* `AlwaysInOrder`: `Spec => []InOrder`, which includes that `drain_datagrams` never
  panics;
* `AlwaysNothingDropped`: `Spec => NothingDropped`;
* `AlwaysDatagramsFull`: `Roomy` implies `Spec => []DatagramsFull`;
* `AlwaysChunksOnBeat`: `Spec => []ChunksOnBeat`;
* `SentOnce`: a sample that was sent is neither pending again nor sent again.

The hard part is that two loops agree: the planner counts whole frames of each
segment and skips what is shorter than a frame, the consumer draws what was
planned from segments that shrink, and drops residue only in front. `Agrees`
relates the two in mid-plan: behind some segments too short for a frame the
consumer has exactly the frames the planner still counts, and the segments it
has not entered. `AgreesEnters` and `AgreesDraws` are the two kinds of steps, so the
consumer always finds its frames (`PlanMakes`). Along with it go what chunks hold
and what they leave (`Keeps`), the room they cost (`Spends`), and what the
frames behind the planner cost (`Goes`): a plan that ends without being full has
seen everything (`PlanEnds`), so what stays pending fits. `DrainIs` puts the
datagrams of a write together, `WrittenIs` adds the new material, and `SinkInv`
(`SinkInvariance`) the writes. Iteration is by lemmas of this module (`Induction`,
`IterateIs`) over sets of numbers in place of predicates. `Roomy` says that
a datagram has room for one frame, which the code does not check (see above).

`ChunksOnBeat` is about beats that are rounded again and again: where a segment
begins is rounded whenever a chunk is taken from it, and once more for the frame
heard. `BeatInv` adds to `SinkInv` how far a frame can be from its stamp. It compares
exact positions, in units of a micro-beat times rate times tempo, so that only
the roundings of the code appear. A pending sample is within two micro-beats and
half of one for each chunk drawn since it was written (`OnBeat`); a split adds at
most its half (`RestOnBeat`), which the chunk pays for by its number, and a chunk
as it is heard stays in the bound because it is one of those drawn (`ChunkOnTime`).
Extending a segment does not add up, however many writes it joins: the contiguity
test compares with the beat the new write asks for, so each sample's error is
counted from its own write (`GrownOnBeat`). That frames stay whole from write to
chunk needs whole-frame writes (`Whole`), the hypothesis of the property. `Timed` and
`Drawing` carry this through the two loops.

`GatewaysProofs` (`GatewaysAssumption`), about every interleaving of rescan threads,
receivers and calls, for any addresses, epochs and numbers of failures:

* `GatewaysInvariance`: the inductive invariant;
* `AlwaysOneGatewayPerAddress`, `SnapshotAlwaysValid`, `AlwaysHeardOnOpenGateways`,
  `AlwaysToldOrDue`, `FirstAliveAlwaysCurrent`.

One gateway per address holds because a plan adds only addresses outside the
snapshot it was made from, and the snapshot of the current epoch's rescan is
what the gateways are. That in turn needs that an epoch has one rescan thread,
that no thread has an epoch still to come, and that gateway ids in use lie below
the next one.

`HousekeepingProofs` (`HousekeepingAssumption`), for any number of peers, ttls and periods:
`SpacingAlwaysKept`, `AlwaysToldInTime`, `NeverEverSilent`, `AlwaysPrunedInTime`, from
`HousekeepingInvariance`. The invariant has three parts: a broadcast is due exactly
when the spacing since the last one is over (`Spaced`), a disabled peer has no
deadlines (`Idle`), and the thread's wait ends by every deadline that somebody
relies on (`Waits`), which is not every deadline there is: those set behind a
pass's back are absent. A pass is a chain of stages that each keep what is due
or send it (`Follows`); its deadlines all lie ahead (`DeadlinesAhead`), so that
the wait it computes is their minimum.

`ChannelsProofs` (`ChannelsAssumption`): `ChannelsKeepTheirPeer`: `Spec => []KnownHasPeer`, for any
number of gateways. The invariant is inductive with the types of the tables: an
announcement is taken up only from a listed endpoint, and each of the five ways
an entry of the peer table can go takes the channels with the last one.

`ClockProofs` (`ClockAssumption`), for any resolution, tempos, quanta and beats:

* `DirectionsAlwaysCompose`, `SessionBeatsAlwaysAgree`, `TempoAlwaysTurnsAtOrigin`,
  `ResetAlwaysContinues`, from `ClockInvariance`.

`AlignShifts` is the observation they rest on: aligning a beat to its own distance
from the beat origin adds an amount, `Shift`, that depends on the timeline and the
quantum only. `AppGhost` shows that the inverse direction, which rounds ties the
other way, subtracts exactly it; so the two compose up to `Nearest`, the half unit
of each conversion (`RoundTrip`), and a difference of an application's beats and
its session offset does not depend on the quantum. The peers' part is that a
session's members share the transform its founder began with.

Left to TLC:

* all liveness, since `ENABLED` and fairness are out of the prover's reach:
  `MeasurementsEnd`, `EverybodyAgrees`, `GatewaysFollow`, `ThreadsEnd`,
  `SubscriptionServed`, `Quiesces`;
* `Understood`, `SpoiledDiscarded`, `EchoVerbatim`, `RoundComplete`: the decoders of
  `Wire` are `RECURSIVE` operators over the cells of a datagram, and a module that
  declares one is beyond the prover. The run has every kind of message and real sizes.

Every other property of the runs is a theorem. `Retained` states `VecDeque::retain`
through the increasing enumeration of the kept positions instead of a recursion
so that `Engine` can be proved about.

## Plan

Every module planned is written. What would extend the project, most important
first: `Wire`'s decoders as iterated steps, as in `Sink`, so that what they read of
any list of entries can be proved; `Clock`'s and `Election`'s ghost transforms as
one refinement;
a musician at two peers of `Election`, once the tie of equal beat origins is
decided; the audio tables a crash leaves behind, in `Channels`.

## Not modelled

* The conformance binary, tests and examples: no state of their own.
* The platform interface enumerations and socket options: foreign calls. What
  they report, failures included, is the environment of `Gateways`.
* Socket errors other than timeouts, and the list of failed openings, which is
  only logged.
* Path statistics (`PathStats`): they choose among a peer's paths, and `Channels` lets
  any of them be chosen.
* The audio tables `simulate_crash` leaves behind (known channels, paths, sinks):
  `DoCrash` has its effect on the engine, and in `Gateways` and `Housekeeping` it is
  a disabling.
* Conversions between floating-point beats, bpm and microseconds, and the median
  of samples: one of a set of values.
* Bytes within a primitive, and the contents of names and samples.
