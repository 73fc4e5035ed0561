---------------------------- MODULE Housekeeping ----------------------------
(***************************************************************************)
(* The timers of an enabled peer (src/crates/tactus/src/engine.rs) and the *)
(* one thread that serves them (runtime.rs): the periodic Alive, the       *)
(* broadcast of a state change delayed by the minimum spacing, the prune   *)
(* timer, and the retries of a measurement.                                *)
(*                                                                         *)
(* Time is counted in ticks relative to now.  Handlers run at any time and *)
(* wake the thread (`notify`) where the code does; a wakeup while the      *)
(* thread is in its pass is lost, as the condition variable's is.  The     *)
(* thread runs as soon as it is woken or its wait is over, and it may wake *)
(* for nothing.  What a broadcast says is abstracted to whether it is up   *)
(* to date; every peer listed is a member of the session.                  *)
(***************************************************************************)
EXTENDS Integers, FiniteSets, FiniteSetsExt

CONSTANTS
    None,        \* no such deadline
    Peers,       \* entries of the peer table
    Ttls,        \* what their Alives announce
    Spacing,     \* MIN_BROADCAST_SPACING
    Period,      \* ALIVE_PERIOD
    Retry,       \* MEASUREMENT_RETRY
    Padding,     \* PRUNE_PADDING
    MaxRetries,  \* MAX_MEASUREMENT_RETRIES
    MaxPending   \* measurements queued

ASSUME HousekeepingAssumption ==
    /\ None \notin Int
    /\ {Spacing, Period, Retry, Padding} \subseteq Nat
    /\ 0 < Spacing /\ Spacing < Period
    /\ 0 < Retry /\ Retry < Period
    /\ Ttls \subseteq Nat

VARIABLES
    st,      \* the timers of the peer's state
    sleep    \* ticks until the thread's wait is over

vars == <<st, sleep>>

(* last and due are last_broadcast_at (always equal to last_alive_at) and  *)
(* broadcast_due; left are the peers' deadlines; retry and timeouts belong *)
(* to the measurement in flight.  told, unheard and crowded are history:   *)
(* whether the last broadcast is up to date, how long a handler's change   *)
(* has gone untold, and whether two broadcasts ever came too close.        *)
Fresh ==
    [enabled |-> FALSE, last |-> Period, due |-> None,
     left |-> [p \in Peers |-> None], retry |-> None, timeouts |-> 0, pending |-> 0,
     told |-> TRUE, unheard |-> None, crowded |-> FALSE]

Lefts(s) == {s.left[p] : p \in {q \in Peers : s.left[q] # None}}

-----------------------------------------------------------------------------
(* Broadcasts. *)

SendAliveFaultKeepsDue(s) ==
    [s EXCEPT !.last = 0, !.told = TRUE, !.unheard = None,
              !.crowded = @ \/ s.last < Spacing]

SendAlive(s) ==
    [s EXCEPT !.last = 0, !.due = None, !.told = TRUE, !.unheard = None,
              !.crowded = @ \/ s.last < Spacing]

ScheduleBroadcast(s) ==
    IF s.last >= Spacing THEN SendAlive([s EXCEPT !.told = FALSE])
    ELSE [s EXCEPT !.told = FALSE, !.due = Spacing - s.last]

(* History: from here on somebody waits to hear of a handler's change.    *)
Awaited(s) ==
    [s EXCEPT !.unheard = IF ~s.told /\ @ = None THEN 0 ELSE @]

-----------------------------------------------------------------------------
(* Peers and measurements. *)

(* check_session_loss, once the table has lost entries. *)
Lost(s, left) ==
    LET gone == [s EXCEPT !.left = left]
    IN  IF Lefts(s) # {} /\ Lefts(gone) = {} THEN ScheduleBroadcast(gone) ELSE gone

PruneDueFaultLatest(s) ==
    Lefts(s) # {} /\ \A l \in Lefts(s) : l <= -Padding

PruneDue(s) == \E l \in Lefts(s) : l <= -Padding

Prune(s) ==
    IF PruneDue(s)
    THEN Lost(s, [p \in Peers |-> IF s.left[p] # None /\ s.left[p] <= 0
                                  THEN None ELSE s.left[p]])
    ELSE s

StartNextMeasurement(s) ==
    IF s.retry = None /\ s.pending > 0
    THEN [s EXCEPT !.retry = Retry, !.timeouts = 0, !.pending = @ - 1]
    ELSE s

RetryDue(s) == s.retry # None /\ s.retry <= 0

RetryMeasurement(s) ==
    IF ~RetryDue(s) THEN s
    ELSE IF s.timeouts >= MaxRetries
    THEN StartNextMeasurement([s EXCEPT !.retry = None])
    ELSE [s EXCEPT !.retry = Retry, !.timeouts = @ + 1]

-----------------------------------------------------------------------------
(* One pass: what is due is done, in this order, and the earliest deadline *)
(* seen on the way is when to wake up again.                               *)

SendPeriodic(s) == IF s.last >= Period THEN SendAlive(s) ELSE s
SendDelayed(s) == IF s.due # None /\ s.due <= 0 THEN SendAlive(s) ELSE s

Remeasured(s, again) ==
    IF again /\ s.retry = None /\ s.pending = 0 THEN [s EXCEPT !.pending = 1] ELSE s

Pruned(s) == Prune(SendDelayed(SendPeriodic(s)))
Retried(s) == RetryMeasurement(Pruned(s))

Pass(s, again) == StartNextMeasurement(Remeasured(Retried(s), again))

(* The deadline of the measurement, unless the pass has just replaced the  *)
(* measurement by the next one.                                            *)
RetryDeadline(s) ==
    IF Pruned(s).retry = None THEN {}
    ELSE IF RetryDue(Pruned(s)) /\ Pruned(s).timeouts >= MaxRetries THEN {}
    ELSE {Retried(s).retry}

DelayedDeadlineFaultNone(s) == {}

DelayedDeadline(s) ==
    IF SendPeriodic(s).due # None /\ SendPeriodic(s).due > 0 THEN {SendPeriodic(s).due} ELSE {}

PruneDeadlines(s) == {l + Padding : l \in Lefts(Pruned(s))}

AliveDeadlineFaultOld(s) == Period

AliveDeadline(s) == Period - SendPeriodic(s).last

Deadlines(s) ==
    {Period, AliveDeadline(s)} \cup DelayedDeadline(s) \cup PruneDeadlines(s)
      \cup RetryDeadline(s)

-----------------------------------------------------------------------------
Init == st = Fresh /\ sleep = Period

(* The thread's pass, at the end of its wait or earlier. *)
HousekeepingPass ==
    IF st.enabled
    THEN \E again \in BOOLEAN :
            /\ st' = Pass(st, again)
            /\ sleep' = Max({1, Min(Deadlines(st))})
    ELSE st' = st /\ sleep' = Period

Notify == sleep' = 0

(* enable: the first Alive goes out at once, whatever was sent before.     *)
Enable ==
    /\ ~st.enabled
    /\ st' = [Fresh EXCEPT !.enabled = TRUE, !.last = 0, !.crowded = st.crowded]
    /\ Notify

Disable ==
    /\ st.enabled
    /\ st' = [Fresh EXCEPT !.last = st.last, !.crowded = st.crowded]
    /\ Notify

(* A change by the application, or one adopted from the session, or a join *)
(* after a measurement.  Only a delayed broadcast notifies.                *)
StateChanges ==
    /\ st.enabled
    /\ st' = Awaited(ScheduleBroadcast(st))
    /\ IF st.last >= Spacing THEN sleep' = sleep ELSE Notify

(* An Alive or a Response is heard. *)
PeerHeard ==
    /\ st.enabled
    /\ \E p \in Peers, ttl \in Ttls : st' = [st EXCEPT !.left[p] = ttl]
    /\ Notify

(* A ByeBye, or a gateway closed. *)
PeerLeaves ==
    /\ st.enabled
    /\ \E p \in Peers :
         /\ st.left[p] # None
         /\ st' = Awaited(Lost(st, [st.left EXCEPT ![p] = None]))
    /\ Notify

(* Gossip of another session, which is to be measured. *)
MeasurementQueued ==
    /\ st.enabled /\ st.pending < MaxPending
    /\ st' = StartNextMeasurement([st EXCEPT !.pending = @ + 1])
    /\ IF st.retry = None THEN Notify ELSE sleep' = sleep

(* A pong is one sample more, or ends the measurement. *)
PongArrives ==
    /\ st.retry # None
    /\ \/ st' = [st EXCEPT !.retry = Retry] /\ Notify
       \/ /\ st' = StartNextMeasurement([st EXCEPT !.retry = None])
          /\ IF st.pending > 0 THEN Notify ELSE sleep' = sleep

(* Time passes, no further than the end of the wait. *)
Tick ==
    /\ sleep > 0
    /\ sleep' = sleep - 1
    /\ st' = [st EXCEPT !.last = IF @ < Period THEN @ + 1 ELSE @,
                        !.due = IF @ = None THEN None ELSE @ - 1,
                        !.left = [p \in Peers |-> IF @[p] = None THEN None ELSE @[p] - 1],
                        !.retry = IF @ = None THEN None ELSE @ - 1,
                        !.unheard = IF @ = None THEN None ELSE @ + 1]

Next ==
    \/ HousekeepingPass \/ Tick \/ Enable \/ Disable \/ StateChanges
    \/ PeerHeard \/ PeerLeaves \/ MeasurementQueued \/ PongArrives

Spec == Init /\ [][Next]_vars
-----------------------------------------------------------------------------
(* What must hold. *)

(* While enabled a peer never broadcasts twice within the minimum spacing, *)
(* whichever of the periodic Alive, the delayed broadcast and changes that *)
(* go out at once come together.                                           *)
SpacingKept == ~st.crowded

(* A change that a handler or the application makes is broadcast within    *)
(* the minimum spacing, however many follow it, and no change is left      *)
(* without a broadcast due.                                                *)
ToldInTime ==
    /\ st.unheard # None => st.unheard <= Spacing
    /\ st.enabled /\ ~st.told => st.due # None

(* The peer is never silent for longer than the period, and no change, not *)
(* even one the pass itself makes, waits longer than that.                 *)
NeverSilent ==
    st.enabled => /\ st.last <= Period
                  /\ st.last = Period => sleep = 0

(* No entry outlives its ttl by more than the padding, although the timer  *)
(* follows the earliest deadline only and refreshes move it.               *)
PrunedInTime == \A l \in Lefts(st) : l >= -Padding
=============================================================================
