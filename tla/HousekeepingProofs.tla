------------------------- MODULE HousekeepingProofs -------------------------
(***************************************************************************)
(* Housekeeping keeps its four promises for any number of peers, any ttls, *)
(* periods, padding and retry budget.  Time counts in ticks, and the proof *)
(* is arithmetic over one record: what a handler or a pass leaves in it,   *)
(* and how the wait relates to every deadline in it.                       *)
(***************************************************************************)
EXTENDS Housekeeping, WellFoundedInduction, TLAPS

Deadline == Int \cup {None}

Timers ==
    [enabled : BOOLEAN, last : 0..Period, due : Deadline,
     left : [Peers -> Deadline], retry : Deadline, timeouts : Int, pending : Int,
     told : BOOLEAN, unheard : Deadline, crowded : BOOLEAN]

(* A delayed broadcast is due when the spacing since the last one is over, *)
(* nothing is untold without one, and whoever waits since a handler's      *)
(* change will have waited no longer than the spacing by then.             *)
Spaced(s) ==
    /\ ~s.crowded
    /\ s.due # None => s.last + s.due = Spacing
    /\ s.enabled /\ ~s.told => s.due # None
    /\ s.unheard # None => /\ s.due # None
                           /\ s.unheard <= Spacing
                           /\ s.unheard + s.due <= Spacing

(* A disabled peer has no deadlines. *)
Idle(s) ==
    ~s.enabled => s.due = None /\ s.unheard = None /\ \A p \in Peers : s.left[p] = None

(* The thread's wait ends by every deadline that somebody relies on. *)
Waits(s, d) ==
    /\ d \in Nat
    /\ s.enabled => d <= Period - s.last
    /\ s.unheard # None => d = 0 \/ d <= s.due
    /\ \A p \in Peers : s.left[p] # None => d <= s.left[p] + Padding

HInv == st \in Timers /\ Spaced(st) /\ Idle(st) /\ Waits(st, sleep)

(* What a stage of the pass may do to the broadcasts: keep them, schedule  *)
(* one at its due time, or send.                                           *)
Follows(s, r) ==
    /\ r \in Timers /\ Spaced(r)
    /\ r.enabled = s.enabled
    /\ r.last \in {0, s.last}
    /\ r.unheard # None => r.unheard = s.unheard /\ r.due = s.due

-----------------------------------------------------------------------------
(* Numbers. *)

LEMMA LeastElement ==
    ASSUME NEW T, T \subseteq Nat, T # {}
    PROVE  Min(T) \in T /\ \A y \in T : Min(T) <= y
<1> DEFINE R == OpToRel(<, Nat)
<1>1. IsWellFoundedOn(R, Nat)
  BY NatLessThanWellFounded, Zenon
<1> HIDE DEF R
<1>2. PICK x \in T : \A y \in T : ~ (<<y, x>> \in R)
  BY <1>1, WFMin
<1>3. \A y \in T : <<y, x>> \in R <=> y < x
  BY Zenon DEF OpToRel, R
<1>4. \A y \in T : x <= y
  <2> TAKE y \in T
  <2>1. ~ (y < x)
    BY <1>2, <1>3
  <2>2. x \in Nat /\ y \in Nat
    OBVIOUS
  <2> QED
    BY <2>1, <2>2
<1> QED
  BY <1>4 DEF Min

LEMMA AtLeastOne ==
    ASSUME NEW m \in Nat, m >= 1
    PROVE  Max({1, m}) = m
BY DEF Max

-----------------------------------------------------------------------------
(* Broadcasts. *)

LEMMA SendAliveSpaced ==
    ASSUME NEW s \in Timers, ~s.crowded, s.last >= Spacing
    PROVE  /\ SendAlive(s) \in Timers
           /\ Spaced(SendAlive(s))
           /\ SendAlive(s).last = 0 /\ SendAlive(s).due = None
           /\ SendAlive(s).unheard = None /\ SendAlive(s).told
           /\ SendAlive(s).left = s.left /\ SendAlive(s).enabled = s.enabled
           /\ SendAlive(s).retry = s.retry /\ SendAlive(s).timeouts = s.timeouts
<1> DEFINE r == SendAlive(s)
<1>1. r = [s EXCEPT !.last = 0, !.due = None, !.told = TRUE, !.unheard = None,
                    !.crowded = s.crowded \/ s.last < Spacing]
  BY DEF SendAlive
<1>2. s.last \in 0..Period /\ ~(s.last < Spacing)
  BY HousekeepingAssumption DEF Timers
<1>3. r = [s EXCEPT !.last = 0, !.due = None, !.told = TRUE, !.unheard = None,
                    !.crowded = FALSE]
  BY <1>1, <1>2
<1> HIDE DEF r
<1>4. 0 \in 0..Period
  BY HousekeepingAssumption
<1>5. r \in Timers
  BY <1>3, <1>4 DEF Timers, Deadline
<1>6. /\ r.last = 0 /\ r.due = None /\ r.unheard = None /\ r.told /\ ~r.crowded
      /\ r.left = s.left /\ r.enabled = s.enabled /\ r.retry = s.retry
      /\ r.timeouts = s.timeouts
  BY <1>3 DEF Timers
<1>7. Spaced(r)
  BY <1>6 DEF Spaced
<1> QED
  BY <1>5, <1>6, <1>7 DEF r

LEMMA ScheduleSpaced ==
    ASSUME NEW s \in Timers, Spaced(s)
    PROVE  /\ Follows(s, ScheduleBroadcast(s))
           /\ ScheduleBroadcast(s).left = s.left
           /\ ScheduleBroadcast(s).retry = s.retry
           /\ ScheduleBroadcast(s).timeouts = s.timeouts
           /\ s.last >= Spacing => ScheduleBroadcast(s).told
<1> DEFINE u == [s EXCEPT !.told = FALSE]
<1>1. u \in Timers
  BY DEF Timers
<1>2. /\ u.last = s.last /\ u.crowded = s.crowded /\ u.left = s.left
      /\ u.enabled = s.enabled /\ u.retry = s.retry /\ u.timeouts = s.timeouts
  BY DEF Timers
<1>3. CASE s.last >= Spacing
  <2>1. ScheduleBroadcast(s) = SendAlive(u)
    BY <1>3 DEF ScheduleBroadcast
  <2> HIDE DEF u
  <2>2. ~u.crowded /\ u.last >= Spacing
    BY <1>2, <1>3 DEF Spaced
  <2> QED
    BY <1>1, <1>2, <2>1, <2>2, SendAliveSpaced DEF Follows
<1>4. CASE ~(s.last >= Spacing)
  <2> DEFINE r == ScheduleBroadcast(s)
  <2>1. r = [s EXCEPT !.told = FALSE, !.due = Spacing - s.last]
    BY <1>4 DEF ScheduleBroadcast
  <2>2. s.last \in Int /\ Spacing \in Int /\ Spacing - s.last \in Int
    BY HousekeepingAssumption DEF Timers
  <2> HIDE DEF r
  <2>3. r \in Timers
    BY <2>1, <2>2 DEF Timers, Deadline
  <2>4. /\ r.due = Spacing - s.last /\ r.last = s.last /\ r.unheard = s.unheard
        /\ r.crowded = s.crowded /\ r.left = s.left /\ r.enabled = s.enabled
        /\ r.retry = s.retry /\ r.timeouts = s.timeouts
    BY <2>1 DEF Timers
  <2>5. r.due # None /\ r.last + r.due = Spacing
    BY <2>2, <2>4, HousekeepingAssumption
  <2>6. s.unheard # None => r.due = s.due
    <3>1. s.due \in Deadline
      BY DEF Timers
    <3> QED
      BY <2>2, <2>4, <3>1 DEF Spaced, Deadline
  <2>7. Spaced(r)
    BY <2>4, <2>5, <2>6 DEF Spaced
  <2> QED
    BY <1>4, <2>3, <2>4, <2>6, <2>7 DEF Follows, r
<1> QED
  BY <1>3, <1>4

-----------------------------------------------------------------------------
(* The stages of a pass. *)

LEMMA FollowsItself ==
    ASSUME NEW s \in Timers, Spaced(s)
    PROVE  Follows(s, s)
BY DEF Follows

LEMMA FollowsOn ==
    ASSUME NEW s, NEW r, NEW t, Follows(s, r), Follows(r, t)
    PROVE  Follows(s, t)
BY DEF Follows

LEMMA PeriodicSpaced ==
    ASSUME NEW s \in Timers, Spaced(s)
    PROVE  /\ Follows(s, SendPeriodic(s))
           /\ SendPeriodic(s).left = s.left
           /\ SendPeriodic(s).last < Period
<1>1. s.last \in 0..Period
  BY DEF Timers
<1>2. CASE s.last >= Period
  <2>1. ~s.crowded /\ s.last >= Spacing
    BY <1>1, <1>2, HousekeepingAssumption DEF Spaced
  <2> QED
    BY <1>2, <2>1, SendAliveSpaced, HousekeepingAssumption DEF Follows, SendPeriodic
<1>3. CASE ~(s.last >= Period)
  BY <1>1, <1>3, FollowsItself, HousekeepingAssumption DEF SendPeriodic
<1> QED
  BY <1>2, <1>3

LEMMA DelayedSpaced ==
    ASSUME NEW s \in Timers, Spaced(s)
    PROVE  /\ Follows(s, SendDelayed(s))
           /\ SendDelayed(s).left = s.left
           /\ SendDelayed(s).unheard # None => s.due # None /\ s.due > 0
<1>1. s.last \in Int /\ s.due \in Deadline
  BY DEF Timers
<1>2. CASE s.due # None /\ s.due <= 0
  <2>1. ~s.crowded /\ s.last >= Spacing
    BY <1>1, <1>2, HousekeepingAssumption DEF Spaced, Deadline
  <2> QED
    BY <1>2, <2>1, SendAliveSpaced DEF Follows, SendDelayed
<1>3. CASE ~(s.due # None /\ s.due <= 0)
  BY <1>1, <1>3, FollowsItself DEF SendDelayed, Spaced, Deadline
<1> QED
  BY <1>2, <1>3

LEMMA LostSpaced ==
    ASSUME NEW s \in Timers, Spaced(s), NEW left \in [Peers -> Deadline]
    PROVE  Follows(s, Lost(s, left)) /\ Lost(s, left).left = left
<1> DEFINE gone == [s EXCEPT !.left = left]
<1>1. gone \in Timers
  BY DEF Timers
<1>2. /\ gone.left = left /\ gone.enabled = s.enabled /\ gone.last = s.last
      /\ gone.due = s.due /\ gone.told = s.told /\ gone.unheard = s.unheard
      /\ gone.crowded = s.crowded
  BY DEF Timers
<1>3. Lost(s, left) \in {gone, ScheduleBroadcast(gone)}
  BY DEF Lost
<1> HIDE DEF gone
<1>4. Spaced(gone)
  BY <1>2 DEF Spaced
<1>5. Follows(s, gone)
  BY <1>1, <1>2, <1>4 DEF Follows
<1>6. Follows(s, ScheduleBroadcast(gone)) /\ ScheduleBroadcast(gone).left = left
  BY <1>1, <1>2, <1>4, <1>5, ScheduleSpaced, FollowsOn
<1> QED
  BY <1>2, <1>3, <1>5, <1>6

(* Pruning leaves nothing whose padding is over: the earliest deadline     *)
(* decides whether it runs, and then nothing expired stays.                *)
LEMMA PruneSpaced ==
    ASSUME NEW s \in Timers, Spaced(s)
    PROVE  /\ Follows(s, Prune(s))
           /\ \A p \in Peers : Prune(s).left[p] # None => Prune(s).left[p] > -Padding
<1> DEFINE left == [p \in Peers |-> IF s.left[p] # None /\ s.left[p] <= 0
                                    THEN None ELSE s.left[p]]
<1>1. s.left \in [Peers -> Deadline] /\ \A p \in Peers : s.left[p] \in Deadline
  BY DEF Timers
<1>2. CASE PruneDue(s)
  <2>1. left \in [Peers -> Deadline]
    BY <1>1 DEF Deadline
  <2>2. Prune(s) = Lost(s, left)
    BY <1>2 DEF Prune
  <2>3. \A p \in Peers : left[p] # None => left[p] > -Padding
    <3> SUFFICES ASSUME NEW p \in Peers, left[p] # None
                 PROVE  left[p] > -Padding
      OBVIOUS
    <3>1. left[p] = s.left[p] /\ ~(s.left[p] <= 0) /\ s.left[p] \in Int
      BY <1>1 DEF Deadline
    <3> QED
      BY <3>1, HousekeepingAssumption
  <2> HIDE DEF left
  <2> QED
    BY <2>1, <2>2, <2>3, LostSpaced
<1>3. CASE ~PruneDue(s)
  <2>1. Prune(s) = s
    BY <1>3 DEF Prune
  <2>2. \A p \in Peers : s.left[p] # None => s.left[p] > -Padding
    <3> SUFFICES ASSUME NEW p \in Peers, s.left[p] # None
                 PROVE  s.left[p] > -Padding
      OBVIOUS
    <3>1. s.left[p] \in Lefts(s)
      BY DEF Lefts
    <3>2. ~(s.left[p] <= -Padding)
      BY <1>3, <3>1 DEF PruneDue
    <3>3. s.left[p] \in Int /\ -Padding \in Int
      BY <1>1, HousekeepingAssumption DEF Deadline
    <3> QED
      BY <3>2, <3>3
  <2> QED
    BY <2>1, <2>2, FollowsItself
<1> QED
  BY <1>2, <1>3

(* What belongs to a measurement, retry, timeouts and pending, is apart    *)
(* from the rest.                                                          *)
Apart(s, r) ==
    /\ r \in Timers
    /\ r.enabled = s.enabled /\ r.last = s.last /\ r.due = s.due /\ r.left = s.left
    /\ r.told = s.told /\ r.unheard = s.unheard /\ r.crowded = s.crowded

LEMMA MeasurementApart ==
    ASSUME NEW s \in Timers, NEW retry \in Deadline, NEW timeouts \in Int,
           NEW pending \in Int
    PROVE  Apart(s, [s EXCEPT !.retry = retry, !.timeouts = timeouts, !.pending = pending])
BY DEF Apart, Timers

LEMMA ApartOn ==
    ASSUME NEW s, NEW r, NEW t, Apart(s, r), Apart(r, t)
    PROVE  Apart(s, t)
BY DEF Apart

LEMMA StartApart ==
    ASSUME NEW s \in Timers
    PROVE  Apart(s, StartNextMeasurement(s))
<1>1. Retry \in Deadline /\ 0 \in Int /\ s.pending - 1 \in Int
  BY HousekeepingAssumption DEF Timers, Deadline
<1>2. Apart(s, [s EXCEPT !.retry = Retry, !.timeouts = 0, !.pending = s.pending - 1])
  BY <1>1, MeasurementApart
<1>3. Apart(s, s)
  BY DEF Apart
<1> QED
  BY <1>2, <1>3 DEF StartNextMeasurement

LEMMA RetryApart ==
    ASSUME NEW s \in Timers
    PROVE  Apart(s, RetryMeasurement(s))
<1>1. [s EXCEPT !.retry = None] \in Timers /\ Apart(s, [s EXCEPT !.retry = None])
  BY DEF Apart, Timers, Deadline
<1>2. Apart(s, StartNextMeasurement([s EXCEPT !.retry = None]))
  BY <1>1, StartApart, ApartOn
<1>3. Retry \in Deadline /\ s.timeouts + 1 \in Int
  BY HousekeepingAssumption DEF Timers, Deadline
<1>4. Apart(s, [s EXCEPT !.retry = Retry, !.timeouts = s.timeouts + 1])
  BY <1>3 DEF Apart, Timers
<1>5. Apart(s, s)
  BY DEF Apart
<1> QED
  BY <1>2, <1>4, <1>5 DEF RetryMeasurement

LEMMA RemeasuredApart ==
    ASSUME NEW s \in Timers, NEW again \in BOOLEAN
    PROVE  Apart(s, Remeasured(s, again))
<1>1. Apart(s, [s EXCEPT !.pending = 1])
  BY DEF Apart, Timers
<1>2. Apart(s, s)
  BY DEF Apart
<1> QED
  BY <1>1, <1>2 DEF Remeasured

-----------------------------------------------------------------------------
(* The pass and the wait it computes. *)

LEMMA PruningSpaced ==
    ASSUME NEW s \in Timers, Spaced(s)
    PROVE  /\ Follows(SendPeriodic(s), Pruned(s)) /\ Follows(s, Pruned(s))
           /\ SendPeriodic(s) \in Timers /\ SendPeriodic(s).last < Period
           /\ Pruned(s).unheard # None => SendPeriodic(s).due # None /\ SendPeriodic(s).due > 0
           /\ \A p \in Peers : Pruned(s).left[p] # None => Pruned(s).left[p] > -Padding
<1> DEFINE u == SendPeriodic(s)
           v == SendDelayed(u)
<1>1. Follows(s, u) /\ u.last < Period
  BY PeriodicSpaced
<1> HIDE DEF u
<1>2. u \in Timers /\ Spaced(u)
  BY <1>1 DEF Follows
<1>3. Follows(u, v) /\ (v.unheard # None => u.due # None /\ u.due > 0)
  BY <1>2, DelayedSpaced
<1> HIDE DEF v
<1>4. v \in Timers /\ Spaced(v)
  BY <1>3 DEF Follows
<1>5. Follows(v, Prune(v)) /\ \A p \in Peers : Prune(v).left[p] # None => Prune(v).left[p] > -Padding
  BY <1>4, PruneSpaced
<1>6. Pruned(s) = Prune(v)
  BY DEF Pruned, u, v
<1>7. Prune(v).unheard # None => v.unheard # None
  BY <1>5 DEF Follows, Spaced
<1>8. Follows(u, Prune(v)) /\ Follows(s, Prune(v))
  BY <1>1, <1>3, <1>5, FollowsOn
<1> QED
  BY <1>1, <1>2, <1>3, <1>5, <1>6, <1>7, <1>8 DEF u

LEMMA PassApart ==
    ASSUME NEW s \in Timers, Spaced(s), NEW again \in BOOLEAN
    PROVE  Apart(Pruned(s), Pass(s, again)) /\ Apart(Pruned(s), Retried(s))
<1>1. Pruned(s) \in Timers
  BY PruningSpaced DEF Follows
<1>2. Apart(Pruned(s), Retried(s))
  BY <1>1, RetryApart DEF Retried
<1>3. Retried(s) \in Timers
  BY <1>2 DEF Apart
<1>4. Apart(Retried(s), Remeasured(Retried(s), again))
  BY <1>3, RemeasuredApart
<1>5. Remeasured(Retried(s), again) \in Timers
  BY <1>4 DEF Apart
<1>6. Apart(Remeasured(Retried(s), again), Pass(s, again))
  BY <1>5, StartApart DEF Pass
<1> QED
  BY <1>2, <1>4, <1>6, ApartOn

LEMMA DeadlinesAhead ==
    ASSUME NEW s \in Timers, Spaced(s)
    PROVE  \A d \in Deadlines(s) : d \in Nat /\ d >= 1
<1> DEFINE u == SendPeriodic(s)
           w == Pruned(s)
<1>1. /\ u \in Timers /\ u.last < Period /\ w \in Timers
      /\ \A p \in Peers : w.left[p] # None => w.left[p] > -Padding
  BY PruningSpaced DEF Follows
<1>2. Retried(s) = RetryMeasurement(w)
  BY DEF Retried
<1> HIDE DEF u, w
<1>3. Period \in Nat /\ Period >= 1 /\ Retry \in Nat /\ Retry >= 1 /\ Padding \in Nat
  BY HousekeepingAssumption
<1>4. AliveDeadline(s) \in Nat /\ AliveDeadline(s) >= 1
  <2>1. u.last \in 0..Period
    BY <1>1 DEF Timers
  <2>2. AliveDeadline(s) = Period - u.last
    BY DEF AliveDeadline, u
  <2> QED
    BY <1>1, <1>3, <2>1, <2>2
<1>5. \A d \in DelayedDeadline(s) : d \in Nat /\ d >= 1
  <2>1. u.due \in Deadline
    BY <1>1 DEF Timers
  <2>2. DelayedDeadline(s) = IF u.due # None /\ u.due > 0 THEN {u.due} ELSE {}
    BY DEF DelayedDeadline, u
  <2> QED
    BY <2>1, <2>2 DEF Deadline
<1>6. \A d \in PruneDeadlines(s) : d \in Nat /\ d >= 1
  <2> SUFFICES ASSUME NEW l \in Lefts(w)
               PROVE  l + Padding \in Nat /\ l + Padding >= 1
    BY DEF PruneDeadlines, w
  <2>1. PICK p \in Peers : w.left[p] # None /\ l = w.left[p]
    BY DEF Lefts
  <2>2. l \in Int /\ l > -Padding
    BY <1>1, <2>1 DEF Timers, Deadline
  <2> QED
    BY <1>3, <2>2
<1>7. \A d \in RetryDeadline(s) : d \in Nat /\ d >= 1
  <2>1. w.retry \in Deadline
    BY <1>1 DEF Timers
  <2>2. RetryDeadline(s) =
           IF w.retry = None THEN {}
           ELSE IF RetryDue(w) /\ w.timeouts >= MaxRetries THEN {}
           ELSE {RetryMeasurement(w).retry}
    BY <1>2 DEF RetryDeadline, w
  <2>3. CASE w.retry = None
    BY <2>2, <2>3
  <2>4. CASE w.retry # None /\ RetryDue(w) /\ w.timeouts >= MaxRetries
    BY <2>2, <2>4
  <2>5. CASE w.retry # None /\ RetryDue(w) /\ ~(w.timeouts >= MaxRetries)
    <3>1. RetryMeasurement(w) = [w EXCEPT !.retry = Retry, !.timeouts = w.timeouts + 1]
      BY <2>5 DEF RetryMeasurement
    <3>2. RetryMeasurement(w).retry = Retry
      BY <1>1, <3>1 DEF Timers
    <3> QED
      BY <1>3, <2>2, <2>5, <3>2
  <2>6. CASE w.retry # None /\ ~RetryDue(w)
    <3>1. RetryMeasurement(w) = w
      BY <2>6 DEF RetryMeasurement
    <3>2. w.retry \in Int /\ w.retry > 0
      BY <2>1, <2>6 DEF RetryDue, Deadline
    <3> QED
      BY <2>2, <2>6, <3>1, <3>2
  <2> QED
    BY <2>3, <2>4, <2>5, <2>6
<1> QED
  BY <1>3, <1>4, <1>5, <1>6, <1>7 DEF Deadlines

(* After a pass the thread waits for the earliest of what it has seen.     *)
LEMMA PassWaits ==
    ASSUME NEW s \in Timers, Spaced(s), s.enabled, NEW again \in BOOLEAN
    PROVE  /\ Pass(s, again) \in Timers /\ Spaced(Pass(s, again))
           /\ Pass(s, again).enabled
           /\ Waits(Pass(s, again), Max({1, Min(Deadlines(s))}))
<1> DEFINE u == SendPeriodic(s)
           w == Pruned(s)
           t == Pass(s, again)
           d == Min(Deadlines(s))
<1>1. /\ u \in Timers /\ u.last < Period /\ Follows(u, w) /\ Follows(s, w)
      /\ w.unheard # None => u.due # None /\ u.due > 0
  BY PruningSpaced
<1>2. Apart(w, t)
  BY PassApart
<1>3. /\ d \in Deadlines(s) /\ \A e \in Deadlines(s) : d <= e
      /\ d \in Nat /\ d >= 1
  <2>1. Deadlines(s) \subseteq Nat /\ Deadlines(s) # {}
    BY DeadlinesAhead DEF Deadlines
  <2> QED
    BY <2>1, DeadlinesAhead, LeastElement
<1>4. Max({1, d}) = d
  BY <1>3, AtLeastOne
<1>5. t \in Timers /\ Spaced(t) /\ t.enabled
  BY <1>1, <1>2 DEF Follows, Apart, Spaced
<1>6. d <= Period - t.last
  <2>1. Period - u.last \in Deadlines(s)
    BY DEF Deadlines, AliveDeadline
  <2>2. t.last \in {0, u.last} /\ u.last \in 0..Period
    BY <1>1, <1>2 DEF Follows, Apart, Timers
  <2>3. Period \in Deadlines(s)
    BY DEF Deadlines
  <2> HIDE DEF d, t, u
  <2>4. CASE t.last = 0
    BY <1>3, <2>3, <2>4, HousekeepingAssumption
  <2>5. CASE t.last = u.last
    BY <1>3, <2>1, <2>5
  <2> QED
    BY <2>2, <2>4, <2>5
<1>7. t.unheard # None => d <= t.due
  <2> SUFFICES ASSUME t.unheard # None
               PROVE  d <= t.due
    OBVIOUS
  <2>1. w.unheard # None /\ t.due = w.due
    BY <1>2 DEF Apart
  <2>2. w.due = u.due /\ u.due # None /\ u.due > 0
    BY <1>1, <2>1 DEF Follows
  <2>3. u.due \in Deadlines(s)
    BY <2>2 DEF Deadlines, DelayedDeadline
  <2> QED
    BY <1>3, <2>1, <2>2, <2>3
<1>8. \A p \in Peers : t.left[p] # None => d <= t.left[p] + Padding
  <2> SUFFICES ASSUME NEW p \in Peers, t.left[p] # None
               PROVE  d <= t.left[p] + Padding
    OBVIOUS
  <2>1. t.left[p] \in Lefts(w)
    BY <1>2 DEF Lefts, Apart
  <2>2. t.left[p] + Padding \in Deadlines(s)
    BY <2>1 DEF Deadlines, PruneDeadlines
  <2> QED
    BY <1>3, <2>2
<1> HIDE DEF d, t, u, w
<1>9. Waits(t, d)
  BY <1>3, <1>6, <1>7, <1>8 DEF Waits
<1> QED
  BY <1>4, <1>5, <1>9 DEF d, t

-----------------------------------------------------------------------------
(* The actions. *)

LEMMA InitHolds == Init => HInv
<1> SUFFICES ASSUME Init
             PROVE  HInv
  OBVIOUS
<1>1. /\ Period \in 0..Period /\ None \in Deadline /\ 0 \in Int
      /\ [p \in Peers |-> None] \in [Peers -> Deadline]
  BY HousekeepingAssumption DEF Deadline
<1>2. Fresh \in Timers
  BY <1>1 DEF Fresh, Timers
<1>3. Spaced(Fresh) /\ Idle(Fresh) /\ Waits(Fresh, Period)
  BY HousekeepingAssumption DEF Fresh, Spaced, Idle, Waits
<1> QED
  BY <1>2, <1>3 DEF Init, HInv

LEMMA PassHolds == HInv /\ HousekeepingPass => HInv'
<1> SUFFICES ASSUME HInv, HousekeepingPass
             PROVE  HInv'
  OBVIOUS
<1>1. CASE st.enabled
  <2>1. PICK again \in BOOLEAN : /\ st' = Pass(st, again)
                                 /\ sleep' = Max({1, Min(Deadlines(st))})
    BY <1>1 DEF HousekeepingPass
  <2>2. /\ st' \in Timers /\ Spaced(st') /\ st'.enabled /\ Waits(st', sleep')
    BY <1>1, <2>1, PassWaits DEF HInv
  <2> QED
    BY <2>2 DEF HInv, Idle
<1>2. CASE ~st.enabled
  <2>1. st' = st /\ sleep' = Period
    BY <1>2 DEF HousekeepingPass
  <2>2. Waits(st, Period)
    BY <1>2, HousekeepingAssumption DEF HInv, Waits, Idle
  <2> QED
    BY <2>1, <2>2 DEF HInv
<1> QED
  BY <1>1, <1>2

(* Whoever changes the timers and wakes the thread has nothing to show of  *)
(* the wait but that it ends now: every deadline relied on is still ahead. *)
LEMMA NotifiedWaits ==
    ASSUME NEW s \in Timers, NEW r \in Timers, NEW d, Waits(s, d), Idle(r),
           \A p \in Peers : r.left[p] # None => r.left[p] \in Nat \/ r.left[p] = s.left[p]
    PROVE  Waits(r, 0)
<1>1. r.last \in 0..Period /\ s.left \in [Peers -> Deadline]
  BY DEF Timers
<1>2. \A p \in Peers : r.left[p] # None => 0 <= r.left[p] + Padding
  <2> SUFFICES ASSUME NEW p \in Peers, r.left[p] # None
               PROVE  0 <= r.left[p] + Padding
    OBVIOUS
  <2>1. CASE r.left[p] \in Nat
    BY <2>1, HousekeepingAssumption
  <2>2. CASE r.left[p] = s.left[p]
    <3>1. s.left[p] \in Int /\ d <= s.left[p] + Padding /\ d \in Nat
      BY <1>1, <2>2 DEF Waits, Deadline
    <3> QED
      BY <2>2, <3>1, HousekeepingAssumption
  <2> QED
    BY <2>1, <2>2
<1> QED
  BY <1>1, <1>2, HousekeepingAssumption DEF Waits

LEMMA TickHolds == HInv /\ Tick => HInv'
<1> SUFFICES ASSUME HInv, Tick
             PROVE  HInv'
  OBVIOUS
<1> DEFINE last == IF st.last < Period THEN st.last + 1 ELSE st.last
           due == IF st.due = None THEN None ELSE st.due - 1
           left == [p \in Peers |-> IF st.left[p] = None THEN None ELSE st.left[p] - 1]
           retry == IF st.retry = None THEN None ELSE st.retry - 1
           unheard == IF st.unheard = None THEN None ELSE st.unheard + 1
<1>1. st' = [st EXCEPT !.last = last, !.due = due, !.left = left, !.retry = retry,
                       !.unheard = unheard]
  BY DEF Tick
<1>2. /\ st.last \in 0..Period /\ st.due \in Deadline /\ st.left \in [Peers -> Deadline]
      /\ st.retry \in Deadline /\ st.unheard \in Deadline /\ st \in Timers
  BY DEF HInv, Timers
<1>3. sleep \in Nat /\ sleep > 0 /\ sleep' = sleep - 1 /\ sleep' \in Nat
  BY DEF HInv, Waits, Tick
<1>4. last \in 0..Period
  BY <1>2, HousekeepingAssumption
<1>5. due \in Deadline /\ retry \in Deadline /\ unheard \in Deadline
  BY <1>2 DEF Deadline
<1>6. left \in [Peers -> Deadline]
  BY <1>2 DEF Deadline
<1>7. \A p \in Peers : left[p] # None => st.left[p] \in Int /\ left[p] = st.left[p] - 1
  BY <1>2 DEF Deadline
<1>8. due # None => st.due \in Int /\ due = st.due - 1
  BY <1>2 DEF Deadline
<1>9. unheard # None => st.unheard \in Int /\ unheard = st.unheard + 1
  BY <1>2 DEF Deadline
<1>10. st.enabled => last = st.last + 1
  BY <1>2, <1>3, HousekeepingAssumption DEF HInv, Waits
<1>11. st.due = None => due = None
  OBVIOUS
<1>12. st.due # None => due # None
  BY <1>2, HousekeepingAssumption DEF Deadline
<1>13. st.unheard = None => unheard = None
  OBVIOUS
<1>14. \A p \in Peers : st.left[p] = None => left[p] = None
  OBVIOUS
<1> HIDE DEF last, due, left, retry, unheard
<1>15. st' \in Timers
  BY <1>1, <1>2, <1>4, <1>5, <1>6 DEF Timers
<1>16. /\ st'.last = last /\ st'.due = due /\ st'.left = left /\ st'.unheard = unheard
       /\ st'.enabled = st.enabled /\ st'.told = st.told /\ st'.crowded = st.crowded
  BY <1>1, <1>2 DEF Timers
<1>17. Idle(st')
  BY <1>11, <1>13, <1>14, <1>16 DEF HInv, Idle
<1>18. Spaced(st')
  <2>1. st'.due # None => st'.last + st'.due = Spacing
    <3> SUFFICES ASSUME due # None
                 PROVE  last + due = Spacing
      BY <1>16
    <3>1. st.due # None /\ st.enabled
      BY <1>11, <1>12 DEF HInv, Idle
    <3>2. st.last + st.due = Spacing
      BY <3>1 DEF HInv, Spaced
    <3> QED
      BY <1>2, <1>8, <1>10, <3>1, <3>2, HousekeepingAssumption
  <2>2. st'.unheard # None => /\ st'.due # None /\ st'.unheard <= Spacing
                              /\ st'.unheard + st'.due <= Spacing
    <3> SUFFICES ASSUME unheard # None
                 PROVE  due # None /\ unheard <= Spacing /\ unheard + due <= Spacing
      BY <1>16
    <3>1. /\ st.unheard # None /\ st.due # None
          /\ st.unheard + st.due <= Spacing /\ sleep <= st.due
      BY <1>3, <1>13 DEF HInv, Spaced, Waits
    <3> QED
      BY <1>2, <1>3, <1>8, <1>9, <1>12, <3>1, HousekeepingAssumption
  <2> QED
    BY <1>12, <1>16, <2>1, <2>2 DEF HInv, Spaced
<1>19. Waits(st', sleep')
  <2>1. st'.enabled => sleep' <= Period - st'.last
    BY <1>2, <1>3, <1>10, <1>16, HousekeepingAssumption DEF HInv, Waits
  <2>2. st'.unheard # None => sleep' = 0 \/ sleep' <= st'.due
    <3> SUFFICES ASSUME unheard # None
                 PROVE  sleep' <= due
      BY <1>16
    <3>1. st.unheard # None /\ st.due # None /\ sleep <= st.due
      BY <1>3, <1>13 DEF HInv, Spaced, Waits
    <3> QED
      BY <1>3, <1>8, <1>12, <3>1
  <2>3. \A p \in Peers : st'.left[p] # None => sleep' <= st'.left[p] + Padding
    <3> SUFFICES ASSUME NEW p \in Peers, left[p] # None
                 PROVE  sleep' <= left[p] + Padding
      BY <1>16
    <3>1. sleep <= st.left[p] + Padding
      BY <1>14 DEF HInv, Waits
    <3> QED
      BY <1>3, <1>7, <3>1, HousekeepingAssumption
  <2> QED
    BY <1>3, <2>1, <2>2, <2>3 DEF Waits
<1> QED
  BY <1>15, <1>17, <1>18, <1>19 DEF HInv

LEMMA EnableHolds == HInv /\ (Enable \/ Disable) => HInv'
<1> SUFFICES ASSUME HInv, Enable \/ Disable
             PROVE  HInv'
  OBVIOUS
<1>1. /\ 0 \in 0..Period /\ None \in Deadline /\ 0 \in Int
      /\ [p \in Peers |-> None] \in [Peers -> Deadline]
  BY HousekeepingAssumption DEF Deadline
<1>2. st.last \in 0..Period /\ st.crowded = FALSE
  BY DEF HInv, Timers, Spaced
<1>3. sleep' = 0
  BY DEF Enable, Disable, Notify
<1>4. PICK on \in BOOLEAN, last \in 0..Period :
        st' = [enabled |-> on, last |-> last, due |-> None,
               left |-> [p \in Peers |-> None], retry |-> None, timeouts |-> 0,
               pending |-> 0, told |-> TRUE, unheard |-> None, crowded |-> FALSE]
  <2>1. CASE Enable
    BY <1>1, <1>2, <2>1 DEF Enable, Fresh
  <2>2. CASE Disable
    BY <1>1, <1>2, <2>2 DEF Disable, Fresh
  <2> QED
    BY <2>1, <2>2
<1>5. st' \in Timers
  BY <1>1, <1>4 DEF Timers
<1>6. Spaced(st') /\ Idle(st') /\ Waits(st', 0)
  BY <1>4, HousekeepingAssumption DEF Spaced, Idle, Waits
<1> QED
  BY <1>3, <1>5, <1>6 DEF HInv

LEMMA AwaitedSpaced ==
    ASSUME NEW s \in Timers, Spaced(s), s.enabled
    PROVE  /\ Awaited(s) \in Timers /\ Spaced(Awaited(s)) /\ Awaited(s).enabled
           /\ Awaited(s).left = s.left /\ Awaited(s).last = s.last
           /\ s.told /\ s.unheard = None => Awaited(s).unheard = None
<1> DEFINE r == [s EXCEPT !.unheard = 0]
<1>1. CASE ~s.told /\ s.unheard = None
  <2>1. Awaited(s) = r
    BY <1>1 DEF Awaited
  <2>2. r \in Timers
    BY DEF Timers, Deadline
  <2>3. /\ r.unheard = 0 /\ r.due = s.due /\ r.last = s.last /\ r.left = s.left
        /\ r.told = s.told /\ r.enabled = s.enabled /\ r.crowded = s.crowded
    BY DEF Timers
  <2>4. s.due \in Deadline /\ s.last \in 0..Period
    BY DEF Timers
  <2>5. s.due # None /\ s.due \in Int /\ s.last + s.due = Spacing
    BY <1>1, <2>4 DEF Spaced, Deadline
  <2> HIDE DEF r
  <2>6. Spaced(r)
    BY <2>3, <2>4, <2>5, HousekeepingAssumption DEF Spaced
  <2> QED
    BY <1>1, <2>1, <2>2, <2>3, <2>6
<1>2. CASE ~(~s.told /\ s.unheard = None)
  <2>1. Awaited(s) = [s EXCEPT !.unheard = s.unheard]
    BY <1>2 DEF Awaited
  <2>2. Awaited(s) = s
    BY <2>1 DEF Timers
  <2> QED
    BY <2>2
<1> QED
  BY <1>1, <1>2

LEMMA StateChangesHolds == HInv /\ StateChanges => HInv'
<1> SUFFICES ASSUME HInv, StateChanges
             PROVE  HInv'
  OBVIOUS
<1> DEFINE r == ScheduleBroadcast(st)
           t == Awaited(r)
<1>1. st \in Timers /\ Spaced(st) /\ st.enabled /\ Waits(st, sleep) /\ st' = t
  BY DEF HInv, StateChanges
<1>2. Follows(st, r) /\ r.left = st.left /\ (st.last >= Spacing => r.told)
  BY <1>1, ScheduleSpaced
<1>3. r \in Timers /\ Spaced(r) /\ r.enabled /\ r.last \in {0, st.last}
  BY <1>1, <1>2 DEF Follows
<1> HIDE DEF r
<1>4. /\ t \in Timers /\ Spaced(t) /\ t.enabled /\ t.left = r.left /\ t.last = r.last
      /\ r.told /\ r.unheard = None => t.unheard = None
  BY <1>3, AwaitedSpaced
<1> HIDE DEF t
<1>5. Idle(t)
  BY <1>4 DEF Idle
<1>6. CASE st.last >= Spacing
  <2>1. sleep' = sleep
    BY <1>6 DEF StateChanges
  <2>2. r.unheard = None
    <3> DEFINE u == [st EXCEPT !.told = FALSE]
    <3>1. u \in Timers /\ u.last = st.last /\ ~u.crowded
      BY <1>1 DEF Timers, Spaced
    <3>2. r = SendAlive(u)
      BY <1>6 DEF r, ScheduleBroadcast
    <3> HIDE DEF u
    <3> QED
      BY <1>6, <3>1, <3>2, SendAliveSpaced
  <2>3. t.unheard = None
    BY <1>2, <1>4, <1>6, <2>2
  <2>4. st.last \in 0..Period /\ sleep \in Nat /\ sleep <= Period - st.last
    BY <1>1 DEF Timers, Waits
  <2>5. sleep <= Period - t.last
    BY <1>3, <1>4, <2>4, HousekeepingAssumption
  <2>6. Waits(t, sleep)
    BY <1>1, <1>2, <1>4, <2>3, <2>4, <2>5 DEF Waits
  <2> QED
    BY <1>1, <1>4, <1>5, <2>1, <2>6 DEF HInv
<1>7. CASE ~(st.last >= Spacing)
  <2>1. sleep' = 0
    BY <1>7 DEF StateChanges, Notify
  <2>2. Waits(t, 0)
    BY <1>1, <1>2, <1>4, <1>5, NotifiedWaits
  <2> QED
    BY <1>1, <1>4, <1>5, <2>1, <2>2 DEF HInv
<1> QED
  BY <1>6, <1>7

LEMMA PeerHeardHolds == HInv /\ PeerHeard => HInv'
<1> SUFFICES ASSUME HInv, PeerHeard
             PROVE  HInv'
  OBVIOUS
<1>1. PICK p \in Peers, ttl \in Ttls : st' = [st EXCEPT !.left[p] = ttl]
  BY DEF PeerHeard
<1>2. ttl \in Nat /\ st \in Timers /\ st.enabled /\ st.left \in [Peers -> Deadline]
  BY HousekeepingAssumption DEF HInv, Timers, PeerHeard
<1> DEFINE left == [st.left EXCEPT ![p] = ttl]
<1>3. left \in [Peers -> Deadline]
  BY <1>2 DEF Deadline
<1>4. \A q \in Peers : left[q] \in Nat \/ left[q] = st.left[q]
  BY <1>2
<1>5. st' = [st EXCEPT !.left = left]
  BY <1>1
<1> HIDE DEF left
<1>6. st' \in Timers
  BY <1>2, <1>3, <1>5 DEF Timers
<1>7. /\ st'.left = left /\ st'.last = st.last /\ st'.due = st.due /\ st'.told = st.told
      /\ st'.unheard = st.unheard /\ st'.crowded = st.crowded /\ st'.enabled = st.enabled
  BY <1>2, <1>5 DEF Timers
<1>8. Spaced(st') /\ Idle(st')
  BY <1>2, <1>7 DEF HInv, Spaced, Idle
<1>9. Waits(st', 0)
  BY <1>2, <1>4, <1>6, <1>7, <1>8, NotifiedWaits DEF HInv
<1> QED
  BY <1>6, <1>8, <1>9 DEF HInv, PeerHeard, Notify

LEMMA PeerLeavesHolds == HInv /\ PeerLeaves => HInv'
<1> SUFFICES ASSUME HInv, PeerLeaves
             PROVE  HInv'
  OBVIOUS
<1>1. PICK p \in Peers : st' = Awaited(Lost(st, [st.left EXCEPT ![p] = None]))
  BY DEF PeerLeaves
<1>2. st \in Timers /\ Spaced(st) /\ st.enabled /\ st.left \in [Peers -> Deadline]
  BY DEF HInv, Timers, PeerLeaves
<1> DEFINE left == [st.left EXCEPT ![p] = None]
           r == Lost(st, left)
<1>3. left \in [Peers -> Deadline]
  BY <1>2 DEF Deadline
<1>4. \A q \in Peers : left[q] # None => left[q] = st.left[q]
  BY <1>2
<1> HIDE DEF left
<1>5. Follows(st, r) /\ r.left = left
  BY <1>2, <1>3, LostSpaced
<1> HIDE DEF r
<1>6. r \in Timers /\ Spaced(r) /\ r.enabled
  BY <1>2, <1>5 DEF Follows
<1>7. st' = Awaited(r)
  BY <1>1 DEF r, left
<1>8. st' \in Timers /\ Spaced(st') /\ st'.enabled /\ st'.left = left
  BY <1>5, <1>6, <1>7, AwaitedSpaced
<1>9. Idle(st')
  BY <1>8 DEF Idle
<1>10. Waits(st', 0)
  BY <1>2, <1>4, <1>8, <1>9, NotifiedWaits DEF HInv
<1> QED
  BY <1>8, <1>9, <1>10 DEF HInv, PeerLeaves, Notify

(* Nothing that Spaced, Idle and Waits look at belongs to a measurement.   *)
LEMMA ApartHolds ==
    ASSUME HInv, Apart(st, st'), sleep' \in {0, sleep}
    PROVE  HInv'
<1>1. st' \in Timers /\ Spaced(st') /\ Idle(st') /\ Waits(st', sleep)
  BY DEF HInv, Apart, Spaced, Idle, Waits
<1>2. Waits(st', 0)
  BY <1>1, NotifiedWaits DEF HInv
<1> QED
  BY <1>1, <1>2 DEF HInv

LEMMA MeasurementHolds == HInv /\ (MeasurementQueued \/ PongArrives) => HInv'
<1> SUFFICES ASSUME HInv, MeasurementQueued \/ PongArrives
             PROVE  HInv'
  OBVIOUS
<1>1. st \in Timers /\ st.pending \in Int
  BY DEF HInv, Timers
<1>2. CASE MeasurementQueued
  <2> DEFINE r == [st EXCEPT !.pending = st.pending + 1]
  <2>1. Apart(st, r) /\ r \in Timers
    BY <1>1 DEF Apart, Timers
  <2>2. st' = StartNextMeasurement(r) /\ sleep' \in {0, sleep}
    BY <1>2 DEF MeasurementQueued, Notify
  <2> HIDE DEF r
  <2> QED
    BY <2>1, <2>2, StartApart, ApartOn, ApartHolds
<1>3. CASE PongArrives /\ st' = [st EXCEPT !.retry = Retry] /\ Notify
  <2>1. Apart(st, st')
    BY <1>1, <1>3, HousekeepingAssumption DEF Apart, Timers, Deadline
  <2> QED
    BY <1>3, <2>1, ApartHolds DEF Notify
<1>4. CASE /\ st' = StartNextMeasurement([st EXCEPT !.retry = None])
           /\ sleep' \in {0, sleep}
  <2> DEFINE r == [st EXCEPT !.retry = None]
  <2>1. Apart(st, r) /\ r \in Timers
    BY <1>1 DEF Apart, Timers, Deadline
  <2>2. st' = StartNextMeasurement(r)
    BY <1>4
  <2> HIDE DEF r
  <2> QED
    BY <1>4, <2>1, <2>2, StartApart, ApartOn, ApartHolds
<1> QED
  BY <1>2, <1>3, <1>4 DEF PongArrives, Notify

(* The invariant, for every number of peers and every value of the         *)
(* periods (housekeeping_pass, schedule_state_broadcast, spawn_housekeeping). *)
THEOREM HousekeepingInvariance == Spec => []HInv
<1>1. Init => HInv
  BY InitHolds
<1>2. HInv /\ [Next]_vars => HInv'
  <2>1. HInv /\ UNCHANGED vars => HInv'
    BY DEF HInv, vars
  <2> QED
    BY <2>1, PassHolds, TickHolds, EnableHolds, StateChangesHolds, PeerHeardHolds,
       PeerLeavesHolds, MeasurementHolds
       DEF Next
<1> QED
  BY <1>1, <1>2, PTL DEF Spec

(* No two broadcasts of an enabled peer come within the minimum spacing    *)
(* (send_alive, schedule_state_broadcast).                                 *)
THEOREM SpacingAlwaysKept == Spec => []SpacingKept
<1>1. HInv => SpacingKept
  BY DEF HInv, Spaced, SpacingKept
<1> QED
  BY <1>1, HousekeepingInvariance, PTL

(* A handler's change is told within the minimum spacing                   *)
(* (schedule_state_broadcast, housekeeping_pass, and the wait between).    *)
THEOREM AlwaysToldInTime == Spec => []ToldInTime
<1>1. HInv => ToldInTime
  BY DEF HInv, Spaced, ToldInTime
<1> QED
  BY <1>1, HousekeepingInvariance, PTL

(* The peer is never silent for longer than the period (the periodic Alive *)
(* of housekeeping_pass).                                                  *)
THEOREM NeverEverSilent == Spec => []NeverSilent
<1>1. HInv => NeverSilent
  <2> SUFFICES ASSUME HInv, st.enabled
               PROVE  st.last <= Period /\ (st.last = Period => sleep = 0)
    BY DEF NeverSilent
  <2>1. st.last \in 0..Period /\ sleep \in Nat /\ sleep <= Period - st.last
    BY DEF HInv, Timers, Waits
  <2> QED
    BY <2>1, HousekeepingAssumption
<1> QED
  BY <1>1, HousekeepingInvariance, PTL

(* No entry of the peer table outlives its ttl by more than the padding    *)
(* (the prune timer of housekeeping_pass).                                 *)
THEOREM AlwaysPrunedInTime == Spec => []PrunedInTime
<1>1. HInv => PrunedInTime
  <2> SUFFICES ASSUME HInv, NEW l \in Lefts(st)
               PROVE  l >= -Padding
    BY DEF PrunedInTime
  <2>1. PICK p \in Peers : st.left[p] # None /\ l = st.left[p]
    BY DEF Lefts
  <2>2. l \in Int /\ sleep \in Nat /\ sleep <= l + Padding
    BY <2>1 DEF HInv, Timers, Waits, Deadline
  <2> QED
    BY <2>2, HousekeepingAssumption
<1> QED
  BY <1>1, HousekeepingInvariance, PTL

=============================================================================
