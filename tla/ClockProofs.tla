----------------------------- MODULE ClockProofs -----------------------------
(***************************************************************************)
(* What the arithmetic of beats and times keeps, for any tempo, quantum    *)
(* and resolution.                                                         *)
(***************************************************************************)
EXTENDS Clock, TLAPS

Timelines == [tempo : Nat \ {0}, beat_origin : Int, time_origin : Int]

-----------------------------------------------------------------------------
(* Division. *)

(* What % and \div are. *)
LEMMA ModDiv ==
    ASSUME NEW n \in Int, NEW d \in Nat \ {0}
    PROVE  /\ n \div d \in Int
           /\ n % d \in 0 .. d - 1
           /\ n = d * (n \div d) + (n % d)
  BY SMT

LEMMA ModUnique ==
    ASSUME NEW d \in Nat \ {0}, NEW k \in Int, NEW w \in 0 .. d - 1
    PROVE  (d * k + w) % d = w
  BY SMT

(* Multiples of the divisor do not count. *)
LEMMA ModShift ==
    ASSUME NEW d \in Nat \ {0}, NEW k \in Int, NEW n \in Int
    PROVE  (n + d * k) % d = n % d
  <1> DEFINE j == n \div d
             w == n % d
  <1>1. j \in Int /\ w \in 0 .. d - 1 /\ n = d * j + w  BY ModDiv
  <1> HIDE DEF j, w
  <1>2. j + k \in Int /\ n + d * k = d * (j + k) + w  BY <1>1, SMT
  <1>3. (d * (j + k) + w) % d = w  BY <1>1, <1>2, ModUnique
  <1> QED  BY <1>2, <1>3 DEF w

(* The difference of two phases has the phase of the difference. *)
LEMMA ModMinus ==
    ASSUME NEW d \in Nat \ {0}, NEW a \in Int, NEW b \in Int
    PROVE  ((a % d) - (b % d)) % d = (a - b) % d
  <1> DEFINE i == a \div d
             j == b \div d
             v == a % d
             w == b % d
  <1>1. i \in Int /\ v \in 0 .. d - 1 /\ a = d * i + v  BY ModDiv
  <1>2. j \in Int /\ w \in 0 .. d - 1 /\ b = d * j + w  BY ModDiv
  <1> HIDE DEF i, j, v, w
  <1>3. i - j \in Int /\ v - w \in Int /\ a - b = (v - w) + d * (i - j)  BY <1>1, <1>2, SMT
  <1>4. ((v - w) + d * (i - j)) % d = (v - w) % d  BY <1>3, ModShift
  <1> QED  BY <1>3, <1>4 DEF v, w

(* round_div is within half a divisor. *)
LEMMA Nearest ==
    ASSUME NEW n \in Int, NEW d \in Nat \ {0}
    PROVE  /\ RoundDiv(n, d) \in Int
           /\ 2 * (RoundDiv(n, d) * d) <= 2 * n + d
           /\ 2 * n - d <= 2 * (RoundDiv(n, d) * d)
  <1> DEFINE h == d \div 2
  <1>1. h \in Nat /\ 2 * h <= d /\ d <= 2 * h + 1  BY SMT
  <1>2. CASE n >= 0
    <2> DEFINE k == (n + h) \div d
               w == (n + h) % d
    <2>1. n + h \in Int  BY <1>1
    <2>2. k \in Int /\ w \in 0 .. d - 1 /\ n + h = d * k + w  BY <2>1, ModDiv
    <2>3. RoundDiv(n, d) = k  BY <1>2 DEF RoundDiv
    <2> HIDE DEF k, w, h
    <2>4. 2 * (k * d) <= 2 * n + d /\ 2 * n - d <= 2 * (k * d)  BY <1>1, <2>2, SMT
    <2> QED  BY <2>2, <2>3, <2>4
  <1>3. CASE ~(n >= 0)
    <2> DEFINE k == (-n + h) \div d
               w == (-n + h) % d
    <2>1. -n + h \in Int  BY <1>1
    <2>2. k \in Int /\ w \in 0 .. d - 1 /\ -n + h = d * k + w  BY <2>1, ModDiv
    <2>3. RoundDiv(n, d) = -k  BY <1>3 DEF RoundDiv
    <2> HIDE DEF k, w, h
    <2>4. 2 * ((-k) * d) <= 2 * n + d /\ 2 * n - d <= 2 * ((-k) * d)  BY <1>1, <2>2, SMT
    <2> QED  BY <2>2, <2>3, <2>4
  <1> QED  BY <1>2, <1>3

-----------------------------------------------------------------------------
(* A timeline. *)

(* What alignment to the beat origin adds to every beat alike. *)
Shift(tl, q) == IF q = 0 THEN 0 ELSE ((q \div 2 - tl.beat_origin) % q) - q \div 2

LEMMA ShiftInt ==
    ASSUME NEW tl \in Timelines, NEW q \in Nat
    PROVE  Shift(tl, q) \in Int
  <1>1. CASE q = 0  BY <1>1 DEF Shift
  <1>2. CASE q # 0
    <2>1. q \div 2 \in Int  BY SMT
    <2>2. q \div 2 - tl.beat_origin \in Int  BY <2>1 DEF Timelines
    <2>3. (q \div 2 - tl.beat_origin) % q \in Int  BY <1>2, <2>2, ModDiv
    <2> QED  BY <1>2, <2>1, <2>3 DEF Shift
  <1> QED  BY <1>1, <1>2

LEMMA AlignShifts ==
    ASSUME NEW tl \in Timelines, NEW q \in Nat, NEW b \in Int
    PROVE  AlignNear(b, b - tl.beat_origin, q) = b + Shift(tl, q)
  <1>1. CASE q = 0  BY <1>1 DEF AlignNear, Shift
  <1>2. CASE q # 0
    <2> DEFINE h == q \div 2
               o == tl.beat_origin
               s == (h - o) % q
    <2>1. q \in Nat \ {0} /\ ~(q <= 0)  BY <1>2
    <2>2. h \in Int /\ o \in Int /\ b - o \in Int /\ b - h \in Int /\ h - o \in Int
      <3>1. h \in Int  BY SMT
      <3>2. o \in Int  BY DEF Timelines
      <3> HIDE DEF h, o
      <3> QED  BY <3>1, <3>2
    <2>3. AlignNear(b, b - o, q) = (b - h) + ((((b - o) % q) - ((b - h) % q)) % q)
      BY <2>1 DEF AlignNear, AlignUp, Phase
    <2>4. Shift(tl, q) = s - h  BY <1>2 DEF Shift
    <2>5. s \in Int  BY <2>1, <2>2, ModDiv
    <2> HIDE DEF h, o
    <2>6. (((b - o) % q) - ((b - h) % q)) % q = ((b - o) - (b - h)) % q
      BY <2>1, <2>2, ModMinus
    <2>7. (b - o) - (b - h) = h - o  BY <2>2
    <2>8. AlignNear(b, b - o, q) = (b - h) + s  BY <2>3, <2>6, <2>7
    <2> HIDE DEF s
    <2>9. (b - h) + s = b + (s - h)  BY <2>2, <2>5
    <2> QED  BY <2>4, <2>8, <2>9 DEF o
  <1> QED  BY <1>1, <1>2

(* Types of the conversions, and what they are off by. *)
LEMMA BeatsTyped ==
    ASSUME NEW tl \in Timelines, NEW g \in Int
    PROVE  /\ BeatsAtGhost(tl, g) \in Int
           /\ LET p == BeatsAtGhost(tl, g) - tl.beat_origin
                  n == (g - tl.time_origin) * Unit
              IN  2 * (p * tl.tempo) <= 2 * n + tl.tempo /\ 2 * n - tl.tempo <= 2 * (p * tl.tempo)
  <1> DEFINE T == tl.tempo
             n == (g - tl.time_origin) * Unit
             p == RoundDiv(n, T)
             o == tl.beat_origin
  <1>1. T \in Nat \ {0} /\ o \in Int /\ tl.time_origin \in Int  BY DEF Timelines
  <1>2. n \in Int  BY <1>1, ClockAssumption
  <1>3. BeatsAtGhost(tl, g) = o + p  BY DEF BeatsAtGhost
  <1> HIDE DEF n, T
  <1>4. p \in Int /\ 2 * (p * T) <= 2 * n + T /\ 2 * n - T <= 2 * (p * T)
    BY <1>1, <1>2, Nearest
  <1> HIDE DEF p, o
  <1>5. (o + p) - o = p  BY <1>1, <1>4
  <1>6. o + p \in Int  BY <1>1, <1>4
  <1> QED  BY <1>3, <1>4, <1>5, <1>6 DEF n, T, o

LEMMA GhostTyped ==
    ASSUME NEW tl \in Timelines, NEW b \in Int
    PROVE  /\ GhostAtBeats(tl, b) \in Int
           /\ LET m == GhostAtBeats(tl, b) - tl.time_origin
                  n == (b - tl.beat_origin) * tl.tempo
              IN  2 * (m * Unit) <= 2 * n + Unit /\ 2 * n - Unit <= 2 * (m * Unit)
  <1> DEFINE n == (b - tl.beat_origin) * tl.tempo
             m == RoundDiv(n, Unit)
             o == tl.time_origin
  <1>1. tl.tempo \in Nat \ {0} /\ tl.beat_origin \in Int /\ o \in Int  BY DEF Timelines
  <1>2. n \in Int  BY <1>1
  <1>3. GhostAtBeats(tl, b) = o + m  BY DEF GhostAtBeats
  <1> HIDE DEF n
  <1>4. m \in Int /\ 2 * (m * Unit) <= 2 * n + Unit /\ 2 * n - Unit <= 2 * (m * Unit)
    BY <1>2, Nearest, ClockAssumption
  <1> HIDE DEF m, o
  <1>5. (o + m) - o = m  BY <1>1, <1>4
  <1>6. o + m \in Int  BY <1>1, <1>4
  <1> QED  BY <1>3, <1>4, <1>5, <1>6 DEF n, o

LEMMA DistanceBound ==
    ASSUME NEW T \in Nat \ {0}, NEW p \in Int, NEW x \in Int, NEW c \in Nat,
           2 * (p * T) <= 2 * (x * T) + c, 2 * (x * T) - c <= 2 * (p * T)
    PROVE  2 * T * Distance(p, x) <= c
  <1>1. CASE p < x
    <2>1. Distance(p, x) = x - p  BY <1>1 DEF Distance
    <2>2. 2 * T * (x - p) <= c  BY SMT
    <2> QED  BY <2>1, <2>2
  <1>2. CASE ~(p < x)
    <2>1. Distance(p, x) = p - x  BY <1>2 DEF Distance
    <2>2. 2 * T * (p - x) <= c  BY SMT
    <2> QED  BY <2>1, <2>2
  <1> QED  BY <1>1, <1>2

(* The beat at the time of a beat is that beat, up to one rounding each way. *)
LEMMA RoundTrip ==
    ASSUME NEW tl \in Timelines, NEW b \in Int
    PROVE  2 * tl.tempo * Distance(BeatsAtGhost(tl, GhostAtBeats(tl, b)), b) <= Unit + tl.tempo
  <1> DEFINE T == tl.tempo
             o == tl.beat_origin
             g == GhostAtBeats(tl, b)
             m == g - tl.time_origin
             y == BeatsAtGhost(tl, g)
             x == b - o
             p == y - o
  <1>1. T \in Nat \ {0} /\ o \in Int /\ tl.time_origin \in Int /\ Unit \in Nat \ {0}
    BY ClockAssumption DEF Timelines
  <1>2. g \in Int /\ 2 * (m * Unit) <= 2 * (x * T) + Unit /\ 2 * (x * T) - Unit <= 2 * (m * Unit)
    BY GhostTyped
  <1>3. y \in Int /\ 2 * (p * T) <= 2 * (m * Unit) + T /\ 2 * (m * Unit) - T <= 2 * (p * T)
    BY <1>2, BeatsTyped
  <1>4. m \in Int  BY <1>1, <1>2
  <1> HIDE DEF T, g, m
  <1>5. x \in Int /\ p \in Int  BY <1>1, <1>3
  <1>6. Distance(y, b) = Distance(p, x)
    <2> HIDE DEF y, o
    <2> QED  BY <1>1, <1>3 DEF Distance
  <1> HIDE DEF y, x, p
  <1>7. x * T \in Int /\ p * T \in Int /\ m * Unit \in Int  BY <1>1, <1>4, <1>5
  <1>8. 2 * (p * T) <= 2 * (x * T) + (Unit + T) /\ 2 * (x * T) - (Unit + T) <= 2 * (p * T)
    <2> DEFINE A == x * T
               B == p * T
               C == m * Unit
    <2> HIDE DEF A, B, C
    <2>1. 2 * B <= 2 * A + (Unit + T) /\ 2 * A - (Unit + T) <= 2 * B
      BY <1>1, <1>2, <1>3, <1>7 DEF A, B, C
    <2> QED  BY <2>1 DEF A, B
  <1>9. Unit + T \in Nat  BY <1>1
  <1>10. 2 * T * Distance(p, x) <= Unit + T  BY <1>1, <1>5, <1>8, <1>9, DistanceBound
  <1> QED  BY <1>6, <1>10 DEF T, y, g

(* The time sought for a beat of an application is that of the beat of the *)
(* timeline which the alignment takes to it.                               *)
LEMMA AppGhost ==
    ASSUME NEW tl \in Timelines, NEW q \in Nat, NEW b \in Int
    PROVE  GhostAtAppBeat(tl, b, q) = GhostAtBeats(tl, b - Shift(tl, q))
  <1>1. CASE q = 0
    <2>1. GhostAtAppBeat(tl, b, q) = GhostAtBeats(tl, b)  BY <1>1 DEF GhostAtAppBeat
    <2>2. b - Shift(tl, q) = b  BY <1>1 DEF Shift
    <2> QED  BY <2>1, <2>2
  <1>2. CASE q # 0
    <2> DEFINE o == tl.beat_origin
               r == b - o
               i == r % q
               j == b % q
               h == q \div 2
               s == (h - o) % q
               delta == AlignNear(q - i, q - j, q)
    <2>1. q \in Nat \ {0} /\ ~(q <= 0)  BY <1>2
    <2>2. o \in Int  BY DEF Timelines
    <2>3. r \in Int /\ h \in Int /\ i \in Int /\ j \in Int /\ s \in Int
      <3>1. r \in Int  BY <2>2
      <3>2. h \in Int  BY SMT
      <3>3. h - o \in Int  BY <2>2, <3>2
      <3>4. i \in Int  BY <2>1, <3>1, ModDiv
      <3>5. j \in Int  BY <2>1, ModDiv
      <3>6. s \in Int  BY <2>1, <3>3, ModDiv
      <3> QED  BY <3>1, <3>2, <3>4, <3>5, <3>6
    <2>4. GhostAtAppBeat(tl, b, q) = GhostAtBeats(tl, (o + (r - i)) + q - delta)
      BY <2>1 DEF GhostAtAppBeat, Phase
    <2>5. Shift(tl, q) = s - h  BY <1>2 DEF Shift
    <2>6. delta = ((q - i) - h) + ((((q - j) % q) - (((q - i) - h) % q)) % q)
      BY <2>1 DEF AlignNear, AlignUp, Phase
    <2>7. (((q - j) % q) - (((q - i) - h) % q)) % q = s
      <3> DEFINE c == r \div q
                 e == b \div q
      <3>1. c \in Int /\ r = q * c + i  BY <2>1, <2>3, ModDiv
      <3>2. e \in Int /\ b = q * e + j  BY <2>1, ModDiv
      <3>3. r = b - o  OBVIOUS
      <3> HIDE DEF c, e, r, i, j, h, o
      <3>4. q - j \in Int /\ (q - i) - h \in Int  BY <2>1, <2>3
      <3>5. (((q - j) % q) - (((q - i) - h) % q)) % q = ((q - j) - ((q - i) - h)) % q
        BY <2>1, <3>4, ModMinus
      <3>6. e - c \in Int /\ h - o \in Int
            /\ (q - j) - ((q - i) - h) = (h - o) + q * (e - c)
        BY <2>1, <2>2, <2>3, <3>1, <3>2, <3>3, SMT
      <3>7. ((h - o) + q * (e - c)) % q = (h - o) % q  BY <2>1, <3>6, ModShift
      <3> QED  BY <3>5, <3>6, <3>7
    <2>8. delta = ((q - i) - h) + s  BY <2>6, <2>7
    <2> HIDE DEF delta, i, j, h, s
    <2>9. (o + (r - i)) + q - delta = b - (s - h)
      <3> HIDE DEF o
      <3> QED  BY <2>1, <2>2, <2>3, <2>8
    <2> QED  BY <2>4, <2>5, <2>9
  <1> QED  BY <1>1, <1>2

(* Every beat of an application is the timeline's, shifted. *)
LEMMA AppBeat ==
    ASSUME NEW tl \in Timelines, NEW q \in Nat, NEW g \in Int
    PROVE  AppBeatAtGhost(tl, g, q) = BeatsAtGhost(tl, g) + Shift(tl, q)
  <1>1. BeatsAtGhost(tl, g) \in Int  BY BeatsTyped
  <1> QED  BY <1>1, AlignShifts DEF AppBeatAtGhost

LEMMA Compose ==
    ASSUME NEW tl \in Timelines, NEW q \in Nat, NEW b \in Int
    PROVE  2 * tl.tempo * Distance(AppBeatAtGhost(tl, GhostAtAppBeat(tl, b, q), q), b)
             <= Unit + tl.tempo
  <1> DEFINE s == Shift(tl, q)
             y == b - s
             g == GhostAtBeats(tl, y)
             z == BeatsAtGhost(tl, g)
  <1>1. s \in Int /\ y \in Int  BY ShiftInt
  <1>2. g \in Int  BY <1>1, GhostTyped
  <1>3. z \in Int  BY <1>2, BeatsTyped
  <1>4. AppBeatAtGhost(tl, GhostAtAppBeat(tl, b, q), q) = z + s  BY <1>2, AppGhost, AppBeat
  <1>5. 2 * tl.tempo * Distance(z, y) <= Unit + tl.tempo  BY <1>1, RoundTrip
  <1>6. Distance(z + s, b) = Distance(z, y)
    <2> HIDE DEF s, z
    <2> QED  BY <1>1, <1>3 DEF Distance
  <1> QED  BY <1>4, <1>5, <1>6

-----------------------------------------------------------------------------
(* The peers. *)

PeerState == [session : Peers \X Int, ghost_offset : Int,
              session_member_seen : BOOLEAN, timeline : Timelines]

(* A session is named by its founder and the time of its founding, when    *)
(* its ghost time was zero: its members share one transform.               *)
ClockInv ==
    /\ now \in Int
    /\ peer \in [Peers -> PeerState]
    /\ \A n \in Peers : peer[n].ghost_offset = -peer[n].session[2]

LEMMA FoundedTyped ==
    ASSUME NEW n \in Peers, now \in Int, NEW tempo \in Nat \ {0}, NEW beats \in Int
    PROVE  /\ Founded(n, tempo, beats) \in PeerState
           /\ Founded(n, tempo, beats).ghost_offset = -Founded(n, tempo, beats).session[2]
  BY DEF Founded, PeerState, Timelines

LEMMA RetimedTyped ==
    ASSUME NEW tl \in Timelines, NEW tempo \in Nat \ {0}, NEW g \in Int
    PROVE  Retimed(tl, tempo, g) \in Timelines
  <1> DEFINE origin == Larger(BeatsAtGhost(tl, g), tl.beat_origin + 1)
  <1>1. BeatsAtGhost(tl, g) \in Int /\ tl.beat_origin + 1 \in Int
    BY BeatsTyped DEF Timelines
  <1>2. origin \in Int  BY <1>1 DEF Larger
  <1> HIDE DEF origin
  <1>3. GhostAtBeats(tl, origin) \in Int  BY <1>2, GhostTyped
  <1>4. Retimed(tl, tempo, g)
          = [tempo |-> tempo, beat_origin |-> origin, time_origin |-> GhostAtBeats(tl, origin)]
    BY DEF Retimed, origin
  <1> QED  BY <1>2, <1>3, <1>4 DEF Timelines

LEMMA StepInv == ClockInv /\ [Next]_vars => ClockInv'
  <1> SUFFICES ASSUME ClockInv, [Next]_vars PROVE ClockInv'  OBVIOUS
  <1>1. CASE UNCHANGED vars  BY <1>1 DEF ClockInv, vars
  <1>2. CASE Ticks  BY <1>2 DEF ClockInv, Ticks
  <1>3. ASSUME NEW n \in Peers, SetsTempo(n) PROVE ClockInv'
    <2>1. PICK t \in Tempos :
            peer' = [peer EXCEPT ![n].timeline = Retimed(peer[n].timeline, t, Ghost(n))]
      BY <1>3 DEF SetsTempo
    <2> DEFINE r == Retimed(peer[n].timeline, t, Ghost(n))
    <2>2. peer[n] \in PeerState /\ now \in Int  BY DEF ClockInv
    <2>3. peer[n].timeline \in Timelines /\ Ghost(n) \in Int  BY <2>2 DEF PeerState, Ghost
    <2>4. r \in Timelines  BY <2>3, RetimedTyped, ClockAssumption
    <2>5. peer' = [peer EXCEPT ![n].timeline = r]  BY <2>1
    <2> HIDE DEF r
    <2>6. [peer[n] EXCEPT !.timeline = r] \in PeerState  BY <2>2, <2>4 DEF PeerState
    <2>7. peer' = [peer EXCEPT ![n] = [peer[n] EXCEPT !.timeline = r]]
      BY <2>5 DEF ClockInv
    <2>8. peer' \in [Peers -> PeerState]  BY <2>6, <2>7 DEF ClockInv
    <2>9. \A m \in Peers : /\ peer'[m].ghost_offset = peer[m].ghost_offset
                           /\ peer'[m].session = peer[m].session
      BY <2>2, <2>7 DEF ClockInv, PeerState
    <2> QED  BY <2>8, <2>9, <1>3 DEF ClockInv, SetsTempo
  <1>4. ASSUME NEW n \in Peers, Resets(n) PROVE ClockInv'
    <2> DEFINE f == Founded(n, peer[n].timeline.tempo, ResetBeats(n))
    <2>1. peer[n] \in PeerState /\ now \in Int  BY DEF ClockInv
    <2>2. peer[n].timeline \in Timelines /\ Ghost(n) \in Int  BY <2>1 DEF PeerState, Ghost
    <2>3. ResetBeats(n) \in Int  BY <2>2, BeatsTyped DEF ResetBeats
    <2>4. peer[n].timeline.tempo \in Nat \ {0}  BY <2>2 DEF Timelines
    <2>5. f \in PeerState /\ f.ghost_offset = -f.session[2]
      BY <2>1, <2>3, <2>4, FoundedTyped
    <2>6. peer' = [peer EXCEPT ![n] = f]  BY <1>4 DEF Resets
    <2> HIDE DEF f
    <2> QED  BY <1>4, <2>5, <2>6 DEF ClockInv, Resets
  <1>5. ASSUME NEW n \in Peers, NEW m \in Peers, Hears(n, m) PROVE ClockInv'
    <2> DEFINE l == IF peer[m].timeline.beat_origin > peer[n].timeline.beat_origin
                    THEN peer[m].timeline ELSE peer[n].timeline
               p == [peer[n] EXCEPT !.session_member_seen = TRUE, !.timeline = l]
    <2>1. peer[n] \in PeerState /\ peer[m] \in PeerState  BY DEF ClockInv
    <2>2. l \in Timelines  BY <2>1 DEF PeerState
    <2>3. peer' = [peer EXCEPT ![n] = p]  BY <1>5 DEF Hears, ClockInv
    <2> HIDE DEF l
    <2>4. p \in PeerState /\ p.ghost_offset = peer[n].ghost_offset
          /\ p.session = peer[n].session
      BY <2>1, <2>2 DEF PeerState
    <2> HIDE DEF p
    <2> QED  BY <1>5, <2>3, <2>4 DEF ClockInv, Hears
  <1>6. ASSUME NEW n \in Peers, NEW m \in Peers, Joins(n, m) PROVE ClockInv'
    <2> DEFINE p == [peer[m] EXCEPT !.session_member_seen = TRUE]
    <2>1. peer[m] \in PeerState  BY DEF ClockInv
    <2>2. peer' = [peer EXCEPT ![n] = p]  BY <1>6 DEF Joins
    <2>3. p \in PeerState /\ p.ghost_offset = peer[m].ghost_offset
          /\ p.session = peer[m].session
      BY <2>1 DEF PeerState
    <2> HIDE DEF p
    <2> QED  BY <1>6, <2>2, <2>3 DEF ClockInv, Joins
  <1> QED  BY <1>1, <1>2, <1>3, <1>4, <1>5, <1>6 DEF Next

(* Peers keep the types of their timelines and the transform of their      *)
(* session.                                                                *)
THEOREM ClockInvariance == Spec => []ClockInv
  <1>1. Init => ClockInv
    <2> SUFFICES ASSUME Init PROVE ClockInv  OBVIOUS
    <2>1. now \in Int  BY DEF Init
    <2>2. \A n \in Peers, t \in Tempos :
             /\ Founded(n, t, 0) \in PeerState
             /\ Founded(n, t, 0).ghost_offset = -Founded(n, t, 0).session[2]
      BY <2>1, FoundedTyped, ClockAssumption
    <2>3. \A n \in Peers : \E m \in Peers, t \in Tempos : peer[n] = Founded(m, t, 0)
      BY DEF Init
    <2>4. peer \in [Peers -> PeerState]  BY <2>2, <2>3 DEF Init
    <2> QED  BY <2>1, <2>2, <2>3, <2>4 DEF ClockInv
  <1> QED  BY <1>1, StepInv, PTL DEF Spec

(* The two directions compose for any timeline, quantum and beat: both     *)
(* shift by what the alignment adds, so only the two roundings remain.     *)
THEOREM DirectionsAlwaysCompose == Spec => []DirectionsCompose
  <1>1. ClockInv => DirectionsCompose
    <2> SUFFICES ASSUME ClockInv, NEW n \in Peers, NEW q \in Quanta, NEW b \in AppBeats
                 PROVE  LET tl == peer[n].timeline
                            back == AppBeatAtGhost(tl, GhostAtAppBeat(tl, b, q), q)
                        IN  2 * tl.tempo * Distance(back, b) <= Unit + tl.tempo
      BY DEF DirectionsCompose
    <2>1. peer[n].timeline \in Timelines  BY DEF ClockInv, PeerState
    <2>2. q \in Nat /\ b \in Int  BY ClockAssumption
    <2> QED  BY <2>1, <2>2, Compose
  <1> QED  BY <1>1, ClockInvariance, PTL

(* Whatever quanta the peers of a session count by, their beats differ by  *)
(* their offsets only.                                                     *)
THEOREM SessionBeatsAlwaysAgree == Spec => []SessionBeatsAgree
  <1>1. ClockInv => SessionBeatsAgree
    <2> SUFFICES ASSUME ClockInv, NEW n \in Peers, NEW m \in Peers,
                        NEW q \in Quanta, NEW r \in Quanta,
                        peer[n].session = peer[m].session,
                        peer[n].timeline = peer[m].timeline
                 PROVE  AppBeatAtGhost(peer[n].timeline, Ghost(n), q)
                          - SessionOffset(peer[n].timeline, q)
                          + SessionOffset(peer[m].timeline, r)
                        = AppBeatAtGhost(peer[m].timeline, Ghost(m), r)
      BY DEF SessionBeatsAgree
    <2> DEFINE tl == peer[n].timeline
               g == Ghost(n)
               b == BeatsAtGhost(tl, g)
               b0 == BeatsAtGhost(tl, tl.time_origin)
    <2>1. tl \in Timelines /\ peer[n] \in PeerState  BY DEF ClockInv, PeerState
    <2>2. q \in Nat /\ r \in Nat  BY ClockAssumption
    <2>3. g \in Int /\ tl.time_origin \in Int
      BY <2>1 DEF ClockInv, PeerState, Ghost, Timelines
    <2>4. Ghost(m) = g  BY DEF ClockInv, Ghost
    <2>5. peer[m].timeline = tl  OBVIOUS
    <2> HIDE DEF tl, g
    <2>6. b \in Int /\ b0 \in Int  BY <2>1, <2>3, BeatsTyped
    <2>7. Shift(tl, q) \in Int /\ Shift(tl, r) \in Int  BY <2>1, <2>2, ShiftInt
    <2>8. /\ AppBeatAtGhost(tl, g, q) = b + Shift(tl, q)
          /\ AppBeatAtGhost(tl, g, r) = b + Shift(tl, r)
      BY <2>1, <2>2, <2>3, AppBeat
    <2>9. /\ SessionOffset(tl, q) = b0 + Shift(tl, q)
          /\ SessionOffset(tl, r) = b0 + Shift(tl, r)
      BY <2>1, <2>2, <2>6, AlignShifts DEF SessionOffset
    <2> HIDE DEF b, b0
    <2>10. AppBeatAtGhost(tl, g, q) - SessionOffset(tl, q) + SessionOffset(tl, r)
             = AppBeatAtGhost(tl, g, r)
      BY <2>6, <2>7, <2>8, <2>9
    <2> QED  BY <2>4, <2>5, <2>10 DEF tl, g
  <1> QED  BY <1>1, ClockInvariance, PTL

(* A new timeline starts on the old one, whatever the clock and however    *)
(* often the tempo has been set.                                           *)
LEMMA Turns ==
    ASSUME NEW tl \in Timelines, NEW tempo \in Nat \ {0}, NEW g \in Int
    PROVE  LET new == Retimed(tl, tempo, g)
           IN  /\ 2 * tl.tempo * Distance(BeatsAtGhost(tl, new.time_origin), new.beat_origin)
                     <= Unit + tl.tempo
               /\ 2 * Unit * (g - new.time_origin) <= Unit + tl.tempo
               /\ new.beat_origin > tl.beat_origin
  <1> DEFINE T == tl.tempo
             o == tl.beat_origin
             z == tl.time_origin
             y == BeatsAtGhost(tl, g)
             origin == Larger(y, o + 1)
             t == GhostAtBeats(tl, origin)
             p == y - o
             x == origin - o
             m == t - z
             d == g - z
  <1>1. T \in Nat \ {0} /\ o \in Int /\ z \in Int /\ Unit \in Nat \ {0}
    BY ClockAssumption DEF Timelines
  <1>2. /\ y \in Int
        /\ 2 * (p * T) <= 2 * (d * Unit) + T
        /\ 2 * (d * Unit) - T <= 2 * (p * T)
    BY BeatsTyped
  <1>3. origin \in Int /\ origin >= y /\ origin > o
    <2> HIDE DEF y, o
    <2> QED  BY <1>1, <1>2 DEF Larger
  <1> HIDE DEF origin
  <1>4. t \in Int /\ 2 * (x * T) - Unit <= 2 * (m * Unit)  BY <1>3, GhostTyped
  <1>5. 2 * T * Distance(BeatsAtGhost(tl, t), origin) <= Unit + T  BY <1>3, RoundTrip
  <1>6. 2 * Unit * (g - t) <= Unit + T
    <2> HIDE DEF T, o, z, y, t
    <2>1. p \in Int /\ x \in Int /\ m \in Int /\ d \in Int /\ p <= x /\ g - t = d - m
      BY <1>1, <1>2, <1>3, <1>4
    <2> HIDE DEF p, x, m, d
    <2>2. p * T <= x * T  BY <1>1, <2>1, SMT
    <2> DEFINE A == p * T
               B == x * T
               C == m * Unit
               D == d * Unit
    <2>3. A \in Int /\ B \in Int /\ C \in Int /\ D \in Int  BY <1>1, <2>1
    <2>4. 2 * Unit * (d - m) = 2 * D - 2 * C  BY <1>1, <2>1, SMT
    <2> HIDE DEF A, B, C, D
    <2>5. 2 * D - T <= 2 * A /\ A <= B /\ 2 * B - Unit <= 2 * C
      BY <1>2, <1>4, <2>2 DEF A, B, C, D
    <2>6. 2 * D - 2 * C <= Unit + T  BY <1>1, <2>3, <2>5
    <2> QED  BY <2>1, <2>4, <2>6
  <1>7. Retimed(tl, tempo, g) = [tempo |-> tempo, beat_origin |-> origin, time_origin |-> t]
    BY DEF Retimed, origin
  <1> HIDE DEF t
  <1> DEFINE new == Retimed(tl, tempo, g)
  <1>8. new.beat_origin = origin /\ new.time_origin = t  BY <1>7
  <1> HIDE DEF new
  <1>9. /\ 2 * T * Distance(BeatsAtGhost(tl, new.time_origin), new.beat_origin) <= Unit + T
        /\ 2 * Unit * (g - new.time_origin) <= Unit + T
        /\ new.beat_origin > o
    BY <1>3, <1>5, <1>6, <1>8
  <1> QED  BY <1>9 DEF new

(* Setting the tempo leaves the past alone. *)
THEOREM TempoAlwaysTurnsAtOrigin == Spec => TempoTurnsAtOrigin
  <1> DEFINE Turned(n) ==
         LET old == peer[n].timeline
             new == peer'[n].timeline
         IN  /\ 2 * old.tempo * Distance(BeatsAtGhost(old, new.time_origin), new.beat_origin)
                   <= Unit + old.tempo
             /\ 2 * Unit * (Ghost(n) - new.time_origin) <= Unit + old.tempo
             /\ new.beat_origin > old.beat_origin
  <1>1. ASSUME ClockInv, NEW n \in Peers, SetsTempo(n) PROVE Turned(n)
    <2>1. PICK tempo \in Tempos :
            peer' = [peer EXCEPT ![n].timeline = Retimed(peer[n].timeline, tempo, Ghost(n))]
      BY <1>1 DEF SetsTempo
    <2> DEFINE tl == peer[n].timeline
               r == Retimed(tl, tempo, Ghost(n))
    <2>2. peer[n] \in PeerState /\ tl \in Timelines /\ Ghost(n) \in Int
      BY <1>1 DEF ClockInv, PeerState, Ghost
    <2>3. peer'[n].timeline = r
      <3> HIDE DEF r
      <3>1. peer' = [peer EXCEPT ![n].timeline = r]  BY <2>1 DEF r
      <3> QED  BY <1>1, <2>2, <3>1 DEF ClockInv, PeerState
    <2>4. tempo \in Nat \ {0}  BY ClockAssumption
    <2> DEFINE g == Ghost(n)
    <2> HIDE DEF g
    <2>5. /\ 2 * tl.tempo * Distance(BeatsAtGhost(tl, r.time_origin), r.beat_origin)
                <= Unit + tl.tempo
          /\ 2 * Unit * (g - r.time_origin) <= Unit + tl.tempo
          /\ r.beat_origin > tl.beat_origin
      BY <2>2, <2>4, Turns DEF g
    <2> HIDE DEF r
    <2> QED  BY <2>3, <2>5 DEF g
  <1>2. ClockInv => [\A n \in Peers : SetsTempo(n) => Turned(n)]_vars  BY <1>1
  <1> QED  BY <1>2, ClockInvariance, PTL DEF TempoTurnsAtOrigin

(* A reset goes on at the same tempo and beat. *)
THEOREM ResetAlwaysContinues == Spec => ResetContinues
  <1> DEFINE Continued(n) ==
         /\ peer'[n].timeline.tempo = peer[n].timeline.tempo
         /\ BeatsAtGhost(peer'[n].timeline, now + peer'[n].ghost_offset)
              = BeatsAtGhost(peer[n].timeline, Ghost(n))
  <1>1. ASSUME ClockInv, NEW n \in Peers, Resets(n) PROVE Continued(n)
    <2> DEFINE T == peer[n].timeline.tempo
               b == ResetBeats(n)
               f == Founded(n, T, b)
    <2>1. peer' = [peer EXCEPT ![n] = f]  BY <1>1 DEF Resets
    <2>2. peer[n].timeline \in Timelines /\ Ghost(n) \in Int /\ now \in Int
      BY <1>1 DEF ClockInv, PeerState, Ghost
    <2>3. T \in Nat \ {0}  BY <2>2 DEF Timelines
    <2>4. b \in Int  BY <2>2, BeatsTyped DEF ResetBeats
    <2>5. b = BeatsAtGhost(peer[n].timeline, Ghost(n))  BY DEF ResetBeats
    <2>6. peer'[n] = f
      <3> HIDE DEF f
      <3> QED  BY <1>1, <2>1 DEF ClockInv
    <2> HIDE DEF T, b
    <2>7. /\ f.timeline = [tempo |-> T, beat_origin |-> b, time_origin |-> 0]
          /\ f.ghost_offset = -now
      BY DEF Founded
    <2> HIDE DEF f
    <2>8. RoundDiv(0, T) = 0
      <3>1. 2 * (RoundDiv(0, T) * T) <= T /\ -T <= 2 * (RoundDiv(0, T) * T)
            /\ RoundDiv(0, T) \in Int
        <4>1. 0 \in Int  OBVIOUS
        <4>2. 2 * 0 + T = T /\ 2 * 0 - T = -T  BY <2>3
        <4> QED  BY <2>3, <4>1, <4>2, Nearest
      <3>2. \A k \in Int : 2 * (k * T) <= T /\ -T <= 2 * (k * T) => k = 0  BY <2>3, SMT
      <3> QED  BY <3>1, <3>2
    <2>9. BeatsAtGhost(f.timeline, now + f.ghost_offset) = b
      <3>1. now + f.ghost_offset = 0  BY <2>2, <2>7
      <3>2. (0 - 0) * Unit = 0  BY ClockAssumption
      <3>3. BeatsAtGhost(f.timeline, 0) = b + RoundDiv((0 - 0) * Unit, T)
        BY <2>7 DEF BeatsAtGhost
      <3> QED  BY <2>4, <2>8, <3>1, <3>2, <3>3
    <2> QED  BY <2>5, <2>6, <2>7, <2>9 DEF T
  <1>2. ClockInv => [\A n \in Peers : Resets(n) => Continued(n)]_vars  BY <1>1
  <1> QED  BY <1>2, ClockInvariance, PTL DEF ResetContinues
=============================================================================
