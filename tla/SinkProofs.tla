----------------------------- MODULE SinkProofs -----------------------------
(***************************************************************************)
(* Proofs about Sink: what a write sends and keeps, for any sizing,        *)
(* formats and writes.                                                     *)
(*                                                                         *)
(* The plan, the chunks of a datagram and the datagrams of a write are     *)
(* each a function that iterates a step, and each has an invariant of its  *)
(* steps: Goes (the planner spends what it counts), Agrees and Makes (the  *)
(* consumer has the frames the planner counts), Keeps (what chunks hold    *)
(* and leave), Drains (what datagrams hold and leave), Timed and Drawing   *)
(* (how far off its beat either is).  SinkInv is the invariant of the      *)
(* writes, on which BeatInv and FullInv build.                             *)
(***************************************************************************)
EXTENDS Sink, FiniteSetTheorems, NaturalsInduction, TLAPS

-----------------------------------------------------------------------------
(* Induction and recursion over the naturals, without operators as         *)
(* parameters: a set that holds 0 and with a number the next one is all of *)
(* Nat.                                                                    *)

LEMMA Least ==
    ASSUME NEW T, T \subseteq Nat, T # {}
    PROVE  \E x \in T : \A y \in T : x <= y
<1> DEFINE R == OpToRel(<, Nat)
<1>1. IsWellFoundedOn(R, Nat)
  BY NatLessThanWellFounded, Zenon
<1> HIDE DEF R
<1>2. PICK x \in T : \A y \in T : ~ (<<y, x>> \in R)
  BY <1>1, WFMin
<1>3. \A y \in T : <<y, x>> \in R <=> y < x
  BY Zenon DEF OpToRel, R
<1>4. \A y \in T : x <= y
  <2> TAKE y \in T
  <2>1. ~ (y < x)
    BY <1>2, <1>3
  <2>2. x \in Nat /\ y \in Nat
    OBVIOUS
  <2> QED BY <2>1, <2>2
<1> QED BY <1>4

LEMMA Induction ==
    ASSUME NEW T, 0 \in T, \A n \in Nat : n \in T => n + 1 \in T
    PROVE  Nat \subseteq T
<1> SUFFICES ASSUME Nat \ T # {} PROVE FALSE
  OBVIOUS
<1>1. PICK x \in Nat \ T : \A y \in Nat \ T : x <= y
  BY Least
<1>2. x - 1 \in Nat /\ x - 1 \notin T
  <2>1. x # 0
    OBVIOUS
  <2>2. x - 1 \in Nat
    BY <2>1
  <2>3. (x - 1) + 1 = x
    OBVIOUS
  <2> QED BY <2>2, <2>3
<1>3. x <= x - 1
  BY <1>1, <1>2
<1> QED BY <1>2, <1>3

(* A recursive function on an interval exists: F[n] is its n-th step.      *)
LEMMA Iterates ==
    ASSUME NEW S, NEW a \in S, NEW N \in Nat, NEW F \in [1 .. N -> [S -> S]]
    PROVE  \E g \in [0 .. N -> S] : g[0] = a /\ \A n \in 1 .. N : g[n] = F[n][g[n - 1]]
<1> DEFINE Upto(m, g) == g[0] = a /\ \A n \in 1 .. m : g[n] = F[n][g[n - 1]]
           T == {m \in Nat : m <= N => \E g \in [0 .. m -> S] : Upto(m, g)}
<1>1. 0 \in T
  <2> DEFINE g == [n \in 0 .. 0 |-> a]
  <2>1. g \in [0 .. 0 -> S] /\ Upto(0, g)
    OBVIOUS
  <2> HIDE DEF g, Upto
  <2> QED BY <2>1
<1>2. \A m \in Nat : m \in T => m + 1 \in T
  <2> SUFFICES ASSUME NEW m \in Nat, m \in T, m + 1 <= N
               PROVE  \E g \in [0 .. m + 1 -> S] : Upto(m + 1, g)
    OBVIOUS
  <2>1. PICK g \in [0 .. m -> S] : Upto(m, g)
    OBVIOUS
  <2> DEFINE h == [n \in 0 .. m + 1 |-> IF n = m + 1 THEN F[m + 1][g[m]] ELSE g[n]]
  <2>2. F[m + 1] \in [S -> S] /\ g[m] \in S
    OBVIOUS
  <2>3. h \in [0 .. m + 1 -> S]
    BY <2>2
  <2>4. Upto(m + 1, h)
    BY <2>1
  <2> HIDE DEF h, Upto
  <2> QED BY <2>3, <2>4
<1>3. N \in T
  BY <1>1, <1>2, Induction
<1> QED BY <1>3

Stepped(S, a, N, F) == a \in S /\ N \in Nat /\ F \in [1 .. N -> [S -> S]]

Iterate(g, S, a, N, F) ==
    g \in [0 .. N -> S] /\ g[0] = a /\ \A n \in 1 .. N : g[n] = F[n][g[n - 1]]

LEMMA IterateIs ==
    ASSUME NEW S, NEW a, NEW N, NEW F, Stepped(S, a, N, F)
    PROVE  \E g : Iterate(g, S, a, N, F)
BY Iterates DEF Stepped, Iterate

(* Two functions on an interval that begin alike and go on alike are one.  *)
LEMMA AlikeAt ==
    ASSUME NEW N \in Nat, NEW f, NEW g, f[0] = g[0],
           \A n \in Nat : n + 1 <= N /\ f[n] = g[n] => f[n + 1] = g[n + 1]
    PROVE  \A n \in 0 .. N : f[n] = g[n]
<1> DEFINE T == {m \in Nat : m <= N => f[m] = g[m]}
<1>1. 0 \in T
  OBVIOUS
<1>2. \A m \in Nat : m \in T => m + 1 \in T
  OBVIOUS
<1>3. Nat \subseteq T
  <2> HIDE DEF T
  <2> QED BY <1>1, <1>2, Induction
<1> QED BY <1>3

AlikeSteps(f, g, N, S) ==
    /\ N \in Nat /\ f = [n \in 0 .. N |-> f[n]] /\ g \in [0 .. N -> S] /\ f[0] = g[0]
    /\ \A n \in Nat : n + 1 <= N /\ f[n] = g[n] => f[n + 1] = g[n + 1]

LEMMA Alike ==
    ASSUME NEW N, NEW S, NEW f, NEW g, AlikeSteps(f, g, N, S)
    PROVE  f = g
<1>1. /\ N \in Nat /\ f[0] = g[0]
      /\ \A n \in Nat : n + 1 <= N /\ f[n] = g[n] => f[n + 1] = g[n + 1]
  BY DEF AlikeSteps
<1>2. \A n \in 0 .. N : f[n] = g[n]
  BY ONLY <1>1, AlikeAt
<1>3. f = [n \in 0 .. N |-> f[n]] /\ g \in [0 .. N -> S]
  BY DEF AlikeSteps
<1> QED BY <1>2, <1>3

-----------------------------------------------------------------------------
(* The plan. *)

Segment == [begin : Int, tempo : Tempos, data : Seq(Nat)]
Sizing == [budget : Nat, record_cost : Nat, chunk_cap : Nat \ {0}]

Planning(segs) ==
    [at : 0 .. Len(segs), rest : Nat, left : Nat, takes : Seq(Nat \ {0}),
     exhausted : BOOLEAN]

PlanStart == [at |-> 0, rest |-> 0, left |-> sizing.budget, takes |-> <<>>,
              exhausted |-> FALSE]

PlanSteps(segs) == Len(segs) + sizing.budget + 1

Planned(run, segs, ch) ==
    /\ run \in [0 .. PlanSteps(segs) -> Planning(segs)]
    /\ run[0] = PlanStart
    /\ \A n \in 1 .. PlanSteps(segs) : run[n] = PlanStep(run[n - 1], segs, ch)

Take(p, ch) == Min({p.rest, sizing.chunk_cap, (p.left - sizing.record_cost) \div ch})

LEMMA MinOfThree ==
    ASSUME NEW a \in Int, NEW b \in Int, NEW c \in Int
    PROVE  /\ Min({a, b, c}) \in {a, b, c}
           /\ Min({a, b, c}) <= a /\ Min({a, b, c}) <= b /\ Min({a, b, c}) <= c
<1>1. \E x \in {a, b, c} : \A y \in {a, b, c} : x <= y
  <2>1. CASE a <= b /\ a <= c
    BY <2>1
  <2>2. CASE b <= a /\ b <= c
    BY <2>2
  <2>3. CASE c <= a /\ c <= b
    BY <2>3
  <2> QED BY <2>1, <2>2, <2>3
<1> DEFINE m == Min({a, b, c})
<1>2. m \in {a, b, c} /\ \A y \in {a, b, c} : m <= y
  BY <1>1 DEF Min
<1> HIDE DEF m
<1> QED BY <1>2 DEF m

(* The room for n frames. *)
LEMMA Room ==
    ASSUME NEW r \in Nat, NEW ch \in Nat \ {0}
    PROVE  /\ r \div ch \in Nat /\ (r \div ch) * ch \in Nat
           /\ (r \div ch) * ch <= r /\ r < (r \div ch) * ch + ch
           /\ r >= ch => r \div ch >= 1
<1>1. r \div ch \in Nat /\ r = ch * (r \div ch) + (r % ch) /\ (r % ch) \in 0 .. (ch - 1)
  OBVIOUS
<1> DEFINE q == r \div ch
<1>2. q * ch = ch * q /\ q * ch \in Nat
  BY <1>1
<1>3. r >= ch => q >= 1
  BY <1>1
<1> QED BY <1>1, <1>2, <1>3

LEMMA TakeFits ==
    ASSUME sizing \in Sizing, NEW segs \in Seq(Segment), NEW ch \in Nat \ {0},
           NEW p \in Planning(segs), p.rest # 0, p.left >= sizing.record_cost + ch
    PROVE  /\ Take(p, ch) \in Nat \ {0}
           /\ Take(p, ch) <= p.rest /\ Take(p, ch) <= sizing.chunk_cap
           /\ Take(p, ch) * ch \in Nat
           /\ sizing.record_cost + Take(p, ch) * ch <= p.left
<1> DEFINE r == p.left - sizing.record_cost
           q == r \div ch
           t == Take(p, ch)
<1>1. /\ p.rest \in Nat \ {0} /\ sizing.chunk_cap \in Nat \ {0}
      /\ r \in Nat /\ r >= ch /\ p.left \in Nat /\ sizing.record_cost \in Nat
  BY DEF Planning, Sizing
<1>2. q \in Nat \ {0} /\ q * ch <= r /\ q * ch \in Nat
  <2> HIDE DEF r
  <2>1. q \in Nat /\ q * ch <= r /\ q * ch \in Nat /\ q >= 1
    BY <1>1, Room
  <2> QED BY <2>1
<1>3. /\ t \in {p.rest, sizing.chunk_cap, q}
      /\ t <= p.rest /\ t <= sizing.chunk_cap /\ t <= q
  <2>1. t = Min({p.rest, sizing.chunk_cap, q})
    BY DEF Take
  <2> HIDE DEF q, t
  <2>2. p.rest \in Int /\ sizing.chunk_cap \in Int /\ q \in Int
    BY <1>1, <1>2
  <2>3. /\ Min({p.rest, sizing.chunk_cap, q}) \in {p.rest, sizing.chunk_cap, q}
        /\ Min({p.rest, sizing.chunk_cap, q}) <= p.rest
        /\ Min({p.rest, sizing.chunk_cap, q}) <= sizing.chunk_cap
        /\ Min({p.rest, sizing.chunk_cap, q}) <= q
    BY <2>2, MinOfThree
  <2> QED BY <2>1, <2>3
<1> HIDE DEF q
<1>4. t \in Nat \ {0}
  BY <1>1, <1>2, <1>3
<1> HIDE DEF t
<1>5. t * ch \in Nat /\ t * ch <= q * ch
  BY <1>2, <1>3, <1>4
<1> QED BY SMTT(30), <1>1, <1>2, <1>3, <1>4, <1>5 DEF t

(* The four things a step of the plan may be. *)
Over(p, segs) == p.exhausted \/ (p.rest = 0 /\ p.at = Len(segs))

Enters(p, q, segs, ch) ==
    /\ ~p.exhausted /\ p.rest = 0 /\ p.at < Len(segs)
    /\ q.at = p.at + 1 /\ q.rest = Frames(segs[p.at + 1], ch)
    /\ q.left = p.left /\ q.takes = p.takes /\ ~q.exhausted

Exhausts(p, q, ch) ==
    /\ ~p.exhausted /\ p.rest # 0 /\ p.left < sizing.record_cost + ch
    /\ q.at = p.at /\ q.rest = p.rest /\ q.left = p.left /\ q.takes = p.takes
    /\ q.exhausted

Draws(p, q, t, ch) ==
    /\ ~p.exhausted /\ p.rest # 0 /\ p.left >= sizing.record_cost + ch
    /\ t \in Nat \ {0} /\ t <= p.rest /\ t <= sizing.chunk_cap
    /\ t * ch \in Nat /\ sizing.record_cost + t * ch <= p.left
    /\ q.at = p.at /\ q.rest = p.rest - t /\ ~q.exhausted
    /\ q.left = p.left - sizing.record_cost - t * ch
    /\ q.takes = Append(p.takes, t)

LEMMA FramesType ==
    ASSUME NEW seg \in Segment, NEW ch \in Nat \ {0}
    PROVE  /\ Frames(seg, ch) \in Nat /\ Frames(seg, ch) * ch \in Nat
           /\ Frames(seg, ch) * ch <= Len(seg.data)
           /\ Len(seg.data) < Frames(seg, ch) * ch + ch
           /\ (Frames(seg, ch) = 0) <=> (Len(seg.data) < ch)
<1> DEFINE r == Len(seg.data)
           q == r \div ch
<1>1. r \in Nat
  BY DEF Segment
<1> HIDE DEF r
<1>2. /\ q \in Nat /\ q * ch \in Nat /\ q * ch <= r /\ r < q * ch + ch
      /\ r >= ch => q >= 1
  BY <1>1, Room
<1>3. Frames(seg, ch) = q
  BY DEF Frames, r
<1> HIDE DEF q
<1>4. q = 0 => q * ch = 0
  BY <1>2
<1>5. q # 0 => q * ch >= ch
  BY <1>2
<1> QED BY <1>1, <1>2, <1>3, <1>4, <1>5 DEF r

LEMMA PlanStepIs ==
    ASSUME sizing \in Sizing, NEW segs \in Seq(Segment), NEW ch \in Nat \ {0},
           NEW p \in Planning(segs)
    PROVE  LET q == PlanStep(p, segs, ch)
           IN  /\ q \in Planning(segs)
               /\ \/ q = p /\ Over(p, segs)
                  \/ Enters(p, q, segs, ch)
                  \/ Exhausts(p, q, ch)
                  \/ \E t \in Nat \ {0} : Draws(p, q, t, ch)
<1> DEFINE q == PlanStep(p, segs, ch)
<1>1. /\ p.at \in 0 .. Len(segs) /\ p.rest \in Nat /\ p.left \in Nat
      /\ p.takes \in Seq(Nat \ {0}) /\ p.exhausted \in BOOLEAN
      /\ Len(segs) \in Nat
  BY DEF Planning
<1>2. CASE Over(p, segs)
  BY <1>2 DEF PlanStep, Over
<1>3. CASE ~Over(p, segs) /\ p.rest = 0
  <2> DEFINE f == Frames(segs[p.at + 1], ch)
  <2>1. p.at + 1 \in 0 .. Len(segs) /\ p.at < Len(segs) /\ ~p.exhausted
    BY <1>1, <1>3 DEF Over
  <2>2. f \in Nat
    <3>1. segs[p.at + 1] \in Segment
      BY <1>1, <2>1
    <3> QED BY <3>1, FramesType
  <2>3. q = [p EXCEPT !.at = p.at + 1, !.rest = f]
    BY <1>3 DEF PlanStep, Over, Planning
  <2> HIDE DEF f, q
  <2>4. q \in Planning(segs)
    BY <2>1, <2>2, <2>3 DEF Planning
  <2>5. Enters(p, q, segs, ch)
    BY <1>3, <2>1, <2>3 DEF Enters, Planning, f
  <2> QED BY <2>4, <2>5 DEF q
<1>4. CASE ~Over(p, segs) /\ p.rest # 0 /\ p.left < sizing.record_cost + ch
  <2>1. q = [p EXCEPT !.exhausted = TRUE] /\ ~p.exhausted
    BY <1>4 DEF PlanStep, Over
  <2> HIDE DEF q
  <2>2. q \in Planning(segs) /\ Exhausts(p, q, ch)
    BY <1>4, <2>1 DEF Planning, Exhausts
  <2> QED BY <2>2 DEF q
<1>5. CASE ~Over(p, segs) /\ p.rest # 0 /\ ~(p.left < sizing.record_cost + ch)
  <2> DEFINE t == Take(p, ch)
             l == p.left - sizing.record_cost - t * ch
             k == Append(p.takes, t)
  <2>0. sizing.record_cost \in Nat
    BY DEF Sizing
  <2>1. p.left >= sizing.record_cost + ch
    BY <1>1, <1>5, <2>0
  <2>2. /\ t \in Nat \ {0} /\ t <= p.rest /\ t <= sizing.chunk_cap
        /\ t * ch \in Nat /\ sizing.record_cost + t * ch <= p.left
    BY <1>5, <2>1, TakeFits
  <2>3. q = [p EXCEPT !.rest = p.rest - t, !.left = l, !.takes = k]
    BY <1>5 DEF PlanStep, Over, Take, Planning
  <2>4. ~p.exhausted
    BY <1>5 DEF Over
  <2> HIDE DEF t, q
  <2>5. p.rest - t \in Nat /\ l \in Nat /\ k \in Seq(Nat \ {0})
    BY <1>1, <2>0, <2>2
  <2> HIDE DEF l, k
  <2>6. q \in Planning(segs)
    BY <2>3, <2>5 DEF Planning
  <2>7. Draws(p, q, t, ch)
    BY <1>5, <2>1, <2>2, <2>3, <2>4 DEF Draws, Planning, l, k
  <2> QED BY <2>2, <2>6, <2>7 DEF q
<1> QED BY <1>2, <1>3, <1>4, <1>5

(* The plan is where such steps lead. *)
LEMMA PlanRun ==
    ASSUME sizing \in Sizing, NEW segs \in Seq(Segment), NEW ch \in Nat \ {0}
    PROVE  \E run : Planned(run, segs, ch) /\ Plan(segs, ch) = run[PlanSteps(segs)]
<1> DEFINE N == PlanSteps(segs)
           S == Planning(segs)
           F == [n \in 1 .. N |-> [p \in S |-> PlanStep(p, segs, ch)]]
           Run(f) == [n \in 0 .. N |-> IF n = 0 THEN PlanStart
                                       ELSE PlanStep(f[n - 1], segs, ch)]
           f == CHOOSE g : g = Run(g)
<1>1. N \in Nat
  BY DEF PlanSteps, Sizing
<1>2. PlanStart \in S
  BY DEF PlanStart, Planning, Sizing
<1>3. F \in [1 .. N -> [S -> S]]
  <2> SUFFICES ASSUME NEW n \in 1 .. N, NEW p \in S
               PROVE  PlanStep(p, segs, ch) \in S
    OBVIOUS
  <2> QED BY PlanStepIs
<1>4. Plan(segs, ch) = f[N]
  BY DEF Plan, PlanSteps, PlanStart
<1>5. \A n \in 1 .. N, p \in S : F[n][p] = PlanStep(p, segs, ch)
  OBVIOUS
<1> HIDE DEF N, S, f, F
<1>6. PICK g : Iterate(g, S, PlanStart, N, F)
  <2>1. Stepped(S, PlanStart, N, F)
    BY <1>1, <1>2, <1>3 DEF Stepped
  <2> QED BY <2>1, IterateIs
<1>7. g \in [0 .. N -> S] /\ g[0] = PlanStart /\ \A n \in 1 .. N : g[n] = F[n][g[n - 1]]
  BY <1>6 DEF Iterate
<1>8. g = Run(g)
  <2>1. \A n \in 0 .. N : n # 0 => g[n] = PlanStep(g[n - 1], segs, ch)
    <3> SUFFICES ASSUME NEW n \in 0 .. N, n # 0
                 PROVE  g[n] = PlanStep(g[n - 1], segs, ch)
      OBVIOUS
    <3>1. n \in 1 .. N /\ n - 1 \in 0 .. N
      BY <1>1
    <3>2. g[n - 1] \in S
      BY <1>7, <3>1
    <3> QED BY <1>5, <1>7, <3>1, <3>2
  <2> QED BY <1>7, <2>1
<1>9. f = Run(f)
  BY <1>8, Zenon DEF f
<1>10. /\ f = [n \in 0 .. N |-> f[n]]
      /\ f[0] = PlanStart /\ g[0] = PlanStart
  BY <1>1, <1>8, <1>9
<1>11. \A n \in 1 .. N : /\ f[n] = PlanStep(f[n - 1], segs, ch)
                        /\ g[n] = PlanStep(g[n - 1], segs, ch)
  BY <1>1, <1>8, <1>9
<1>12. \A n \in Nat : n + 1 <= N /\ f[n] = g[n] => f[n + 1] = g[n + 1]
  <2> SUFFICES ASSUME NEW n \in Nat, n + 1 <= N, f[n] = g[n]
               PROVE  f[n + 1] = g[n + 1]
    OBVIOUS
  <2>1. n + 1 \in 1 .. N /\ (n + 1) - 1 = n
    BY <1>1
  <2> QED BY <1>11, <2>1
<1>13. f = g
  <2>1. AlikeSteps(f, g, N, S)
    BY <1>1, <1>7, <1>10, <1>12 DEF AlikeSteps
  <2> QED BY <2>1, Alike
<1>14. Planned(g, segs, ch)
  BY <1>7, <1>11 DEF Planned, N, S
<1> QED BY <1>4, <1>13, <1>14 DEF N

-----------------------------------------------------------------------------
(* Drawing one chunk. *)

LEMMA SubSeqIs ==
    ASSUME NEW S, NEW s \in Seq(S), NEW m \in Nat \ {0}, NEW n \in Nat,
           n <= Len(s), m <= n + 1
    PROVE  /\ SubSeq(s, m, n) \in Seq(S)
           /\ Len(SubSeq(s, m, n)) = n + 1 - m
           /\ \A i \in 1 .. n + 1 - m : SubSeq(s, m, n)[i] = s[i + (m - 1)]
OBVIOUS

Format == [rate : Nat \ {0}, channels : Nat \ {0}]
Cutting == [chunks : Seq(Segment), segs : Seq(Segment), panic : BOOLEAN]

(* The first b segments are shorter than a frame. *)
Short(segs, b, ch) == \A k \in 1 .. b : Len(segs[k].data) < ch

LEMMA ConsIs ==
    ASSUME NEW S, NEW a \in S, NEW t \in Seq(S)
    PROVE  /\ <<a>> \o t \in Seq(S)
           /\ Len(<<a>> \o t) = Len(t) + 1
           /\ (<<a>> \o t)[1] = a
           /\ \A i \in 1 .. Len(t) + 1 : i > 1 => (<<a>> \o t)[i] = t[i - 1]
OBVIOUS

(* Of the segments c.segs, q has lost the first b and n samples of the     *)
(* next, which are in the chunk x, and that one too if nothing was left of *)
(* it: what was at place i + s is at place i, the first shortened by o.    *)
Cuts(c, q, x, b, s, o, n, ch) ==
    /\ c \in Cutting /\ q \in Cutting /\ s \in Nat /\ o \in Nat /\ ch \in Nat \ {0}
    /\ b \in Nat /\ b + 1 \in DOMAIN c.segs
    /\ Short(c.segs, b, ch) /\ ch <= Len(c.segs[b + 1].data)
    /\ n \in Nat \ {0}
    /\ \/ s = b + 1 /\ o = 0 /\ n = Len(c.segs[b + 1].data)
       \/ s = b /\ o = n /\ n < Len(c.segs[b + 1].data)
    /\ ~c.panic /\ ~q.panic
    /\ x \in Segment /\ q.chunks = Append(c.chunks, x)
    /\ x.data = SubSeq(c.segs[b + 1].data, 1, n)
    /\ Len(q.segs) = Len(c.segs) - s
    /\ \A i \in 1 .. Len(q.segs) : i > 1 \/ o = 0 => q.segs[i] = c.segs[i + s]
    /\ o # 0 => /\ q.segs # <<>>
                /\ q.segs[1].data = SubSeq(c.segs[b + 1].data, n + 1, Len(c.segs[b + 1].data))

LEMMA RoundDivInt ==
    ASSUME NEW n \in Int, NEW d \in Nat \ {0}
    PROVE  RoundDiv(n, d) \in Int
BY DEF RoundDiv

LEMMA FrameBeatsInt ==
    ASSUME NEW n \in Nat, NEW r \in Nat \ {0}, NEW t \in Tempos
    PROVE  FrameBeats(n, r, t) \in Int
<1>1. n * Scale \in Int /\ r * t \in Nat \ {0}
  <2>1. t \in Nat \ {0} /\ Scale \in Nat
    BY SinkAssumption
  <2> QED BY <2>1
<1> QED BY <1>1, RoundDivInt DEF FrameBeats

(* What is dropped in front of the first whole segment. *)
LEMMA SkipIs ==
    ASSUME NEW segs \in Seq(Segment), NEW ch \in Nat \ {0}, NEW b \in Nat,
           b + 1 \in DOMAIN segs, Short(segs, b, ch), ch <= Len(segs[b + 1].data)
    PROVE  SkipResidue(segs, ch) = SubSeq(segs, b + 1, Len(segs))
<1> DEFINE whole == {k \in DOMAIN segs : Len(segs[k].data) >= ch}
<1>1. \A k \in DOMAIN segs : segs[k] \in Segment
  OBVIOUS
<1>2. \A k \in DOMAIN segs : Len(segs[k].data) \in Nat /\ k \in Nat \ {0}
  BY SMTT(30), <1>1 DEF Segment
<1>3. b + 1 \in whole
  BY <1>2
<1>4. \A k \in whole : b + 1 <= k
  <2> SUFFICES ASSUME NEW k \in whole, ~(b + 1 <= k)
               PROVE  FALSE
    OBVIOUS
  <2>1. k \in 1 .. b
    BY <1>2
  <2> QED BY <1>2, <2>1 DEF Short
<1>5. whole \subseteq Nat
  BY <1>2
<1> HIDE DEF whole
<1>6. Min(whole) = b + 1
  <2>1. \E x \in whole : \A y \in whole : x <= y
    BY <1>3, <1>4
  <2>2. Min(whole) \in whole /\ \A y \in whole : Min(whole) <= y
    BY <2>1 DEF Min
  <2> DEFINE m == Min(whole)
  <2>3. m \in Nat /\ m <= b + 1 /\ b + 1 <= m
    BY <1>3, <1>4, <1>5, <2>2
  <2> HIDE DEF m
  <2>4. m = b + 1
    BY <2>3
  <2> QED BY <2>4 DEF m
<1>7. whole # {}
  BY <1>3
<1> QED BY <1>6, <1>7 DEF SkipResidue, whole

LEMMA ConsumeIs ==
    ASSUME NEW c \in Cutting, NEW take \in Nat \ {0}, NEW fmt \in Format, ~c.panic,
           NEW b \in Nat, b + 1 \in DOMAIN c.segs, Short(c.segs, b, fmt.channels),
           take * fmt.channels <= Len(c.segs[b + 1].data)
    PROVE  LET q == Consume(c, take, fmt)
           IN  /\ q \in Cutting
               /\ \E x, s, o : Cuts(c, q, x, b, s, o, take * fmt.channels, fmt.channels)
<1> DEFINE ch == fmt.channels
           n == take * ch
           seg == c.segs[b + 1]
           L == Len(seg.data)
           w == SubSeq(c.segs, b + 1, Len(c.segs))
           x == [begin |-> seg.begin, tempo |-> seg.tempo, data |-> SubSeq(seg.data, 1, n)]
           rest == SubSeq(seg.data, n + 1, L)
           beat == Advance(seg, take, fmt)
           left == [seg EXCEPT !.data = rest, !.begin = beat]
           q == Consume(c, take, fmt)
<1>1. /\ c.segs \in Seq(Segment) /\ c.chunks \in Seq(Segment)
      /\ seg \in Segment /\ seg.data \in Seq(Nat) /\ L \in Nat
      /\ seg.begin \in Int /\ seg.tempo \in Tempos
      /\ ch \in Nat \ {0} /\ fmt.rate \in Nat \ {0} /\ Len(c.segs) \in Nat
      /\ b + 1 <= Len(c.segs)
  <2>1. c.segs \in Seq(Segment) /\ c.chunks \in Seq(Segment)
    BY DEF Cutting
  <2>2. seg \in Segment /\ Len(c.segs) \in Nat /\ b + 1 <= Len(c.segs)
    BY <2>1
  <2>3. seg.data \in Seq(Nat) /\ seg.begin \in Int /\ seg.tempo \in Tempos
    BY <2>2 DEF Segment
  <2>4. ch \in Nat \ {0} /\ fmt.rate \in Nat \ {0}
    BY DEF Format
  <2> HIDE DEF seg, ch
  <2> QED BY <2>1, <2>2, <2>3, <2>4
<1>2. n \in Nat \ {0} /\ ch <= n /\ n <= L
  <2>1. ch \in Nat \ {0} /\ L \in Nat
    BY <1>1
  <2>2. take * ch <= L
    OBVIOUS
  <2> HIDE DEF ch, L
  <2>3. take * ch \in Nat /\ take * ch >= ch
    BY <2>1
  <2> QED BY <2>1, <2>2, <2>3
<1>3. SkipResidue(c.segs, ch) = w
  <2>1. ch <= Len(c.segs[b + 1].data) /\ Short(c.segs, b, ch)
    <3>1. ch <= L
      <4> HIDE DEF ch, n, L
      <4> QED BY <1>1, <1>2
    <3> QED BY <3>1
  <2>2. c.segs \in Seq(Segment) /\ ch \in Nat \ {0} /\ b + 1 \in DOMAIN c.segs
    BY <1>1
  <2> HIDE DEF ch
  <2>3. SkipResidue(c.segs, ch) = SubSeq(c.segs, b + 1, Len(c.segs))
    BY <2>1, <2>2, SkipIs
  <2> QED BY <2>3
<1>4. /\ w \in Seq(Segment) /\ w # <<>> /\ w[1] = seg /\ Len(w) = Len(c.segs) - b
      /\ \A i \in 1 .. Len(w) : w[i] = c.segs[i + b]
  <2> DEFINE m == b + 1
             e == Len(c.segs)
  <2>1. m \in Nat \ {0} /\ e \in Nat /\ m <= e + 1 /\ c.segs \in Seq(Segment) /\ m <= e
    BY <1>1
  <2> HIDE DEF m
  <2>2. /\ SubSeq(c.segs, m, e) \in Seq(Segment)
        /\ Len(SubSeq(c.segs, m, e)) = e + 1 - m
        /\ \A i \in 1 .. e + 1 - m : SubSeq(c.segs, m, e)[i] = c.segs[i + (m - 1)]
    BY <2>1, SubSeqIs
  <2>3. w = SubSeq(c.segs, m, e) /\ m - 1 = b
    BY DEF m
  <2> HIDE DEF w
  <2>4. w \in Seq(Segment) /\ Len(w) = e - b /\ \A i \in 1 .. Len(w) : w[i] = c.segs[i + b]
    BY <2>1, <2>2, <2>3
  <2>5. 1 \in 1 .. Len(w) /\ 1 + b = b + 1
    BY <2>1, <2>3, <2>4
  <2> QED BY <2>4, <2>5
<1>5. x \in Segment /\ rest \in Seq(Nat) /\ Len(rest) = L - n
  <2> HIDE DEF n, L
  <2> DEFINE m == n + 1
             d == seg.data
  <2>1. d \in Seq(Nat) /\ m \in Nat \ {0} /\ m <= L + 1 /\ L = Len(d) /\ n \in Nat /\ L \in Nat
        /\ 1 <= n + 1 /\ n <= L
    BY SMTT(30), <1>1, <1>2 DEF L
  <2> HIDE DEF d
  <2>2. SubSeq(d, 1, n) \in Seq(Nat)
    BY <2>1, SubSeqIs
  <2> HIDE DEF m
  <2>3. SubSeq(d, m, L) \in Seq(Nat) /\ Len(SubSeq(d, m, L)) = L + 1 - m
    BY <2>1, SubSeqIs
  <2>4. rest = SubSeq(d, m, L) /\ L + 1 - m = L - n
    <3>1. rest = SubSeq(d, m, L)
      BY DEF m, d
    <3>2. m = n + 1
      BY DEF m
    <3> QED BY <2>1, <3>1, <3>2
  <2>5. x \in Segment
    BY <1>1, <2>2 DEF Segment, d
  <2> QED BY <2>3, <2>4, <2>5
<1>6. beat \in Int
  <2>1. FrameBeats(take, fmt.rate, seg.tempo) \in Int
    BY <1>1, FrameBeatsInt
  <2> QED BY <1>1, <2>1 DEF Advance
<1>7. left \in Segment /\ left.data = rest
  <2> HIDE DEF rest, beat
  <2> QED BY <1>1, <1>5, <1>6 DEF Segment
<1>8. q = [c EXCEPT !.chunks = Append(c.chunks, x), !.segs = Remaining(left, Tail(w))]
  <2>1. ~(c.panic \/ w = <<>> \/ Len(w[1].data) < n)
    BY SMTT(30), <1>1, <1>2, <1>4
  <2> QED BY <1>3, <1>4, <2>1 DEF Consume
<1> DEFINE r == Remaining(left, Tail(w))
           s == IF rest = <<>> THEN b + 1 ELSE b
           o == IF rest = <<>> THEN 0 ELSE n
<1> HIDE DEF w, x, rest, beat, left, q, n, L, seg
<1>9. /\ Tail(w) \in Seq(Segment) /\ Len(Tail(w)) = Len(c.segs) - b - 1
      /\ \A i \in 1 .. Len(Tail(w)) : Tail(w)[i] = c.segs[i + b + 1]
  BY <1>1, <1>4
<1>10. /\ r \in Seq(Segment) /\ Len(r) = Len(c.segs) - s
       /\ \A i \in 1 .. Len(r) : i > 1 \/ o = 0 => r[i] = c.segs[i + s]
       /\ o # 0 => r # <<>> /\ r[1].data = rest
  <2>1. CASE rest = <<>>
    <3>1. r = Tail(w) /\ s = b + 1 /\ o = 0
      BY <1>7, <2>1 DEF Remaining
    <3> DEFINE t == Tail(w)
    <3>2. t \in Seq(Segment) /\ Len(t) = Len(c.segs) - b - 1
          /\ \A i \in 1 .. Len(t) : t[i] = c.segs[i + b + 1]
      BY <1>9
    <3>3. r = t
      BY <3>1
    <3> HIDE DEF r, s, o, t
    <3>4. b \in Nat /\ \A i \in 1 .. Len(t) : i + b + 1 = i + (b + 1)
      BY <3>2
    <3>5. \A i \in 1 .. Len(t) : t[i] = c.segs[i + s]
      BY ONLY <3>1, <3>2, <3>4
    <3>6. Len(t) = Len(c.segs) - s
      BY <1>1, <3>1, <3>2
    <3> QED BY ONLY <3>1, <3>2, <3>3, <3>5, <3>6
  <2>2. CASE rest # <<>>
    <3>1. r = <<left>> \o Tail(w)
      BY <1>7, <2>2 DEF Remaining
    <3> DEFINE t == Tail(w)
    <3>0. t \in Seq(Segment) /\ Len(t) = Len(c.segs) - b - 1
          /\ \A i \in 1 .. Len(t) : t[i] = c.segs[i + b + 1]
      BY <1>9
    <3> HIDE DEF r, t
    <3>2. /\ r \in Seq(Segment) /\ Len(r) = Len(t) + 1 /\ r[1] = left
          /\ \A i \in 1 .. Len(t) + 1 : i > 1 => r[i] = t[i - 1]
      BY <1>7, <3>0, <3>1, ConsIs DEF t
    <3>3. \A i \in 1 .. Len(r) : i > 1 => r[i] = c.segs[i + b]
      <4> SUFFICES ASSUME NEW i \in 1 .. Len(r), i > 1
                   PROVE  r[i] = c.segs[i + b]
        OBVIOUS
      <4>1. i - 1 \in 1 .. Len(t) /\ (i - 1) + b + 1 = i + b
        BY <1>1, <3>0, <3>2
      <4> QED BY <3>0, <3>2, <4>1
    <3>4. Len(r) = Len(c.segs) - b /\ r # <<>>
      BY <1>1, <3>0, <3>2
    <3> QED BY <1>2, <1>7, <2>2, <3>2, <3>3, <3>4
  <2> QED BY <2>1, <2>2
<1> HIDE DEF r
<1>11. /\ q \in Cutting
       /\ q.segs = r /\ q.chunks = Append(c.chunks, x) /\ q.panic = c.panic
  <2> DEFINE k == Append(c.chunks, x)
  <2>1. k \in Seq(Segment)
    BY <1>1, <1>5
  <2>2. q = [c EXCEPT !.chunks = k, !.segs = r]
    BY <1>8 DEF r
  <2> HIDE DEF k
  <2>3. q \in Cutting /\ q.segs = r /\ q.chunks = k /\ q.panic = c.panic
    BY <1>10, <2>1, <2>2 DEF Cutting
  <2> QED BY <2>3 DEF k
<1>12. (rest = <<>>) <=> (n = L)
  BY <1>1, <1>2, <1>5
<1>13. Cuts(c, q, x, b, s, o, n, ch)
  <2>1. \/ s = b + 1 /\ o = 0 /\ n = L
        \/ s = b /\ o = n /\ n < L
    BY <1>1, <1>2, <1>12
  <2>2. x.data = SubSeq(seg.data, 1, n)
    BY DEF x
  <2>3. ch <= L /\ ch \in Nat \ {0} /\ s \in Nat /\ o \in Nat
    BY <1>1, <1>2
  <2>4. /\ c \in Cutting /\ ~c.panic /\ b \in Nat /\ b + 1 \in DOMAIN c.segs
        /\ Short(c.segs, b, ch) /\ n \in Nat \ {0}
    BY <1>2
  <2>5. ~q.panic /\ q \in Cutting /\ q.segs = r /\ q.chunks = Append(c.chunks, x)
    BY <1>11
  <2> HIDE DEF s, o, ch
  <2> QED BY <1>5, <1>10, <2>1, <2>2, <2>3, <2>4, <2>5 DEF Cuts, seg, L, rest
<1> HIDE DEF s, o
<1> QED BY <1>11, <1>13 DEF q, n

-----------------------------------------------------------------------------
(* What a chunk takes, and what it leaves. *)

Off(i, o) == IF i = 1 THEN o ELSE 0

LEMMA SegType ==
    ASSUME NEW segs \in Seq(Segment), NEW k \in 1 .. Len(segs)
    PROVE  /\ segs[k] \in Segment /\ segs[k].data \in Seq(Nat)
           /\ Len(segs[k].data) \in Nat /\ DOMAIN segs[k].data = 1 .. Len(segs[k].data)
           /\ k \in DOMAIN segs
<1>1. segs[k] \in Segment
  OBVIOUS
<1>2. segs[k].data \in Seq(Nat)
  BY <1>1 DEF Segment
<1> QED BY <1>1, <1>2

(* Where the samples of q.segs were in c.segs. *)
LEMMA CutPlaces ==
    ASSUME NEW c, NEW q, NEW x, NEW b, NEW s, NEW o, NEW n, NEW ch,
           Cuts(c, q, x, b, s, o, n, ch),
           NEW i \in 1 .. Len(q.segs)
    PROVE  /\ i + s \in 1 .. Len(c.segs) /\ i + s >= b + 1
           /\ Len(q.segs[i].data) \in Nat
           /\ Len(q.segs[i].data) + Off(i, o) = Len(c.segs[i + s].data)
           /\ \A j \in 1 .. Len(q.segs[i].data) :
                 /\ j + Off(i, o) \in 1 .. Len(c.segs[i + s].data)
                 /\ q.segs[i].data[j] = c.segs[i + s].data[j + Off(i, o)]
<1>1. /\ c.segs \in Seq(Segment) /\ q.segs \in Seq(Segment)
      /\ Len(q.segs) \in Nat /\ Len(c.segs) \in Nat
      /\ Len(q.segs) = Len(c.segs) - s
      /\ b \in Nat /\ n \in Nat \ {0} /\ ((s = b + 1 /\ o = 0) \/ (s = b /\ o = n))
  BY DEF Cutting, Cuts
<1>2. i + s \in 1 .. Len(c.segs) /\ i + s >= b + 1
  BY <1>1
<1>3. /\ Len(q.segs[i].data) \in Nat /\ q.segs[i].data \in Seq(Nat)
      /\ Len(c.segs[i + s].data) \in Nat /\ c.segs[i + s].data \in Seq(Nat)
  BY <1>1, <1>2, SegType
<1>4. CASE i > 1 \/ o = 0
  <2>1. q.segs[i] = c.segs[i + s] /\ Off(i, o) = 0
    BY <1>1, <1>4 DEF Cuts, Off
  <2> QED BY <1>2, <1>3, <2>1
<1>5. CASE i = 1 /\ o # 0
  <2> DEFINE d == c.segs[b + 1].data
             L == Len(d)
             m == n + 1
             e == q.segs[i].data
  <2>1. /\ s = b /\ o = n /\ n < L /\ e = SubSeq(d, n + 1, L)
        /\ i + s = b + 1
    BY <1>1, <1>5 DEF Cuts
  <2>2. d \in Seq(Nat) /\ L \in Nat /\ m \in Nat \ {0} /\ m <= L + 1
    <3>1. d \in Seq(Nat) /\ L \in Nat
      BY <1>3, <2>1
    <3>2. n \in Nat /\ n < L
      BY <1>1, <2>1
    <3> HIDE DEF L, d
    <3> QED BY <3>1, <3>2
  <2>3. e = SubSeq(d, m, L)
    BY <2>1
  <2>4. L = Len(d) /\ d = c.segs[i + s].data
    BY <2>1
  <2> HIDE DEF m, d, L, e
  <2>5. /\ Len(SubSeq(d, m, L)) = L + 1 - m
        /\ \A k \in 1 .. L + 1 - m : SubSeq(d, m, L)[k] = d[k + (m - 1)]
    <3>1. L <= Len(d) /\ d \in Seq(Nat) /\ L \in Nat /\ m \in Nat \ {0} /\ m <= L + 1
      BY <2>2, <2>4
    <3> QED BY ONLY <3>1, SubSeqIs
  <2>6. m = n + 1 /\ Off(i, o) = n
    BY <1>5, <2>1 DEF m, Off
  <2>7. Len(e) + n = L /\ \A k \in 1 .. Len(e) : k + n \in 1 .. L /\ e[k] = d[k + n]
    <3>1. n \in Nat /\ L \in Nat /\ n < L
      BY <1>1, <2>1 DEF L, d
    <3>2. Len(e) = L - n
      BY <2>2, <2>3, <2>5, <2>6, <3>1
    <3>3. \A k \in 1 .. L - n : e[k] = d[k + (m - 1)]
      <4>1. L + 1 - m = L - n
        BY <2>6, <3>1
      <4> QED BY <2>3, <2>5, <4>1
    <3>4. m - 1 = n
      BY <2>6, <3>1
    <3> QED BY <3>1, <3>2, <3>3, <3>4
  <2> QED BY <1>2, <1>3, <2>4, <2>6, <2>7 DEF e
<1> QED BY <1>1, <1>4, <1>5

LEMMA CutPlace ==
    ASSUME NEW c, NEW q, NEW x, NEW b, NEW s, NEW o, NEW n, NEW ch,
           Cuts(c, q, x, b, s, o, n, ch),
           NEW i \in 1 .. Len(q.segs), NEW j \in 1 .. Len(q.segs[i].data)
    PROVE  /\ i + s \in 1 .. Len(c.segs) /\ i + s >= b + 1
           /\ j + Off(i, o) \in 1 .. Len(c.segs[i + s].data)
           /\ q.segs[i].data[j] = c.segs[i + s].data[j + Off(i, o)]
<1>1. i + s \in 1 .. Len(c.segs) /\ i + s >= b + 1
  BY CutPlaces
<1>2. \A k \in 1 .. Len(q.segs[i].data) :
         /\ k + Off(i, o) \in 1 .. Len(c.segs[i + s].data)
         /\ q.segs[i].data[k] = c.segs[i + s].data[k + Off(i, o)]
  BY CutPlaces
<1> QED BY <1>1, <1>2

(* The samples of the chunk. *)
LEMMA CutChunk ==
    ASSUME NEW c, NEW q, NEW x, NEW b, NEW s, NEW o, NEW n, NEW ch,
           Cuts(c, q, x, b, s, o, n, ch)
    PROVE  /\ x.data \in Seq(Nat) /\ Len(x.data) = n /\ n \in Nat \ {0}
           /\ n <= Len(c.segs[b + 1].data)
           /\ b + 1 \in 1 .. Len(c.segs)
           /\ \A j \in 1 .. n : x.data[j] = c.segs[b + 1].data[j]
<1> DEFINE d == c.segs[b + 1].data
<1>1. /\ c.segs \in Seq(Segment) /\ b + 1 \in 1 .. Len(c.segs)
      /\ x.data = SubSeq(d, 1, n) /\ n \in Nat \ {0} /\ x \in Segment
  BY DEF Cutting, Cuts
<1>2. d \in Seq(Nat) /\ Len(d) \in Nat
  BY <1>1, SegType
<1>3. n <= Len(d)
  BY <1>1, <1>2 DEF Cuts
<1> HIDE DEF d
<1>4. /\ Len(SubSeq(d, 1, n)) = n + 1 - 1
      /\ \A k \in 1 .. n + 1 - 1 : SubSeq(d, 1, n)[k] = d[k + (1 - 1)]
      /\ SubSeq(d, 1, n) \in Seq(Nat)
  BY <1>1, <1>2, <1>3, SubSeqIs
<1>5. n + 1 - 1 = n /\ \A k \in 1 .. n : k + (1 - 1) = k
  BY <1>1
<1> QED BY <1>1, <1>3, <1>4, <1>5 DEF d

(* A place of c.segs is dropped, in the chunk, or left.                    *)
LEMMA CutFates ==
    ASSUME NEW c, NEW q, NEW x, NEW b, NEW s, NEW o, NEW n, NEW ch,
           Cuts(c, q, x, b, s, o, n, ch),
           NEW k \in 1 .. Len(c.segs), NEW j \in 1 .. Len(c.segs[k].data), k > b
    PROVE  c.segs[k].data[j] \in Members(x.data) \cup Samples(q.segs)
<1>1. /\ x.data \in Seq(Nat) /\ Len(x.data) = n /\ n \in Nat \ {0}
      /\ \A l \in 1 .. n : x.data[l] = c.segs[b + 1].data[l]
  BY SMTT(30), CutChunk
<1>2. /\ c.segs \in Seq(Segment) /\ q.segs \in Seq(Segment)
      /\ Len(q.segs) \in Nat /\ Len(c.segs) \in Nat
      /\ Len(q.segs) = Len(c.segs) - s
      /\ b \in Nat /\ ((s = b + 1 /\ o = 0) \/ (s = b /\ o = n))
      /\ s = b + 1 => n = Len(c.segs[b + 1].data)
  BY DEF Cutting, Cuts
<1>3. Len(c.segs[k].data) \in Nat
  BY <1>2, SegType
<1>4. CASE k = b + 1 /\ j <= n
  <2>1. j \in DOMAIN x.data /\ x.data[j] = c.segs[k].data[j]
    BY <1>1, <1>3, <1>4
  <2> QED BY <2>1 DEF Members
<1>5. CASE ~(k = b + 1 /\ j <= n)
  <2> DEFINE i == k - s
             l == j - Off(i, o)
  <2>1. i \in 1 .. Len(q.segs) /\ i + s = k
    <3>1. CASE s = b + 1
      <4>1. k # b + 1
        BY <1>2, <1>3, <1>5, <3>1
      <4> QED BY <1>2, <3>1, <4>1
    <3>2. CASE s = b
      BY <1>2, <3>2
    <3> QED BY <1>2, <3>1, <3>2
  <2>2. Len(q.segs[i].data) \in Nat /\ Len(q.segs[i].data) + Off(i, o) = Len(c.segs[k].data)
        /\ \A m \in 1 .. Len(q.segs[i].data) :
              q.segs[i].data[m] = c.segs[k].data[m + Off(i, o)]
    <3> HIDE DEF i
    <3> QED BY <2>1, CutPlaces
  <2>3. Off(i, o) \in Nat /\ j > Off(i, o)
    <3>1. i = 1 /\ o # 0 => k = b + 1 /\ o = n
      BY <1>1, <1>2, <2>1
    <3> QED BY <1>1, <1>3, <1>5, <3>1 DEF Off
  <2>4. l \in 1 .. Len(q.segs[i].data) /\ l + Off(i, o) = j
    <3> DEFINE f == Off(i, o)
               e == Len(q.segs[i].data)
    <3>1. f \in Nat /\ j > f /\ e \in Nat /\ e + f = Len(c.segs[k].data) /\ j \in Nat
      BY <2>2, <2>3, <1>3
    <3> HIDE DEF f, e
    <3>2. j - f \in 1 .. e /\ (j - f) + f = j
      BY <1>3, <3>1
    <3> QED BY <3>2 DEF f, e
  <2> HIDE DEF i, l
  <2>5. c.segs[k].data[j] = q.segs[i].data[l]
    BY <2>2, <2>4
  <2>6. l \in DOMAIN q.segs[i].data /\ i \in DOMAIN q.segs
    BY <1>2, <2>1, <2>4, SegType
  <2> QED BY <2>5, <2>6 DEF Samples, Members
<1> QED BY <1>4, <1>5

(* Places. *)
LEMMA SampleAt ==
    ASSUME NEW segs \in Seq(Segment), NEW v \in Samples(segs)
    PROVE  \E k \in 1 .. Len(segs) : \E j \in 1 .. Len(segs[k].data) : v = segs[k].data[j]
<1>1. PICK k \in DOMAIN segs : v \in Members(segs[k].data)
  BY DEF Samples
<1>2. k \in 1 .. Len(segs)
  OBVIOUS
<1>3. DOMAIN segs[k].data = 1 .. Len(segs[k].data)
  BY <1>2, SegType
<1>4. PICK j \in DOMAIN segs[k].data : v = segs[k].data[j]
  BY <1>1 DEF Members
<1> QED BY <1>2, <1>3, <1>4

LEMMA AtSample ==
    ASSUME NEW segs \in Seq(Segment), NEW k \in 1 .. Len(segs),
           NEW j \in 1 .. Len(segs[k].data)
    PROVE  /\ segs[k].data[j] \in Members(segs[k].data)
           /\ segs[k].data[j] \in Samples(segs) /\ segs[k].data[j] \in Nat
BY SegType DEF Samples, Members

LEMMA InPlace ==
    ASSUME NEW segs \in Seq(Segment), Sorted(segs),
           NEW k \in 1 .. Len(segs), NEW i \in 1 .. Len(segs[k].data),
           NEW l \in 1 .. Len(segs), NEW j \in 1 .. Len(segs[l].data),
           k < l \/ (k = l /\ i < j)
    PROVE  segs[k].data[i] < segs[l].data[j]
<1>1. k \in DOMAIN segs /\ l \in DOMAIN segs
  OBVIOUS
<1>2. CASE k < l
  <2>1. /\ segs[k].data[i] \in Members(segs[k].data)
        /\ segs[l].data[j] \in Members(segs[l].data)
    BY AtSample
  <2> QED BY <1>1, <1>2, <2>1 DEF Sorted, Before
<1>3. CASE k = l /\ i < j
  <2>1. i \in DOMAIN segs[k].data /\ j \in DOMAIN segs[k].data
    BY <1>3, SegType
  <2> QED BY <1>1, <1>3, <2>1 DEF Sorted, Increasing
<1> QED BY <1>2, <1>3

LEMMA SortedBy ==
    ASSUME NEW segs \in Seq(Segment),
           \A k, l \in 1 .. Len(segs) :
              \A i \in 1 .. Len(segs[k].data), j \in 1 .. Len(segs[l].data) :
                 k < l \/ (k = l /\ i < j) => segs[k].data[i] < segs[l].data[j]
    PROVE  Sorted(segs)
<1>1. ASSUME NEW k \in DOMAIN segs
      PROVE  Increasing(segs[k].data)
  <2>1. k \in 1 .. Len(segs) /\ DOMAIN segs[k].data = 1 .. Len(segs[k].data)
    BY SegType
  <2> QED BY <2>1 DEF Increasing
<1>2. ASSUME NEW k \in DOMAIN segs, NEW l \in DOMAIN segs, k < l
      PROVE  Before(Members(segs[k].data), Members(segs[l].data))
  <2>1. /\ k \in 1 .. Len(segs) /\ DOMAIN segs[k].data = 1 .. Len(segs[k].data)
        /\ l \in 1 .. Len(segs) /\ DOMAIN segs[l].data = 1 .. Len(segs[l].data)
    BY SegType
  <2> QED BY <1>2, <2>1 DEF Before, Members
<1> QED BY <1>1, <1>2 DEF Sorted

LEMMA CutWithin ==
    ASSUME NEW c, NEW q, NEW x, NEW b, NEW s, NEW o, NEW n, NEW ch,
           Cuts(c, q, x, b, s, o, n, ch)
    PROVE  Samples(q.segs) \subseteq Samples(c.segs) /\ Members(x.data) \subseteq Samples(c.segs)
<1>1. c.segs \in Seq(Segment) /\ q.segs \in Seq(Segment)
  BY DEF Cuts, Cutting
<1>2. ASSUME NEW v \in Samples(q.segs)
      PROVE  v \in Samples(c.segs)
  <2>1. PICK i \in 1 .. Len(q.segs) :
           \E j \in 1 .. Len(q.segs[i].data) : v = q.segs[i].data[j]
    BY <1>1, SampleAt
  <2> PICK j \in 1 .. Len(q.segs[i].data) : v = q.segs[i].data[j]
    BY <2>1
  <2>2. /\ i + s \in 1 .. Len(c.segs)
        /\ j + Off(i, o) \in 1 .. Len(c.segs[i + s].data)
        /\ v = c.segs[i + s].data[j + Off(i, o)]
    <3>1. /\ i + s \in 1 .. Len(c.segs)
          /\ j + Off(i, o) \in 1 .. Len(c.segs[i + s].data)
          /\ q.segs[i].data[j] = c.segs[i + s].data[j + Off(i, o)]
      BY CutPlace
    <3>2. v = q.segs[i].data[j]
      OBVIOUS
    <3> QED BY <3>1, <3>2
  <2> QED BY <1>1, <2>2, AtSample
<1>3. ASSUME NEW v \in Members(x.data)
      PROVE  v \in Samples(c.segs)
  <2>1. /\ x.data \in Seq(Nat) /\ Len(x.data) = n /\ n \in Nat \ {0}
        /\ n <= Len(c.segs[b + 1].data) /\ b + 1 \in 1 .. Len(c.segs)
        /\ \A j \in 1 .. n : x.data[j] = c.segs[b + 1].data[j]
    BY CutChunk
  <2>2. PICK j \in 1 .. n : v = c.segs[b + 1].data[j]
    BY SMTT(30), <2>1 DEF Members
  <2>3. Len(c.segs[b + 1].data) \in Nat
    BY <1>1, <2>1, SegType
  <2>4. j \in 1 .. Len(c.segs[b + 1].data)
    BY <2>1, <2>3
  <2> QED BY <1>1, <2>1, <2>2, <2>4, AtSample
<1> QED BY <1>2, <1>3

LEMMA CutSorted ==
    ASSUME NEW c, NEW q, NEW x, NEW b, NEW s, NEW o, NEW n, NEW ch,
           Cuts(c, q, x, b, s, o, n, ch), Sorted(c.segs)
    PROVE  /\ Sorted(q.segs) /\ Increasing(x.data)
           /\ Before(Members(x.data), Samples(q.segs))
<1>1. /\ c.segs \in Seq(Segment) /\ q.segs \in Seq(Segment) /\ s \in Nat /\ o \in Nat
      /\ b \in Nat
  BY DEF Cuts, Cutting
<1>2. /\ x.data \in Seq(Nat) /\ Len(x.data) = n /\ n \in Nat \ {0}
      /\ n <= Len(c.segs[b + 1].data) /\ b + 1 \in 1 .. Len(c.segs)
      /\ \A j \in 1 .. n : x.data[j] = c.segs[b + 1].data[j]
  BY CutChunk
<1>3. /\ Len(c.segs[b + 1].data) \in Nat
      /\ \A j \in 1 .. n : j \in 1 .. Len(c.segs[b + 1].data)
  <2>1. Len(c.segs[b + 1].data) \in Nat
    BY <1>1, <1>2, SegType
  <2> QED BY <1>2, <2>1
<1>4. \A i : Off(i, o) \in Nat
  BY <1>1 DEF Off
<1>5. Sorted(q.segs)
  <2>1. ASSUME NEW k \in 1 .. Len(q.segs), NEW i \in 1 .. Len(q.segs[k].data)
        PROVE  /\ k + s \in 1 .. Len(c.segs) /\ i + Off(k, o) \in 1 .. Len(c.segs[k + s].data)
               /\ q.segs[k].data[i] = c.segs[k + s].data[i + Off(k, o)]
    BY CutPlace
  <2> SUFFICES ASSUME NEW k \in 1 .. Len(q.segs), NEW l \in 1 .. Len(q.segs),
                      NEW i \in 1 .. Len(q.segs[k].data), NEW j \in 1 .. Len(q.segs[l].data),
                      k < l \/ (k = l /\ i < j)
               PROVE  q.segs[k].data[i] < q.segs[l].data[j]
    BY <1>1, SortedBy
  <2> DEFINE e == i + Off(k, o)
             f == j + Off(l, o)
  <2>2. /\ k + s \in 1 .. Len(c.segs) /\ e \in 1 .. Len(c.segs[k + s].data)
        /\ q.segs[k].data[i] = c.segs[k + s].data[e]
    BY <2>1
  <2>3. /\ l + s \in 1 .. Len(c.segs) /\ f \in 1 .. Len(c.segs[l + s].data)
        /\ q.segs[l].data[j] = c.segs[l + s].data[f]
    BY <2>1
  <2>4. k + s < l + s \/ (k + s = l + s /\ e < f)
    <3>1. Len(q.segs[k].data) \in Nat /\ Len(q.segs[l].data) \in Nat
      BY <1>1, SegType
    <3>2. i \in Nat /\ j \in Nat
      BY <3>1
    <3> QED BY <1>1, <1>4, <3>2
  <2> HIDE DEF e, f
  <2> QED BY <1>1, <2>2, <2>3, <2>4, InPlace
<1>6. Increasing(x.data)
  <2> SUFFICES ASSUME NEW i \in 1 .. n, NEW j \in 1 .. n, i < j
               PROVE  x.data[i] < x.data[j]
    BY <1>2 DEF Increasing
  <2>1. c.segs[b + 1].data[i] < c.segs[b + 1].data[j]
    BY <1>1, <1>2, <1>3, InPlace
  <2> QED BY <1>2, <2>1
<1>7. Before(Members(x.data), Samples(q.segs))
  <2> SUFFICES ASSUME NEW v \in Members(x.data), NEW w \in Samples(q.segs)
               PROVE  v < w
    BY DEF Before
  <2>1. PICK i \in 1 .. n : v = c.segs[b + 1].data[i]
    <3>1. DOMAIN x.data = 1 .. n
      BY <1>2
    <3>2. PICK i \in DOMAIN x.data : v = x.data[i]
      BY DEF Members
    <3>3. i \in 1 .. n /\ v = c.segs[b + 1].data[i]
      BY <1>2, <3>1, <3>2
    <3> QED BY <3>3
  <2>2. PICK l \in 1 .. Len(q.segs) :
            \E j \in 1 .. Len(q.segs[l].data) : w = q.segs[l].data[j]
    BY <1>1, SampleAt
  <2>3. PICK j \in 1 .. Len(q.segs[l].data) : w = q.segs[l].data[j]
    BY <2>2
  <2> DEFINE f == j + Off(l, o)
             m == l + s
  <2>4. /\ m \in 1 .. Len(c.segs) /\ m >= b + 1 /\ f \in 1 .. Len(c.segs[m].data)
        /\ w = c.segs[m].data[f]
    BY <2>3, CutPlace
  <2>5. m = b + 1 => i < f
    <3> SUFFICES ASSUME l + s = b + 1
                 PROVE  i < j + Off(l, o)
      OBVIOUS
    <3>1. s = b /\ o = n /\ l = 1
      BY SMTT(30), <1>1 DEF Cuts
    <3>2. Len(q.segs[l].data) \in Nat
      BY <1>1, SegType
    <3> QED BY <1>2, <3>1, <3>2 DEF Off
  <2>6. b + 1 < m \/ (b + 1 = m /\ i < f)
    BY <1>1, <2>4, <2>5
  <2>7. i \in 1 .. Len(c.segs[b + 1].data)
    BY <1>3
  <2> HIDE DEF m, f
  <2>8. c.segs[b + 1].data[i] < c.segs[m].data[f]
    BY <1>1, <1>2, <2>4, <2>6, <2>7, InPlace
  <2> QED BY <2>1, <2>4, <2>8
<1> QED BY <1>5, <1>6, <1>7

(* Residue that more material may come behind of: not that of the last     *)
(* segment.                                                                *)
Loose(segs, ch) == UNION {Odd(segs[k], ch) : k \in 1 .. Len(segs) - 1}

(* The frames of what is left of a segment. *)
LEMMA FramesLeft ==
    ASSUME NEW L \in Nat, NEW ch \in Nat \ {0}, NEW t \in Nat, t * ch <= L
    PROVE  /\ (L - t * ch) \div ch = (L \div ch) - t
           /\ ((L - t * ch) \div ch) * ch + t * ch = (L \div ch) * ch
           /\ t <= L \div ch
<1> DEFINE q == L \div ch
           n == t * ch
           r == (L - n) \div ch
<1>1. n \in Nat /\ L - n \in Nat
  OBVIOUS
<1>2. /\ q \in Nat /\ q * ch \in Nat /\ q * ch <= L /\ L < q * ch + ch
  BY Room
<1> HIDE DEF n
<1>3. /\ r \in Nat /\ r * ch \in Nat /\ r * ch <= L - n /\ L - n < r * ch + ch
  BY <1>1, Room
<1> HIDE DEF q, r
<1>4. r * ch + n = (r + t) * ch
  BY <1>3 DEF n
<1>5. (r + t) * ch <= L /\ L < (r + t) * ch + ch
  BY <1>1, <1>3, <1>4
<1>6. r + t = q
  <2> DEFINE u == r + t
  <2>1. u \in Nat /\ u * ch <= L /\ L < u * ch + ch
    BY <1>3, <1>5
  <2> HIDE DEF u
  <2>2. ~(u < q)
    <3> SUFFICES ASSUME u < q PROVE FALSE
      OBVIOUS
    <3>1. (u + 1) * ch <= q * ch
      BY <1>2, <2>1
    <3>2. (u + 1) * ch = u * ch + ch
      BY <2>1
    <3>3. u * ch \in Nat
      BY <2>1
    <3> QED BY <1>2, <2>1, <3>1, <3>2, <3>3
  <2>3. ~(q < u)
    <3> SUFFICES ASSUME q < u PROVE FALSE
      OBVIOUS
    <3>1. (q + 1) * ch <= u * ch
      BY <1>2, <2>1
    <3>2. (q + 1) * ch = q * ch + ch
      BY <1>2
    <3>3. u * ch \in Nat
      BY <2>1
    <3> QED BY <1>2, <2>1, <3>1, <3>2, <3>3
  <2>4. u = q
    BY <1>2, <2>1, <2>2, <2>3
  <2> QED BY <2>4 DEF u
<1>7. r = q - t /\ t <= q
  BY <1>2, <1>3, <1>6
<1>8. r * ch + n = q * ch
  BY <1>4, <1>6
<1> QED BY <1>7, <1>8 DEF q, r, n

LEMMA OddPlace ==
    ASSUME NEW segs \in Seq(Segment), NEW ch \in Nat \ {0}, NEW k \in 1 .. Len(segs),
           NEW v
    PROVE  v \in Odd(segs[k], ch) <=>
              \E j \in 1 .. Len(segs[k].data) :
                 j > (Len(segs[k].data) \div ch) * ch /\ v = segs[k].data[j]
<1> DEFINE L == Len(segs[k].data)
           m == (L \div ch) * ch
<1>1. L \in Nat
  BY SegType
<1> HIDE DEF L
<1>2. m \in Nat
  BY <1>1, Room
<1>3. Odd(segs[k], ch) = {segs[k].data[j] : j \in m + 1 .. L}
  BY DEF Odd, Frames, L
<1> HIDE DEF m
<1>4. \A j : j \in m + 1 .. L <=> j \in 1 .. L /\ j > m
  BY <1>1, <1>2
<1> QED BY <1>3, <1>4 DEF m, L

(* What is dropped is loose residue. *)
LEMMA CutKeeps ==
    ASSUME NEW c, NEW q, NEW x, NEW b, NEW s, NEW o, NEW n, NEW ch,
           Cuts(c, q, x, b, s, o, n, ch)
    PROVE  Samples(c.segs) \ Loose(c.segs, ch) \subseteq Members(x.data) \cup Samples(q.segs)
<1>1. /\ c.segs \in Seq(Segment) /\ Len(c.segs) \in Nat /\ ch \in Nat \ {0}
      /\ b \in Nat /\ b + 1 \in 1 .. Len(c.segs) /\ Short(c.segs, b, ch)
  BY DEF Cuts, Cutting
<1> SUFFICES ASSUME NEW v \in Samples(c.segs), v \notin Loose(c.segs, ch)
             PROVE  v \in Members(x.data) \cup Samples(q.segs)
  OBVIOUS
<1>2. PICK k \in 1 .. Len(c.segs) :
         \E j \in 1 .. Len(c.segs[k].data) : v = c.segs[k].data[j]
  BY <1>1, SampleAt
<1>3. PICK j \in 1 .. Len(c.segs[k].data) : v = c.segs[k].data[j]
  BY <1>2
<1>4. k > b
  <2> SUFFICES ASSUME ~(k > b)
               PROVE  v \in Loose(c.segs, ch)
    OBVIOUS
  <2> DEFINE L == Len(c.segs[k].data)
  <2>1. k \in 1 .. b /\ k \in 1 .. Len(c.segs) - 1
    BY <1>1
  <2>2. L \in Nat /\ L < ch
    BY <1>1, <2>1, SegType DEF Short
  <2>3. (L \div ch) * ch = 0
    <3> HIDE DEF L
    <3> QED BY <1>1, <2>2
  <2>4. j > (L \div ch) * ch
    BY <2>2, <2>3
  <2> HIDE DEF L
  <2>5. v \in Odd(c.segs[k], ch)
    BY <1>1, <1>3, <2>4, OddPlace DEF L
  <2> QED BY <2>1, <2>5 DEF Loose
<1>5. c.segs[k].data[j] \in Members(x.data) \cup Samples(q.segs)
  BY <1>4, CutFates
<1> QED BY <1>3, <1>5

LEMMA OddAt ==
    ASSUME NEW segs \in Seq(Segment), NEW ch \in Nat \ {0}, NEW k \in 1 .. Len(segs),
           NEW v \in Odd(segs[k], ch)
    PROVE  \E j \in 1 .. Len(segs[k].data) :
              j > (Len(segs[k].data) \div ch) * ch /\ v = segs[k].data[j]
<1> DEFINE L == Len(segs[k].data)
           m == (L \div ch) * ch
<1>1. L \in Nat
  BY SegType
<1> HIDE DEF L
<1>2. m \in Nat
  BY <1>1, Room
<1>3. Odd(segs[k], ch) = {segs[k].data[j] : j \in m + 1 .. L}
  BY DEF Odd, Frames, L
<1> HIDE DEF m
<1>4. PICK j \in m + 1 .. L : v = segs[k].data[j]
  BY <1>3
<1>5. j \in 1 .. L /\ j > m
  BY <1>1, <1>2
<1> QED BY <1>4, <1>5 DEF m, L

LEMMA LooseAt ==
    ASSUME NEW segs \in Seq(Segment), NEW ch \in Nat \ {0}, NEW v \in Loose(segs, ch)
    PROVE  \E k \in 1 .. Len(segs) :
              k < Len(segs) /\ \E j \in 1 .. Len(segs[k].data) :
                 j > (Len(segs[k].data) \div ch) * ch /\ v = segs[k].data[j]
<1>1. PICK k \in 1 .. Len(segs) - 1 : v \in Odd(segs[k], ch)
  BY DEF Loose
<1>2. k \in 1 .. Len(segs) /\ k < Len(segs)
  OBVIOUS
<1>3. \E j \in 1 .. Len(segs[k].data) :
         j > (Len(segs[k].data) \div ch) * ch /\ v = segs[k].data[j]
  <2>1. segs \in Seq(Segment) /\ ch \in Nat \ {0}
    OBVIOUS
  <2> QED BY ONLY <1>1, <1>2, <2>1, OddAt
<1> QED BY <1>2, <1>3

LEMMA CutLoose ==
    ASSUME NEW c, NEW q, NEW x, NEW b, NEW s, NEW o, NEW n, NEW ch,
           Cuts(c, q, x, b, s, o, n, ch), NEW t \in Nat, n = t * ch
    PROVE  Loose(q.segs, ch) \subseteq Loose(c.segs, ch)
<1>1. /\ c.segs \in Seq(Segment) /\ q.segs \in Seq(Segment) /\ ch \in Nat \ {0}
      /\ Len(c.segs) \in Nat /\ Len(q.segs) \in Nat /\ s \in Nat
      /\ Len(q.segs) = Len(c.segs) - s
      /\ o = 0 \/ o = t * ch
  BY DEF Cuts, Cutting
<1> SUFFICES ASSUME NEW v \in Loose(q.segs, ch)
             PROVE  v \in Loose(c.segs, ch)
  OBVIOUS
<1>2. PICK k \in 1 .. Len(q.segs) :
         k < Len(q.segs) /\ \E j \in 1 .. Len(q.segs[k].data) :
            j > (Len(q.segs[k].data) \div ch) * ch /\ v = q.segs[k].data[j]
  BY <1>1, LooseAt
<1>3. k + s \in 1 .. Len(c.segs) - 1 /\ k + s \in 1 .. Len(c.segs)
  BY <1>1, <1>2
<1> DEFINE L == Len(q.segs[k].data)
           M == Len(c.segs[k + s].data)
           f == Off(k, o)
<1>4. PICK j \in 1 .. L : j > (L \div ch) * ch /\ v = q.segs[k].data[j]
  BY <1>2
<1>5. j + f \in 1 .. M /\ v = c.segs[k + s].data[j + f]
  <2>1. /\ j + Off(k, o) \in 1 .. Len(c.segs[k + s].data)
        /\ q.segs[k].data[j] = c.segs[k + s].data[j + Off(k, o)]
    BY <1>3, CutPlace
  <2> QED BY <1>4, <2>1
<1>6. L \in Nat /\ L + f = M /\ M \in Nat
  <2>1. L \in Nat /\ L + f = M
    BY SMTT(30), <1>3, CutPlaces
  <2>2. M \in Nat
    BY <1>1, <1>3, SegType
  <2> QED BY <2>1, <2>2
<1>7. f = 0 \/ f = t * ch
  BY <1>1 DEF Off
<1> HIDE DEF L, M, f
<1>8. (L \div ch) * ch + f = (M \div ch) * ch
  <2>1. CASE f = 0
    <3>1. L = M
      BY <1>6, <2>1
    <3>2. (M \div ch) * ch \in Nat
      BY SMTT(30), <1>1, <1>6, Room
    <3> QED BY <2>1, <3>1, <3>2
  <2>2. CASE f = t * ch
    <3>1. t * ch \in Nat /\ t * ch <= M /\ L = M - t * ch
      BY <1>1, <1>6, <2>2
    <3>2. M \in Nat /\ ch \in Nat \ {0} /\ t \in Nat /\ t * ch <= M
      BY <1>1, <1>6, <3>1
    <3>3. ((M - t * ch) \div ch) * ch + t * ch = (M \div ch) * ch
      BY ONLY <3>2, FramesLeft
    <3> QED BY <2>2, <3>1, <3>3
  <2> QED BY <1>7, <2>1, <2>2
<1>9. j + f > (M \div ch) * ch
  <2>1. (L \div ch) * ch \in Nat /\ f \in Nat /\ j \in Nat
    BY <1>1, <1>6, <1>7, Room
  <2> QED BY <1>4, <1>8, <2>1
<1>10. v \in Odd(c.segs[k + s], ch)
  BY <1>1, <1>3, <1>5, <1>9, OddPlace DEF M
<1> QED BY <1>3, <1>10 DEF Loose

-----------------------------------------------------------------------------
(* One datagram's chunks. *)

LEMMA ConsumeType ==
    ASSUME NEW c \in Cutting, NEW take \in Nat \ {0}, NEW fmt \in Format
    PROVE  Consume(c, take, fmt) \in Cutting
<1> DEFINE ch == fmt.channels
           n == take * ch
           whole == {k \in DOMAIN c.segs : Len(c.segs[k].data) >= ch}
           w == SkipResidue(c.segs, ch)
           broken == [c EXCEPT !.panic = TRUE]
<1>1. broken \in Cutting
  BY DEF Cutting
<1>2. c.segs \in Seq(Segment) /\ ch \in Nat \ {0} /\ n \in Nat
  <2>1. c.segs \in Seq(Segment) /\ ch \in Nat \ {0}
    BY DEF Cutting, Format
  <2> HIDE DEF ch
  <2> QED BY <2>1
<1>3. CASE c.panic \/ w = <<>> \/ Len(w[1].data) < n
  <2>1. Consume(c, take, fmt) = broken
    BY <1>3 DEF Consume
  <2> QED BY <1>1, <2>1
<1>4. CASE ~c.panic /\ w # <<>> /\ ~(Len(w[1].data) < n)
  <2>1. whole # {} /\ whole \subseteq Nat
    BY <1>2, <1>4 DEF SkipResidue
  <2>2. PICK m \in whole : \A y \in whole : m <= y
    <3> HIDE DEF whole
    <3> QED BY <2>1, Least
  <2>3. m \in 1 .. Len(c.segs) /\ Len(c.segs[m].data) >= ch
    <3>1. m \in whole
      OBVIOUS
    <3>2. m \in DOMAIN c.segs /\ Len(c.segs[m].data) >= ch
      BY <3>1
    <3> QED BY <1>2, <3>2
  <2> DEFINE b == m - 1
  <2>4. b \in Nat /\ b + 1 = m /\ b + 1 \in DOMAIN c.segs
    BY <1>2, <2>3
  <2>5. Short(c.segs, b, ch)
    <3> SUFFICES ASSUME NEW k \in 1 .. b
                 PROVE  Len(c.segs[k].data) < ch
      BY DEF Short
    <3>1. k \in 1 .. Len(c.segs) /\ k < m
      BY <1>2, <2>3, <2>4
    <3>2. k \in DOMAIN c.segs /\ k \notin whole
      BY <1>2, <2>2, <3>1
    <3>3. Len(c.segs[k].data) \in Nat
      BY <1>2, <3>1, SegType
    <3> QED BY <1>2, <3>2, <3>3
  <2>6. ch <= Len(c.segs[b + 1].data) /\ Len(c.segs[b + 1].data) \in Nat
    <3>1. Len(c.segs[m].data) \in Nat
      BY <1>2, <2>3, SegType
    <3> QED BY <1>2, <2>3, <2>4, <3>1
  <2> HIDE DEF b
  <2>7. w = SubSeq(c.segs, b + 1, Len(c.segs))
    BY <1>2, <2>4, <2>5, <2>6, SkipIs
  <2>8. w[1] = c.segs[b + 1]
    <3> DEFINE e == b + 1
               f == Len(c.segs)
    <3>1. e \in Nat \ {0} /\ f \in Nat /\ f <= Len(c.segs) /\ e <= f + 1 /\ e <= f
      BY <1>2, <2>4
    <3>2. w = SubSeq(c.segs, e, f)
      BY <2>7
    <3> HIDE DEF e, f, w
    <3>3. \A i \in 1 .. f + 1 - e : SubSeq(c.segs, e, f)[i] = c.segs[i + (e - 1)]
      BY <1>2, <3>1, SubSeqIs
    <3>4. 1 \in 1 .. f + 1 - e /\ 1 + (e - 1) = e
      BY <3>1
    <3> QED BY <3>2, <3>3, <3>4 DEF e
  <2>9. take * fmt.channels <= Len(c.segs[b + 1].data)
    <3>1. ~(Len(c.segs[b + 1].data) < n)
      BY <1>4, <2>8
    <3> HIDE DEF n
    <3>2. n <= Len(c.segs[b + 1].data)
      BY <1>2, <2>6, <3>1
    <3> QED BY <3>2 DEF n
  <2> QED BY <1>4, <2>4, <2>5, <2>9, ConsumeIs
<1> QED BY <1>3, <1>4

CutStart(segs) == [chunks |-> <<>>, segs |-> segs, panic |-> FALSE]

Cut(run, segs, takes, fmt) ==
    /\ run \in [0 .. Len(takes) -> Cutting]
    /\ run[0] = CutStart(segs)
    /\ \A n \in 1 .. Len(takes) : run[n] = Consume(run[n - 1], takes[n], fmt)

LEMMA CutRun ==
    ASSUME NEW segs \in Seq(Segment), NEW takes \in Seq(Nat \ {0}), NEW fmt \in Format
    PROVE  \E run : Cut(run, segs, takes, fmt) /\ Chunks(segs, takes, fmt) = run[Len(takes)]
<1> DEFINE N == Len(takes)
           S == Cutting
           F == [n \in 1 .. N |-> [c \in S |-> Consume(c, takes[n], fmt)]]
           a == CutStart(segs)
           Run(f) == [n \in 0 .. N |-> IF n = 0 THEN a
                                       ELSE Consume(f[n - 1], takes[n], fmt)]
           f == CHOOSE g : g = Run(g)
<1>1. N \in Nat
  OBVIOUS
<1>2. a \in S
  BY DEF CutStart, Cutting
<1>3. F \in [1 .. N -> [S -> S]]
  <2> SUFFICES ASSUME NEW n \in 1 .. N, NEW c \in S
               PROVE  Consume(c, takes[n], fmt) \in S
    OBVIOUS
  <2>1. takes[n] \in Nat \ {0}
    OBVIOUS
  <2> QED BY <2>1, ConsumeType
<1>4. Chunks(segs, takes, fmt) = f[N]
  BY DEF Chunks, CutStart
<1>5. \A n \in 1 .. N, c \in S : F[n][c] = Consume(c, takes[n], fmt)
  OBVIOUS
<1> HIDE DEF N, S, f, F, a
<1>6. PICK g : Iterate(g, S, a, N, F)
  <2>1. Stepped(S, a, N, F)
    BY <1>1, <1>2, <1>3 DEF Stepped
  <2> QED BY <2>1, IterateIs
<1>7. g \in [0 .. N -> S] /\ g[0] = a /\ \A n \in 1 .. N : g[n] = F[n][g[n - 1]]
  BY <1>6 DEF Iterate
<1>8. g = Run(g)
  <2>1. \A n \in 0 .. N : n # 0 => g[n] = Consume(g[n - 1], takes[n], fmt)
    <3> SUFFICES ASSUME NEW n \in 0 .. N, n # 0
                 PROVE  g[n] = Consume(g[n - 1], takes[n], fmt)
      OBVIOUS
    <3>1. n \in 1 .. N /\ n - 1 \in 0 .. N
      BY <1>1
    <3>2. g[n - 1] \in S
      BY <1>7, <3>1
    <3> QED BY <1>5, <1>7, <3>1, <3>2
  <2> QED BY <1>7, <2>1
<1>9. f = Run(f)
  BY <1>8, Zenon DEF f
<1>10. /\ f = [n \in 0 .. N |-> f[n]]
      /\ f[0] = a /\ g[0] = a
  BY <1>1, <1>8, <1>9
<1>11. \A n \in 1 .. N : /\ f[n] = Consume(f[n - 1], takes[n], fmt)
                         /\ g[n] = Consume(g[n - 1], takes[n], fmt)
  BY <1>1, <1>8, <1>9
<1>12. \A n \in Nat : n + 1 <= N /\ f[n] = g[n] => f[n + 1] = g[n + 1]
  <2> SUFFICES ASSUME NEW n \in Nat, n + 1 <= N, f[n] = g[n]
               PROVE  f[n + 1] = g[n + 1]
    OBVIOUS
  <2>1. n + 1 \in 1 .. N /\ (n + 1) - 1 = n
    BY <1>1
  <2> QED BY <1>11, <2>1
<1>13. f = g
  <2>1. AlikeSteps(f, g, N, S)
    BY <1>1, <1>7, <1>10, <1>12 DEF AlikeSteps
  <2> QED BY <2>1, Alike
<1>14. Cut(g, segs, takes, fmt)
  BY <1>7, <1>11 DEF Cut, N, S, a
<1> QED BY <1>4, <1>13, <1>14 DEF N

-----------------------------------------------------------------------------
(* The planner and the consumer agree: behind b segments too short for a   *)
(* frame, the consumer has the frames the planner counts and the segments  *)
(* it has not entered.                                                     *)
Open(p) == IF p.rest = 0 THEN 0 ELSE 1

Agrees(p, c, segs, ch, b) ==
    /\ b \in Nat /\ Short(c.segs, b, ch)
    /\ Len(c.segs) = b + Open(p) + (Len(segs) - p.at)
    /\ \A i \in 1 .. Len(segs) - p.at : c.segs[b + Open(p) + i] = segs[p.at + i]
    /\ p.rest # 0 => Frames(c.segs[b + 1], ch) = p.rest

LEMMA AgreesStart ==
    ASSUME NEW segs \in Seq(Segment), NEW ch
    PROVE  Agrees(PlanStart, CutStart(segs), segs, ch, 0)
BY DEF Agrees, PlanStart, CutStart, Open, Short

LEMMA AgreesEnters ==
    ASSUME NEW segs \in Seq(Segment), NEW ch \in Nat \ {0}, NEW c \in Cutting,
           NEW p \in Planning(segs), NEW q \in Planning(segs),
           Enters(p, q, segs, ch), NEW b, Agrees(p, c, segs, ch, b)
    PROVE  \E d : Agrees(q, c, segs, ch, d)
<1> DEFINE w == c.segs
           e == Len(segs) - p.at
           seg == segs[p.at + 1]
<1>1. /\ p.rest = 0 /\ p.at \in Nat /\ p.at < Len(segs) /\ q.at = p.at + 1
      /\ q.rest = Frames(seg, ch) /\ Len(segs) \in Nat
  BY DEF Enters, Planning
<1>2. /\ b \in Nat /\ Short(w, b, ch) /\ Len(w) = b + e /\ e \in Nat
      /\ \A i \in 1 .. e : w[b + i] = segs[p.at + i]
  BY <1>1 DEF Agrees, Open
<1>3. seg \in Segment
  BY <1>1
<1>4. /\ Frames(seg, ch) \in Nat
      /\ (Frames(seg, ch) = 0) <=> (Len(seg.data) < ch)
  BY <1>3, FramesType
<1>5. w[b + 1] = seg
  <2>1. 1 \in 1 .. e
    BY <1>1
  <2> QED BY <1>2, <2>1
<1>6. \A i \in 1 .. e - 1 : w[b + 1 + i] = segs[q.at + i]
  <2> SUFFICES ASSUME NEW i \in 1 .. e - 1
               PROVE  w[b + 1 + i] = segs[q.at + i]
    OBVIOUS
  <2>1. i \in Nat /\ i + 1 \in 1 .. e
    BY <1>2
  <2>2. b + (i + 1) = b + 1 + i
    BY <1>2, <2>1
  <2>3. p.at + (i + 1) = q.at + i
    BY <1>1, <2>1
  <2>4. w[b + (i + 1)] = segs[p.at + (i + 1)]
    BY <1>2, <2>1
  <2> QED BY <2>2, <2>3, <2>4
<1>7. Len(segs) - q.at = e - 1 /\ Len(w) = (b + 1) + (e - 1)
  BY <1>1, <1>2
<1>8. CASE Frames(seg, ch) = 0
  <2>1. Short(w, b + 1, ch)
    <3> SUFFICES ASSUME NEW k \in 1 .. b + 1
                 PROVE  Len(w[k].data) < ch
      BY DEF Short
    <3>1. k \in 1 .. b \/ k = b + 1
      BY <1>2
    <3>2. k \in 1 .. b => Len(w[k].data) < ch
      BY <1>2 DEF Short
    <3>3. Len(w[b + 1].data) < ch
      BY <1>4, <1>5, <1>8
    <3> QED BY <3>1, <3>2, <3>3
  <2>2. Open(q) = 0 /\ q.rest = 0
    BY <1>1, <1>8 DEF Open
  <2> DEFINE d == b + 1
  <2>3. /\ d \in Nat /\ Len(w) = d + Open(q) + (Len(segs) - q.at)
        /\ \A i \in 1 .. Len(segs) - q.at : w[d + Open(q) + i] = segs[q.at + i]
    BY <1>2, <1>6, <1>7, <2>2
  <2>4. Agrees(q, c, segs, ch, d)
    <3> HIDE DEF d
    <3>1. Short(w, d, ch)
      BY <2>1 DEF d
    <3> QED BY <2>2, <2>3, <3>1 DEF Agrees
  <2> QED BY <2>4
<1>9. CASE Frames(seg, ch) # 0
  <2>1. Open(q) = 1 /\ Frames(w[b + 1], ch) = q.rest
    BY <1>1, <1>5, <1>9 DEF Open
  <2>2. /\ Len(w) = b + Open(q) + (Len(segs) - q.at)
        /\ \A i \in 1 .. Len(segs) - q.at : w[b + Open(q) + i] = segs[q.at + i]
    BY <1>2, <1>6, <1>7, <2>1
  <2>3. Agrees(q, c, segs, ch, b)
    BY <1>2, <2>1, <2>2 DEF Agrees
  <2> QED BY <2>3
<1> QED BY <1>8, <1>9

(* Drawing the frames planned next does not fail. *)
LEMMA AgreesDraws ==
    ASSUME NEW segs \in Seq(Segment), NEW fmt \in Format, NEW c \in Cutting, ~c.panic,
           NEW p \in Planning(segs), NEW q \in Planning(segs), NEW t,
           Draws(p, q, t, fmt.channels), NEW b, Agrees(p, c, segs, fmt.channels, b)
    PROVE  LET r == Consume(c, t, fmt)
           IN  /\ r \in Cutting
               /\ \E x, s, o : Cuts(c, r, x, b, s, o, t * fmt.channels, fmt.channels)
               /\ \E d : Agrees(q, r, segs, fmt.channels, d)
<1> DEFINE ch == fmt.channels
           n == t * ch
           r == Consume(c, t, fmt)
           e == Len(segs) - p.at
           L == Len(c.segs[b + 1].data)
<1>1. /\ p.rest \in Nat \ {0} /\ t \in Nat \ {0} /\ t <= p.rest
      /\ q.at = p.at /\ q.rest = p.rest - t /\ e \in Nat
  BY DEF Draws, Planning
<1>2. /\ b \in Nat /\ Short(c.segs, b, ch) /\ Len(c.segs) = b + 1 + e
      /\ \A i \in 1 .. e : c.segs[b + 1 + i] = segs[p.at + i]
      /\ Frames(c.segs[b + 1], ch) = p.rest
  BY <1>1 DEF Agrees, Open
<1>3. c.segs \in Seq(Segment) /\ ch \in Nat \ {0} /\ b + 1 \in 1 .. Len(c.segs)
  <2>1. c.segs \in Seq(Segment) /\ ch \in Nat \ {0}
    BY DEF Cutting, Format
  <2>2. b + 1 \in 1 .. b + 1 + e
    BY <1>1, <1>2
  <2> QED BY <1>2, <2>1, <2>2
<1>4. L \in Nat /\ L \div ch = p.rest /\ n <= L /\ n \in Nat \ {0}
  <2>1. c.segs[b + 1] \in Segment
    BY <1>3
  <2>2. L \in Nat
    BY <1>3, SegType
  <2>3. L \div ch = p.rest
    BY <1>2 DEF Frames
  <2> HIDE DEF L, ch
  <2>4. p.rest * ch \in Nat /\ p.rest * ch <= L
    BY <1>3, <2>2, <2>3, Room
  <2>5. t * ch <= p.rest * ch /\ t * ch \in Nat \ {0}
    <3> DEFINE m == p.rest
    <3>1. m \in Nat /\ t \in Nat \ {0} /\ t <= m /\ ch \in Nat \ {0}
      BY <1>1, <1>3
    <3> HIDE DEF m
    <3>2. t * ch <= m * ch
      BY <3>1
    <3>3. t * ch \in Nat \ {0}
      BY <3>1
    <3> QED BY <3>2, <3>3 DEF m
  <2> QED BY <2>2, <2>3, <2>4, <2>5
<1>5. r \in Cutting /\ \E x, s, o : Cuts(c, r, x, b, s, o, n, ch)
  <2>1. t * fmt.channels <= Len(c.segs[b + 1].data)
    BY <1>4
  <2>2. /\ b \in Nat /\ b + 1 \in DOMAIN c.segs /\ Short(c.segs, b, fmt.channels)
        /\ t \in Nat \ {0}
    BY <1>1, <1>2, <1>3
  <2> HIDE DEF ch, n, r, L
  <2>3. LET z == Consume(c, t, fmt)
        IN  /\ z \in Cutting
            /\ \E x, s, o : Cuts(c, z, x, b, s, o, t * fmt.channels, fmt.channels)
    BY <2>1, <2>2, ConsumeIs
  <2> QED BY <2>3 DEF ch, n, r
<1> HIDE DEF r, ch, n, L
<1>6. PICK x, s, o : Cuts(c, r, x, b, s, o, n, ch)
  BY <1>5
<1>7. (L - n) \div ch = q.rest
  <2>1. t * ch <= L /\ L \in Nat /\ ch \in Nat \ {0} /\ t \in Nat
    BY <1>1, <1>3, <1>4 DEF n
  <2>2. (L - t * ch) \div ch = (L \div ch) - t
    BY <2>1, FramesLeft
  <2> QED BY <1>1, <1>4, <2>2 DEF n
<1>8. Len(segs) - q.at = e
  BY <1>1
<1>9. CASE s = b + 1 /\ o = 0 /\ n = L
  <2>1. q.rest = 0 /\ Open(q) = 0
    <3>1. (L - n) \div ch = 0
      <4>1. L - n = 0
        BY <1>4, <1>9
      <4> QED BY <1>3, <4>1
    <3> QED BY <1>7, <3>1 DEF Open
  <2>2. /\ Len(r.segs) = Len(c.segs) - (b + 1)
        /\ \A i \in 1 .. Len(r.segs) : r.segs[i] = c.segs[i + (b + 1)]
    BY <1>6, <1>9 DEF Cuts
  <2>3. Len(r.segs) = e /\ \A i \in 1 .. e : r.segs[i] = segs[q.at + i]
    <3>1. Len(r.segs) = e
      BY <1>1, <1>2, <2>2
    <3>2. \A i \in 1 .. e : i + (b + 1) = b + 1 + i
      BY <1>2
    <3> QED BY <1>1, <1>2, <2>2, <3>1, <3>2
  <2>4. Agrees(q, r, segs, ch, 0)
    <3>1. Short(r.segs, 0, ch)
      BY DEF Short
    <3>2. \A i \in 1 .. e : 0 + 0 + i = i
      OBVIOUS
    <3> QED BY <1>1, <1>8, <2>1, <2>3, <3>1, <3>2 DEF Agrees
  <2> QED BY <1>5, <2>4 DEF r, ch, n
<1>10. CASE s = b /\ o = n /\ n < L
  <2>1. /\ Len(r.segs) = Len(c.segs) - b /\ r.segs \in Seq(Segment)
        /\ \A i \in 1 .. Len(r.segs) : i > 1 => r.segs[i] = c.segs[i + b]
    BY <1>6, <1>10 DEF Cuts, Cutting
  <2>2. Len(r.segs) = 1 + e /\ 1 \in 1 .. Len(r.segs)
    BY SMTT(30), <1>1, <1>2, <2>1
  <2>3. \A i \in 1 .. e : r.segs[1 + i] = segs[q.at + i]
    <3> SUFFICES ASSUME NEW i \in 1 .. e
                 PROVE  r.segs[1 + i] = segs[q.at + i]
      OBVIOUS
    <3>1. 1 + i \in 1 .. Len(r.segs) /\ 1 + i > 1 /\ (1 + i) + b = b + 1 + i
      BY <1>1, <1>2, <2>2
    <3> QED BY <1>1, <1>2, <2>1, <3>1
  <2>4. Len(r.segs[1].data) = L - n
    <3>1. /\ Len(r.segs[1].data) \in Nat
          /\ Len(r.segs[1].data) + Off(1, o) = Len(c.segs[1 + s].data)
      BY <1>6, <2>2, CutPlaces
    <3>2. Off(1, o) = n /\ 1 + s = b + 1
      BY <1>2, <1>10 DEF Off
    <3> QED BY <1>4, <3>1, <3>2 DEF L
  <2>5. Frames(r.segs[1], ch) = q.rest
    BY <1>7, <2>4 DEF Frames
  <2>6. CASE q.rest = 0
    <3>1. Short(r.segs, 1, ch)
      <4>1. r.segs[1] \in Segment
        BY <2>1, <2>2
      <4>2. Len(r.segs[1].data) < ch
        BY <1>3, <2>5, <2>6, <4>1, FramesType
      <4> QED BY <4>2 DEF Short
    <3>2. Open(q) = 0
      BY <2>6 DEF Open
    <3>3. \A i \in 1 .. e : 1 + 0 + i = 1 + i
      OBVIOUS
    <3>4. Agrees(q, r, segs, ch, 1)
      BY <1>1, <1>8, <2>2, <2>3, <2>6, <3>1, <3>2, <3>3 DEF Agrees
    <3> QED BY <1>5, <3>4 DEF r, ch, n
  <2>7. CASE q.rest # 0
    <3>1. Short(r.segs, 0, ch)
      BY DEF Short
    <3>2. Open(q) = 1
      BY <2>7 DEF Open
    <3>3. \A i \in 1 .. e : 0 + 1 + i = 1 + i
      OBVIOUS
    <3>4. Agrees(q, r, segs, ch, 0)
      BY <1>1, <1>8, <2>2, <2>3, <2>5, <3>1, <3>2, <3>3 DEF Agrees
    <3> QED BY <1>5, <3>4 DEF r, ch, n
  <2> QED BY <2>6, <2>7
<1>11. (s = b + 1 /\ o = 0 /\ n = L) \/ (s = b /\ o = n /\ n < L)
  BY <1>6 DEF Cuts, L
<1> QED BY <1>9, <1>10, <1>11

-----------------------------------------------------------------------------
(* What the chunks of a datagram hold, and what they leave. *)

LEMMA SamplesAppend ==
    ASSUME NEW segs \in Seq(Segment), NEW x \in Segment
    PROVE  Samples(Append(segs, x)) = Samples(segs) \cup Members(x.data)
<1> DEFINE w == Append(segs, x)
           N == Len(segs)
<1>1. /\ N \in Nat /\ DOMAIN segs = 1 .. N /\ DOMAIN w = 1 .. N + 1
      /\ w[N + 1] = x /\ \A k \in 1 .. N : w[k] = segs[k]
  OBVIOUS
<1> HIDE DEF w, N
<1>2. ASSUME NEW v \in Samples(w)
      PROVE  v \in Samples(segs) \cup Members(x.data)
  <2>1. PICK k \in 1 .. N + 1 : v \in Members(w[k].data)
    BY <1>1 DEF Samples
  <2>2. CASE k = N + 1
    BY <1>1, <2>1, <2>2
  <2>3. CASE k # N + 1
    <3>1. k \in 1 .. N
      BY <1>1, <2>3
    <3> QED BY <1>1, <2>1, <3>1 DEF Samples
  <2> QED BY <2>2, <2>3
<1>3. ASSUME NEW v \in Samples(segs)
      PROVE  v \in Samples(w)
  <2>1. PICK k \in 1 .. N : v \in Members(segs[k].data)
    BY <1>1 DEF Samples
  <2>2. k \in 1 .. N + 1 /\ v \in Members(w[k].data)
    BY <1>1, <2>1
  <2> QED BY <1>1, <2>2 DEF Samples
<1>4. ASSUME NEW v \in Members(x.data)
      PROVE  v \in Samples(w)
  <2>1. N + 1 \in 1 .. N + 1 /\ v \in Members(w[N + 1].data)
    BY <1>1
  <2> QED BY <1>1, <2>1 DEF Samples
<1>5. Samples(w) = Samples(segs) \cup Members(x.data)
  BY <1>2, <1>3, <1>4
<1> QED BY <1>5 DEF w

LEMMA SortedAppend ==
    ASSUME NEW segs \in Seq(Segment), NEW x \in Segment, Sorted(segs), Increasing(x.data),
           Before(Samples(segs), Members(x.data))
    PROVE  Sorted(Append(segs, x))
<1> DEFINE w == Append(segs, x)
           N == Len(segs)
<1>1. /\ N \in Nat /\ DOMAIN segs = 1 .. N /\ DOMAIN w = 1 .. N + 1
      /\ w[N + 1] = x /\ \A k \in 1 .. N : w[k] = segs[k]
  OBVIOUS
<1> HIDE DEF w, N
<1>2. ASSUME NEW k \in 1 .. N + 1
      PROVE  Increasing(w[k].data)
  <2>1. CASE k = N + 1
    BY <1>1, <2>1
  <2>2. CASE k # N + 1
    <3>1. k \in 1 .. N
      BY <1>1, <2>2
    <3> QED BY <1>1, <3>1 DEF Sorted
  <2> QED BY <2>1, <2>2
<1>3. ASSUME NEW k \in 1 .. N + 1, NEW l \in 1 .. N + 1, k < l
      PROVE  Before(Members(w[k].data), Members(w[l].data))
  <2>1. k \in 1 .. N /\ w[k] = segs[k] /\ k \in DOMAIN segs
    BY <1>1, <1>3
  <2>2. CASE l = N + 1
    <3>1. Members(segs[k].data) \subseteq Samples(segs)
      BY <2>1 DEF Samples
    <3> QED BY <1>1, <2>1, <2>2, <3>1 DEF Before
  <2>3. CASE l # N + 1
    <3>1. l \in 1 .. N
      BY <1>1, <2>3
    <3> QED BY <1>1, <1>3, <2>1, <3>1 DEF Sorted
  <2> QED BY <2>2, <2>3
<1>4. Sorted(w)
  BY <1>1, <1>2, <1>3 DEF Sorted
<1> QED BY <1>4 DEF w

Keeps(c, segs, ch) ==
    /\ c \in Cutting /\ Sorted(c.chunks) /\ Sorted(c.segs)
    /\ Before(Samples(c.chunks), Samples(c.segs))
    /\ Samples(c.chunks) \subseteq Samples(segs) /\ Samples(c.segs) \subseteq Samples(segs)
    /\ Samples(segs) \ Loose(segs, ch) \subseteq Samples(c.chunks) \cup Samples(c.segs)
    /\ Loose(c.segs, ch) \subseteq Loose(segs, ch)

LEMMA KeepsStart ==
    ASSUME NEW segs \in Seq(Segment), Sorted(segs), NEW ch
    PROVE  Keeps(CutStart(segs), segs, ch)
<1> DEFINE c == CutStart(segs)
<1>1. c \in Cutting /\ c.chunks = <<>> /\ c.segs = segs
  BY DEF CutStart, Cutting
<1> HIDE DEF c
<1>2. Samples(c.chunks) = {} /\ Sorted(c.chunks)
  BY <1>1 DEF Samples, Sorted
<1>3. Before(Samples(c.chunks), Samples(c.segs))
  BY <1>2 DEF Before
<1>4. Keeps(c, segs, ch)
  BY <1>1, <1>2, <1>3 DEF Keeps
<1> QED BY <1>4 DEF c

LEMMA KeepsCut ==
    ASSUME NEW c, NEW q, NEW x, NEW b, NEW s, NEW o, NEW t \in Nat, NEW ch, NEW segs,
           Cuts(c, q, x, b, s, o, t * ch, ch), Keeps(c, segs, ch)
    PROVE  Keeps(q, segs, ch)
<1> DEFINE n == t * ch
<1>1. n = t * ch /\ Cuts(c, q, x, b, s, o, n, ch)
  OBVIOUS
<1> HIDE DEF n
<1>2. /\ q \in Cutting /\ c.chunks \in Seq(Segment) /\ x \in Segment
      /\ q.chunks = Append(c.chunks, x)
  BY <1>1 DEF Cuts, Cutting
<1>3. /\ Sorted(c.chunks) /\ Sorted(c.segs)
      /\ Before(Samples(c.chunks), Samples(c.segs))
      /\ Samples(c.chunks) \subseteq Samples(segs) /\ Samples(c.segs) \subseteq Samples(segs)
      /\ Samples(segs) \ Loose(segs, ch) \subseteq Samples(c.chunks) \cup Samples(c.segs)
      /\ Loose(c.segs, ch) \subseteq Loose(segs, ch)
  BY DEF Keeps
<1>4. Samples(q.segs) \subseteq Samples(c.segs) /\ Members(x.data) \subseteq Samples(c.segs)
  BY <1>1, CutWithin
<1>5. /\ Sorted(q.segs) /\ Increasing(x.data)
      /\ Before(Members(x.data), Samples(q.segs))
  BY <1>1, <1>3, CutSorted
<1>6. Samples(c.segs) \ Loose(c.segs, ch) \subseteq Members(x.data) \cup Samples(q.segs)
  BY <1>1, CutKeeps
<1>7. Loose(q.segs, ch) \subseteq Loose(c.segs, ch)
  BY <1>1, CutLoose
<1>8. Samples(q.chunks) = Samples(c.chunks) \cup Members(x.data)
  BY <1>2, SamplesAppend
<1>9. Sorted(q.chunks)
  <2>1. Before(Samples(c.chunks), Members(x.data))
    BY <1>3, <1>4 DEF Before
  <2> QED BY <1>2, <1>3, <1>5, <2>1, SortedAppend
<1>10. Before(Samples(q.chunks), Samples(q.segs))
  BY <1>3, <1>4, <1>5, <1>8 DEF Before
<1>11. /\ Samples(q.chunks) \subseteq Samples(segs) /\ Samples(q.segs) \subseteq Samples(segs)
       /\ Samples(segs) \ Loose(segs, ch) \subseteq Samples(q.chunks) \cup Samples(q.segs)
       /\ Loose(q.segs, ch) \subseteq Loose(segs, ch)
  BY <1>3, <1>4, <1>6, <1>7, <1>8
<1> QED BY <1>2, <1>5, <1>9, <1>10, <1>11 DEF Keeps

-----------------------------------------------------------------------------
(* The room chunks take. *)

CostOf(seg, ch) ==
    IF Frames(seg, ch) = 0 THEN 0 ELSE sizing.record_cost + Frames(seg, ch) * ch

Costs(sum, segs, ch) ==
    /\ sum \in [0 .. Len(segs) -> Nat] /\ sum[0] = 0
    /\ \A n \in 1 .. Len(segs) : sum[n] = sum[n - 1] + CostOf(segs[n], ch)

LEMMA CostOfType ==
    ASSUME sizing \in Sizing, NEW seg \in Segment, NEW ch \in Nat \ {0}
    PROVE  CostOf(seg, ch) \in Nat
<1> DEFINE f == Frames(seg, ch)
<1>1. f * ch \in Nat
  BY FramesType
<1>2. sizing.record_cost \in Nat
  BY DEF Sizing
<1> HIDE DEF f
<1>3. (IF f = 0 THEN 0 ELSE sizing.record_cost + f * ch) \in Nat
  BY <1>1, <1>2
<1> QED BY <1>3 DEF CostOf, f

LEMMA CostRun ==
    ASSUME sizing \in Sizing, NEW segs \in Seq(Segment), NEW ch \in Nat \ {0}
    PROVE  \E sum : Costs(sum, segs, ch) /\ Cost(segs, ch) = sum[Len(segs)]
<1> DEFINE N == Len(segs)
           F == [n \in 1 .. N |-> [m \in Nat |-> m + CostOf(segs[n], ch)]]
           Run(f) == [n \in 0 .. N |-> IF n = 0 THEN 0 ELSE f[n - 1] + CostOf(segs[n], ch)]
           f == CHOOSE g : g = Run(g)
<1>1. N \in Nat
  OBVIOUS
<1>2. \A n \in 1 .. N : CostOf(segs[n], ch) \in Nat
  <2> SUFFICES ASSUME NEW n \in 1 .. N
               PROVE  CostOf(segs[n], ch) \in Nat
    OBVIOUS
  <2>1. segs[n] \in Segment
    OBVIOUS
  <2> QED BY <2>1, CostOfType
<1>3. F \in [1 .. N -> [Nat -> Nat]]
  BY <1>2
<1>4. Cost(segs, ch) = f[N]
  BY DEF Cost, CostOf
<1>5. \A n \in 1 .. N, m \in Nat : F[n][m] = m + CostOf(segs[n], ch)
  OBVIOUS
<1> HIDE DEF N, f, F
<1>6. PICK g : Iterate(g, Nat, 0, N, F)
  <2>1. Stepped(Nat, 0, N, F)
    BY <1>1, <1>3 DEF Stepped
  <2> QED BY <2>1, IterateIs
<1>7. g \in [0 .. N -> Nat] /\ g[0] = 0 /\ \A n \in 1 .. N : g[n] = F[n][g[n - 1]]
  BY <1>6 DEF Iterate
<1>8. g = Run(g)
  <2>1. \A n \in 0 .. N : n # 0 => g[n] = g[n - 1] + CostOf(segs[n], ch)
    <3> SUFFICES ASSUME NEW n \in 0 .. N, n # 0
                 PROVE  g[n] = g[n - 1] + CostOf(segs[n], ch)
      OBVIOUS
    <3>1. n \in 1 .. N /\ n - 1 \in 0 .. N
      BY <1>1
    <3>2. g[n - 1] \in Nat
      BY <1>7, <3>1
    <3> QED BY <1>5, <1>7, <3>1, <3>2
  <2> QED BY <1>7, <2>1
<1>9. f = Run(f)
  BY <1>8, Zenon DEF f
<1>10. /\ f = [n \in 0 .. N |-> f[n]]
       /\ f[0] = 0 /\ g[0] = 0
  BY <1>1, <1>8, <1>9
<1>11. \A n \in 1 .. N : /\ f[n] = f[n - 1] + CostOf(segs[n], ch)
                         /\ g[n] = g[n - 1] + CostOf(segs[n], ch)
  BY <1>1, <1>8, <1>9
<1>12. \A n \in Nat : n + 1 <= N /\ f[n] = g[n] => f[n + 1] = g[n + 1]
  <2> SUFFICES ASSUME NEW n \in Nat, n + 1 <= N, f[n] = g[n]
               PROVE  f[n + 1] = g[n + 1]
    OBVIOUS
  <2>1. n + 1 \in 1 .. N /\ (n + 1) - 1 = n
    BY <1>1
  <2> QED BY <1>11, <2>1
<1>13. f = g
  <2>1. AlikeSteps(f, g, N, Nat)
    BY <1>1, <1>7, <1>10, <1>12 DEF AlikeSteps
  <2> QED BY <2>1, Alike
<1>14. Costs(g, segs, ch)
  BY <1>7, <1>11 DEF Costs, N
<1> QED BY <1>4, <1>13, <1>14 DEF N

LEMMA CostAppend ==
    ASSUME sizing \in Sizing, NEW segs \in Seq(Segment), NEW x \in Segment,
           NEW ch \in Nat \ {0}
    PROVE  /\ Cost(segs, ch) \in Nat
           /\ Cost(Append(segs, x), ch) = Cost(segs, ch) + CostOf(x, ch)
<1> DEFINE w == Append(segs, x)
           N == Len(segs)
<1>1. /\ N \in Nat /\ w \in Seq(Segment) /\ Len(w) = N + 1
      /\ w[N + 1] = x /\ \A k \in 1 .. N : w[k] = segs[k]
  OBVIOUS
<1> HIDE DEF w
<1>2. PICK f : Costs(f, segs, ch) /\ Cost(segs, ch) = f[Len(segs)]
  BY CostRun
<1>3. PICK g : Costs(g, w, ch) /\ Cost(w, ch) = g[Len(w)]
  BY <1>1, CostRun
<1> HIDE DEF N
<1>4. /\ f \in [0 .. N -> Nat] /\ f[0] = 0
      /\ \A n \in 1 .. N : f[n] = f[n - 1] + CostOf(segs[n], ch)
      /\ Cost(segs, ch) = f[N]
  BY <1>2 DEF Costs, N
<1>5. /\ g[0] = 0 /\ Cost(w, ch) = g[N + 1]
      /\ \A n \in 1 .. N + 1 : g[n] = g[n - 1] + CostOf(w[n], ch)
  BY <1>1, <1>3 DEF Costs
<1>6. \A n \in Nat : n + 1 <= N /\ f[n] = g[n] => f[n + 1] = g[n + 1]
  <2> SUFFICES ASSUME NEW n \in Nat, n + 1 <= N, f[n] = g[n]
               PROVE  f[n + 1] = g[n + 1]
    OBVIOUS
  <2>1. n + 1 \in 1 .. N /\ n + 1 \in 1 .. N + 1 /\ (n + 1) - 1 = n
    BY <1>1
  <2> QED BY <1>1, <1>4, <1>5, <2>1
<1>7. \A n \in 0 .. N : f[n] = g[n]
  <2>1. f[0] = g[0]
    BY <1>4, <1>5
  <2> QED BY ONLY <1>1, <1>6, <2>1, AlikeAt
<1>8. f[N] = g[N] /\ g[N + 1] = g[N] + CostOf(x, ch) /\ f[N] \in Nat
  <2>1. N \in 0 .. N /\ N + 1 \in 1 .. N + 1 /\ (N + 1) - 1 = N
    BY <1>1
  <2> QED BY <1>1, <1>4, <1>5, <1>7, <2>1
<1> QED BY <1>4, <1>5, <1>8 DEF w

LEMMA FramesExact ==
    ASSUME NEW seg, NEW ch \in Nat \ {0}, NEW t \in Nat, Len(seg.data) = t * ch
    PROVE  Frames(seg, ch) = t
<1> DEFINE n == t * ch
<1>1. n \in Nat /\ n = t * ch
  OBVIOUS
<1> HIDE DEF n
<1>2. (n - t * ch) \div ch = (n \div ch) - t
  BY <1>1, FramesLeft
<1>3. n - t * ch = 0 /\ 0 \div ch = 0 /\ n \div ch \in Int
  BY <1>1
<1>4. n \div ch = t
  BY <1>2, <1>3
<1> QED BY <1>4 DEF Frames, n

(* The room spent on the chunks so far, each within its cap and not empty. *)
Spends(p, c, ch) ==
    /\ Cost(c.chunks, ch) + p.left = sizing.budget
    /\ Len(c.chunks) = Len(p.takes)
    /\ \A k \in 1 .. Len(c.chunks) :
          Len(c.chunks[k].data) \in 1 .. sizing.chunk_cap * ch

LEMMA SpendsDraws ==
    ASSUME sizing \in Sizing, NEW segs \in Seq(Segment), NEW ch \in Nat \ {0},
           NEW p \in Planning(segs), NEW q \in Planning(segs), NEW t, Draws(p, q, t, ch),
           NEW c, NEW r, NEW x, NEW b, NEW s, NEW o, Cuts(c, r, x, b, s, o, t * ch, ch),
           Spends(p, c, ch)
    PROVE  Spends(q, r, ch)
<1>1. /\ t \in Nat \ {0} /\ t <= sizing.chunk_cap /\ t * ch \in Nat
      /\ q.left = p.left - sizing.record_cost - t * ch /\ q.takes = Append(p.takes, t)
      /\ p.left \in Nat /\ p.takes \in Seq(Nat \ {0})
      /\ sizing.record_cost \in Nat /\ sizing.budget \in Nat /\ sizing.chunk_cap \in Nat
  BY DEF Draws, Planning, Sizing
<1> DEFINE n == t * ch
<1>2. n = t * ch /\ Cuts(c, r, x, b, s, o, n, ch)
  OBVIOUS
<1> HIDE DEF n
<1>3. /\ c.chunks \in Seq(Segment) /\ x \in Segment /\ r.chunks = Append(c.chunks, x)
  BY <1>2 DEF Cuts, Cutting
<1>4. Len(x.data) = t * ch /\ t * ch \in Nat \ {0}
  BY <1>2, CutChunk
<1>5. Frames(x, ch) = t
  BY <1>1, <1>4, FramesExact
<1>6. CostOf(x, ch) = sizing.record_cost + t * ch
  BY <1>1, <1>5 DEF CostOf
<1>7. /\ Cost(c.chunks, ch) \in Nat
      /\ Cost(r.chunks, ch) = Cost(c.chunks, ch) + CostOf(x, ch)
  BY <1>3, CostAppend
<1>8. Cost(r.chunks, ch) + q.left = sizing.budget
  <2>1. Cost(c.chunks, ch) + p.left = sizing.budget
    BY DEF Spends
  <2> QED BY <1>1, <1>6, <1>7, <2>1
<1>9. t * ch \in 1 .. sizing.chunk_cap * ch
  <2> DEFINE m == sizing.chunk_cap
  <2>1. m \in Nat /\ t <= m /\ t \in Nat
    BY <1>1
  <2> HIDE DEF m
  <2>2. t * ch <= m * ch /\ m * ch \in Nat
    BY <2>1
  <2> QED BY <1>4, <2>2 DEF m
<1>10. /\ Len(r.chunks) = Len(c.chunks) + 1 /\ Len(c.chunks) \in Nat
       /\ r.chunks[Len(c.chunks) + 1] = x
       /\ \A k \in 1 .. Len(c.chunks) : r.chunks[k] = c.chunks[k]
  BY <1>3
<1>11. \A k \in 1 .. Len(r.chunks) : Len(r.chunks[k].data) \in 1 .. sizing.chunk_cap * ch
  <2> SUFFICES ASSUME NEW k \in 1 .. Len(r.chunks)
               PROVE  Len(r.chunks[k].data) \in 1 .. sizing.chunk_cap * ch
    OBVIOUS
  <2>1. CASE k = Len(c.chunks) + 1
    BY <1>4, <1>9, <1>10, <2>1
  <2>2. CASE k # Len(c.chunks) + 1
    <3>1. k \in 1 .. Len(c.chunks)
      BY <1>10, <2>2
    <3> QED BY <1>10, <3>1 DEF Spends
  <2> QED BY <2>1, <2>2
<1>12. Len(r.chunks) = Len(q.takes)
  <2>1. Len(c.chunks) = Len(p.takes)
    BY DEF Spends
  <2> QED BY <1>1, <1>10, <2>1
<1> QED BY <1>8, <1>11, <1>12 DEF Spends

-----------------------------------------------------------------------------
(* A datagram as planned. *)

Begins(s, t) == Len(s) \in Nat /\ Len(s) <= Len(t) /\ \A i \in 1 .. Len(s) : s[i] = t[i]

(* The frames per chunk planned so far are those of the plan. *)
LEMMA PlanBegins ==
    ASSUME sizing \in Sizing, NEW segs \in Seq(Segment), NEW ch \in Nat \ {0}, NEW run,
           Planned(run, segs, ch)
    PROVE  \A n \in 0 .. PlanSteps(segs) :
              Begins(run[n].takes, run[PlanSteps(segs)].takes)
<1> DEFINE N == PlanSteps(segs)
           T == {d \in Nat : d <= N => Begins(run[N - d].takes, run[N].takes)}
<1>1. N \in Nat
  BY DEF PlanSteps, Sizing
<1>2. \A n \in 0 .. N : run[n] \in Planning(segs) /\ run[n].takes \in Seq(Nat \ {0})
  BY DEF Planned, Planning
<1>3. \A n \in 1 .. N : run[n] = PlanStep(run[n - 1], segs, ch)
  BY DEF Planned
<1> HIDE DEF N
<1>4. 0 \in T
  <2>1. N - 0 = N /\ run[N].takes \in Seq(Nat \ {0})
    BY <1>1, <1>2
  <2>2. Begins(run[N].takes, run[N].takes)
    BY <2>1 DEF Begins
  <2> QED BY <2>1, <2>2
<1>5. \A d \in Nat : d \in T => d + 1 \in T
  <2> SUFFICES ASSUME NEW d \in Nat, d \in T, d + 1 <= N
               PROVE  Begins(run[N - (d + 1)].takes, run[N].takes)
    OBVIOUS
  <2> DEFINE n == N - d
             p == run[n - 1]
             q == run[n]
             t == run[N].takes
  <2>1. n \in 1 .. N /\ n - 1 \in 0 .. N /\ n \in 0 .. N /\ n - 1 = N - (d + 1) /\ N \in 0 .. N
    BY <1>1
  <2>2. Begins(q.takes, t)
    BY <1>1
  <2>3. q = PlanStep(p, segs, ch) /\ p \in Planning(segs)
    BY <1>2, <1>3, <2>1
  <2>4. q.takes \in Seq(Nat \ {0}) /\ p.takes \in Seq(Nat \ {0}) /\ t \in Seq(Nat \ {0})
    BY <1>2, <2>1
  <2> HIDE DEF n, p, q, t
  <2>5. \/ q = p
        \/ Enters(p, q, segs, ch)
        \/ Exhausts(p, q, ch)
        \/ \E u \in Nat \ {0} : Draws(p, q, u, ch)
    BY <2>3, PlanStepIs
  <2>6. q.takes = p.takes \/ \E u \in Nat \ {0} : q.takes = Append(p.takes, u)
    BY <2>5 DEF Enters, Exhausts, Draws
  <2>7. Begins(p.takes, t)
    <3>1. CASE q.takes = p.takes
      BY <2>2, <3>1
    <3>2. ASSUME NEW u \in Nat \ {0}, q.takes = Append(p.takes, u)
          PROVE  Begins(p.takes, t)
      <4> DEFINE a == p.takes
                 z == q.takes
      <4>1. a \in Seq(Nat \ {0}) /\ z = Append(a, u)
        BY <2>4, <3>2
      <4> HIDE DEF a, z
      <4>2. Len(a) \in Nat /\ Len(z) = Len(a) + 1 /\ \A i \in 1 .. Len(a) : z[i] = a[i]
        BY <4>1
      <4>3. Len(z) <= Len(t) /\ \A i \in 1 .. Len(z) : z[i] = t[i]
        BY <2>2 DEF Begins, z
      <4>4. Len(t) \in Nat
        BY <2>4
      <4>5. Begins(a, t)
        BY <4>2, <4>3, <4>4 DEF Begins
      <4> QED BY <4>5 DEF a
    <3> QED BY <2>6, <3>1, <3>2
  <2> QED BY <2>1, <2>7 DEF p, t
<1>6. Nat \subseteq T
  <2> HIDE DEF T
  <2> QED BY <1>4, <1>5, Induction
<1>7. \A n \in 0 .. N : Begins(run[n].takes, run[N].takes)
  <2> SUFFICES ASSUME NEW n \in 0 .. N
               PROVE  Begins(run[n].takes, run[N].takes)
    OBVIOUS
  <2>1. N - n \in Nat /\ N - n <= N /\ N - (N - n) = n
    BY <1>1
  <2> QED BY <1>6, <2>1
<1> QED BY <1>7 DEF N

Makes(p, c, segs, ch) ==
    /\ c \in Cutting /\ ~c.panic /\ \E b : Agrees(p, c, segs, ch, b)
    /\ Keeps(c, segs, ch) /\ Spends(p, c, ch)

LEMMA MakesStart ==
    ASSUME sizing \in Sizing, NEW segs \in Seq(Segment), Sorted(segs), NEW ch \in Nat \ {0}
    PROVE  Makes(PlanStart, CutStart(segs), segs, ch)
<1> DEFINE p == PlanStart
           c == CutStart(segs)
<1>1. /\ c \in Cutting /\ ~c.panic /\ c.chunks = <<>>
      /\ p.left = sizing.budget /\ p.takes = <<>>
  BY DEF CutStart, Cutting, PlanStart
<1>2. Keeps(c, segs, ch) /\ Agrees(p, c, segs, ch, 0)
  BY KeepsStart, AgreesStart
<1>3. Cost(<<>>, ch) = 0
  <2> DEFINE w == <<>>
  <2>1. w \in Seq(Segment) /\ Len(w) = 0
    OBVIOUS
  <2> HIDE DEF w
  <2>2. PICK sum : Costs(sum, w, ch) /\ Cost(w, ch) = sum[Len(w)]
    BY <2>1, CostRun
  <2>3. Cost(w, ch) = 0
    BY <2>1, <2>2 DEF Costs
  <2> QED BY <2>3 DEF w
<1> HIDE DEF p, c
<1>4. Spends(p, c, ch)
  <2>1. sizing.budget \in Nat
    BY DEF Sizing
  <2> QED BY <1>1, <1>3, <2>1 DEF Spends
<1>5. Makes(p, c, segs, ch)
  BY <1>1, <1>2, <1>4 DEF Makes
<1> QED BY <1>5 DEF p, c

LEMMA MakesStep ==
    ASSUME sizing \in Sizing, NEW segs \in Seq(Segment), NEW fmt \in Format,
           NEW p \in Planning(segs), NEW c, Makes(p, c, segs, fmt.channels)
    PROVE  LET q == PlanStep(p, segs, fmt.channels)
           IN  \/ q.takes = p.takes /\ Makes(q, c, segs, fmt.channels)
               \/ \E t \in Nat \ {0} : /\ q.takes = Append(p.takes, t)
                                       /\ Makes(q, Consume(c, t, fmt), segs, fmt.channels)
<1> DEFINE ch == fmt.channels
           q == PlanStep(p, segs, ch)
<1>1. ch \in Nat \ {0}
  BY DEF Format
<1> HIDE DEF ch
<1>2. q \in Planning(segs)
  BY <1>1, PlanStepIs
<1>3. \/ q = p
      \/ Enters(p, q, segs, ch)
      \/ Exhausts(p, q, ch)
      \/ \E t \in Nat \ {0} : Draws(p, q, t, ch)
  BY <1>1, PlanStepIs
<1> HIDE DEF q
<1>4. /\ c \in Cutting /\ ~c.panic /\ Keeps(c, segs, ch) /\ Spends(p, c, ch)
      /\ \E b : Agrees(p, c, segs, ch, b)
  BY DEF Makes, ch
<1>5. PICK b : Agrees(p, c, segs, ch, b)
  BY <1>4
<1> SUFFICES \/ q.takes = p.takes /\ Makes(q, c, segs, ch)
             \/ \E t \in Nat \ {0} : /\ q.takes = Append(p.takes, t)
                                     /\ Makes(q, Consume(c, t, fmt), segs, ch)
  BY DEF q, ch
<1>6. CASE q = p
  BY <1>6 DEF ch
<1>7. CASE Enters(p, q, segs, ch)
  <2>1. \E d : Agrees(q, c, segs, ch, d)
    BY <1>1, <1>2, <1>4, <1>5, <1>7, AgreesEnters
  <2>2. q.takes = p.takes /\ Spends(q, c, ch)
    BY <1>4, <1>7 DEF Enters, Spends
  <2> QED BY <1>4, <2>1, <2>2 DEF Makes
<1>8. CASE Exhausts(p, q, ch)
  <2>1. q.takes = p.takes /\ Spends(q, c, ch) /\ Agrees(q, c, segs, ch, b)
    BY <1>4, <1>5, <1>8 DEF Exhausts, Spends, Agrees, Open
  <2> QED BY <1>4, <2>1 DEF Makes
<1>9. ASSUME NEW t \in Nat \ {0}, Draws(p, q, t, ch)
      PROVE  /\ q.takes = Append(p.takes, t)
             /\ Makes(q, Consume(c, t, fmt), segs, ch)
  <2> DEFINE r == Consume(c, t, fmt)
  <2>1. /\ r \in Cutting
        /\ \E x, s, o : Cuts(c, r, x, b, s, o, t * ch, ch)
        /\ \E d : Agrees(q, r, segs, ch, d)
    BY <1>2, <1>4, <1>5, <1>9, AgreesDraws DEF ch
  <2> HIDE DEF r
  <2>2. PICK x, s, o : Cuts(c, r, x, b, s, o, t * ch, ch)
    BY <2>1
  <2>3. Keeps(r, segs, ch)
    BY <1>4, <2>2, KeepsCut
  <2>4. Spends(q, r, ch)
    BY <1>1, <1>2, <1>4, <1>9, <2>2, SpendsDraws
  <2>5. ~r.panic
    BY <2>2 DEF Cuts
  <2>6. Makes(q, r, segs, ch)
    BY <2>1, <2>3, <2>4, <2>5 DEF Makes
  <2> QED BY <1>9, <2>6 DEF r, Draws
<1> QED BY <1>3, <1>6, <1>7, <1>8, <1>9

LEMMA PlanMakes ==
    ASSUME sizing \in Sizing, NEW segs \in Seq(Segment), Sorted(segs), NEW fmt \in Format
    PROVE  LET plan == Plan(segs, fmt.channels)
           IN  /\ plan \in Planning(segs)
               /\ Makes(plan, Chunks(segs, plan.takes, fmt), segs, fmt.channels)
<1> DEFINE ch == fmt.channels
           N == PlanSteps(segs)
           plan == Plan(segs, ch)
<1>1. ch \in Nat \ {0} /\ N \in Nat
  BY DEF Format, PlanSteps, Sizing
<1> HIDE DEF ch, N, plan
<1>2. PICK run : Planned(run, segs, ch) /\ plan = run[N]
  BY <1>1, PlanRun DEF plan, N
<1>3. /\ \A n \in 0 .. N : run[n] \in Planning(segs)
      /\ run[0] = PlanStart
      /\ \A n \in 1 .. N : run[n] = PlanStep(run[n - 1], segs, ch)
  BY <1>2 DEF Planned, N
<1>4. plan \in Planning(segs) /\ plan.takes \in Seq(Nat \ {0})
  BY <1>1, <1>2, <1>3 DEF Planning
<1>5. PICK cut : /\ Cut(cut, segs, plan.takes, fmt)
                 /\ Chunks(segs, plan.takes, fmt) = cut[Len(plan.takes)]
  BY <1>4, CutRun
<1>6. /\ cut[0] = CutStart(segs)
      /\ \A n \in 1 .. Len(plan.takes) : cut[n] = Consume(cut[n - 1], plan.takes[n], fmt)
  BY <1>5 DEF Cut
<1>7. \A n \in 0 .. N : Begins(run[n].takes, plan.takes)
  BY <1>1, <1>2, PlanBegins DEF N
<1> DEFINE T == {n \in Nat : n <= N => Makes(run[n], cut[Len(run[n].takes)], segs, ch)}
<1>8. 0 \in T
  <2>1. Makes(PlanStart, CutStart(segs), segs, ch)
    BY <1>1, MakesStart
  <2>2. Len(run[0].takes) = 0
    BY <1>3 DEF PlanStart
  <2>3. Makes(run[0], cut[Len(run[0].takes)], segs, ch)
    BY <1>3, <1>6, <2>1, <2>2
  <2> QED BY <2>3
<1>9. \A n \in Nat : n \in T => n + 1 \in T
  <2> SUFFICES ASSUME NEW n \in Nat, n \in T, n + 1 <= N
               PROVE  Makes(run[n + 1], cut[Len(run[n + 1].takes)], segs, ch)
    OBVIOUS
  <2> DEFINE p == run[n]
             q == run[n + 1]
             c == cut[Len(p.takes)]
  <2>1. n \in 0 .. N /\ n + 1 \in 1 .. N /\ n + 1 \in 0 .. N /\ (n + 1) - 1 = n
    BY <1>1
  <2>2. Makes(p, c, segs, ch)
    BY <1>1
  <2>3. /\ q = PlanStep(p, segs, ch) /\ p \in Planning(segs) /\ q \in Planning(segs)
        /\ Begins(q.takes, plan.takes)
    BY <1>3, <1>7, <2>1
  <2> HIDE DEF p, q, c
  <2>4. \/ q.takes = p.takes /\ Makes(q, c, segs, ch)
        \/ \E t \in Nat \ {0} : /\ q.takes = Append(p.takes, t)
                                /\ Makes(q, Consume(c, t, fmt), segs, ch)
    <3>1. Makes(p, c, segs, fmt.channels) /\ q = PlanStep(p, segs, fmt.channels)
      BY <2>2, <2>3 DEF ch
    <3>2. LET z == PlanStep(p, segs, fmt.channels)
          IN  \/ z.takes = p.takes /\ Makes(z, c, segs, fmt.channels)
              \/ \E t \in Nat \ {0} : /\ z.takes = Append(p.takes, t)
                                      /\ Makes(z, Consume(c, t, fmt), segs, fmt.channels)
      BY <2>3, <3>1, MakesStep
    <3> QED BY <3>1, <3>2 DEF ch
  <2>5. CASE q.takes = p.takes /\ Makes(q, c, segs, ch)
    BY <2>5 DEF c, q
  <2>6. ASSUME NEW t \in Nat \ {0}, q.takes = Append(p.takes, t),
               Makes(q, Consume(c, t, fmt), segs, ch)
        PROVE  Makes(q, cut[Len(q.takes)], segs, ch)
    <3> DEFINE a == p.takes
               z == q.takes
               w == plan.takes
    <3>1. a \in Seq(Nat \ {0}) /\ z = Append(a, t)
      BY <2>3, <2>6 DEF Planning
    <3>2. Begins(z, w) /\ w \in Seq(Nat \ {0})
      BY <1>4, <2>3
    <3>3. \A k \in 1 .. Len(w) : cut[k] = Consume(cut[k - 1], w[k], fmt)
      BY <1>6
    <3>4. c = cut[Len(a)]
      BY DEF c
    <3> HIDE DEF a, z, w
    <3>5. Len(a) \in Nat /\ Len(z) = Len(a) + 1 /\ z[Len(a) + 1] = t
      BY <3>1
    <3>6. Len(a) + 1 \in 1 .. Len(w) /\ w[Len(a) + 1] = t /\ (Len(a) + 1) - 1 = Len(a)
      BY <3>2, <3>5 DEF Begins
    <3>7. cut[Len(z)] = Consume(c, t, fmt)
      BY <3>3, <3>4, <3>5, <3>6
    <3> QED BY <2>6, <3>7 DEF z
  <2>7. Makes(q, cut[Len(q.takes)], segs, ch)
    BY <2>4, <2>5, <2>6 DEF c
  <2> QED BY <2>7 DEF q
<1>10. Nat \subseteq T
  <2> HIDE DEF T
  <2> QED BY <1>8, <1>9, Induction
<1>11. Makes(plan, cut[Len(plan.takes)], segs, ch)
  BY <1>1, <1>2, <1>10
<1> QED BY <1>4, <1>5, <1>11 DEF plan, ch

-----------------------------------------------------------------------------
(* Where the plan ends: exhausted, with no room for one frame more, or     *)
(* with all segments in it, which then fit in the room.                    *)

Booked(p, ch) == IF p.rest = 0 THEN 0 ELSE sizing.record_cost + p.rest * ch

Goes(p, n, sum, segs, ch) ==
    /\ p.left <= sizing.budget
    /\ p.exhausted => p.left < sizing.record_cost + ch
    /\ sum[p.at] + p.left <= sizing.budget + Booked(p, ch)
    /\ Over(p, segs) \/ n + p.left <= p.at + sizing.budget

LEMMA GoesStep ==
    ASSUME sizing \in Sizing, NEW segs \in Seq(Segment), NEW ch \in Nat \ {0},
           NEW sum, Costs(sum, segs, ch), NEW n \in Nat,
           NEW p \in Planning(segs), Goes(p, n, sum, segs, ch)
    PROVE  Goes(PlanStep(p, segs, ch), n + 1, sum, segs, ch)
<1> DEFINE q == PlanStep(p, segs, ch)
<1>1. /\ p.at \in Nat /\ p.at <= Len(segs) /\ p.rest \in Nat /\ p.left \in Nat
      /\ Len(segs) \in Nat /\ sizing.record_cost \in Nat /\ sizing.budget \in Nat
  BY DEF Planning, Sizing
<1>2. q \in Planning(segs)
  BY PlanStepIs
<1>3. \/ q = p /\ Over(p, segs)
      \/ Enters(p, q, segs, ch)
      \/ Exhausts(p, q, ch)
      \/ \E t \in Nat \ {0} : Draws(p, q, t, ch)
  BY PlanStepIs
<1> HIDE DEF q
<1>4. sum[p.at] \in Nat
  BY <1>1 DEF Costs
<1>5. /\ p.left <= sizing.budget
      /\ p.exhausted => p.left < sizing.record_cost + ch
      /\ sum[p.at] + p.left <= sizing.budget + Booked(p, ch)
      /\ Over(p, segs) \/ n + p.left <= p.at + sizing.budget
  BY DEF Goes
<1> SUFFICES Goes(q, n + 1, sum, segs, ch)
  BY DEF q
<1>6. CASE q = p /\ Over(p, segs)
  BY <1>5, <1>6 DEF Goes
<1>7. CASE Enters(p, q, segs, ch)
  <2> DEFINE seg == segs[p.at + 1]
             f == Frames(seg, ch)
  <2>1. /\ ~p.exhausted /\ p.rest = 0 /\ p.at < Len(segs) /\ q.at = p.at + 1
        /\ q.rest = f /\ q.left = p.left /\ ~q.exhausted
    BY <1>7 DEF Enters
  <2>2. p.at + 1 \in 1 .. Len(segs) /\ (p.at + 1) - 1 = p.at
    BY <1>1, <2>1
  <2>3. sum[p.at + 1] = sum[p.at] + CostOf(seg, ch)
    BY <2>2 DEF Costs
  <2>4. f \in Nat /\ f * ch \in Nat
    <3>1. seg \in Segment
      BY <2>2
    <3> QED BY <3>1, FramesType
  <2>5. CostOf(seg, ch) = Booked(q, ch)
    BY <2>1 DEF CostOf, Booked
  <2>6. Booked(p, ch) = 0 /\ Booked(q, ch) \in Nat
    <3>1. Booked(p, ch) = 0
      BY <2>1 DEF Booked
    <3> HIDE DEF f
    <3>2. Booked(q, ch) \in Nat
      BY <1>1, <2>1, <2>4 DEF Booked
    <3> QED BY <3>1, <3>2
  <2>7. sum[q.at] + q.left <= sizing.budget + Booked(q, ch)
    <3> DEFINE a == sum[p.at]
               z == sum[p.at + 1]
               k == Booked(q, ch)
    <3>1. a \in Nat /\ k \in Nat /\ z = a + k /\ a + p.left <= sizing.budget + 0
      BY <1>4, <1>5, <2>3, <2>5, <2>6
    <3> HIDE DEF a, z, k
    <3>2. z + p.left <= sizing.budget + k
      BY <1>1, <3>1
    <3> QED BY <2>1, <3>2 DEF z, k
  <2>8. (n + 1) + q.left <= q.at + sizing.budget
    <3>1. ~Over(p, segs)
      BY <1>1, <2>1 DEF Over
    <3>2. n + p.left <= p.at + sizing.budget
      BY <1>5, <3>1
    <3> QED BY <1>1, <2>1, <3>2
  <2> QED BY <1>5, <2>1, <2>7, <2>8 DEF Goes
<1>8. CASE Exhausts(p, q, ch)
  <2>1. /\ p.left < sizing.record_cost + ch /\ q.at = p.at /\ q.rest = p.rest
        /\ q.left = p.left /\ q.exhausted
    BY <1>8 DEF Exhausts
  <2> QED BY <1>5, <2>1 DEF Goes, Over, Booked
<1>9. ASSUME NEW t \in Nat \ {0}, Draws(p, q, t, ch)
      PROVE  Goes(q, n + 1, sum, segs, ch)
  <2>1. /\ ~p.exhausted /\ p.rest # 0 /\ t <= p.rest /\ t * ch \in Nat
        /\ sizing.record_cost + t * ch <= p.left
        /\ q.at = p.at /\ q.rest = p.rest - t /\ ~q.exhausted
        /\ q.left = p.left - sizing.record_cost - t * ch
    BY <1>9 DEF Draws
  <2> DEFINE m == p.rest
             n1 == t * ch
             n2 == m * ch
             n3 == (m - t) * ch
  <2>2. t * ch >= 1
    OBVIOUS
  <2>3. n2 \in Nat /\ n3 \in Nat /\ n2 = n1 + n3
    <3>1. m \in Nat /\ t \in Nat /\ t <= m /\ ch \in Nat
      BY <1>1, <2>1
    <3> HIDE DEF m
    <3>2. m * ch = t * ch + (m - t) * ch
      BY <3>1
    <3>3. m * ch \in Nat /\ (m - t) * ch \in Nat
      BY <3>1
    <3> QED BY <3>2, <3>3
  <2>4. Booked(p, ch) = sizing.record_cost + n2
    BY <2>1 DEF Booked
  <2>5. Booked(q, ch) >= n3 /\ Booked(q, ch) \in Nat
    <3>1. CASE q.rest = 0
      <4>1. m - t = 0
        BY <2>1, <3>1
      <4>2. n3 = 0
        BY <4>1
      <4> QED BY <3>1, <4>2 DEF Booked
    <3>2. CASE q.rest # 0
      <4>1. Booked(q, ch) = sizing.record_cost + n3
        BY <2>1, <3>2 DEF Booked
      <4> HIDE DEF n3
      <4> QED BY <1>1, <2>3, <4>1
    <3> QED BY <3>1, <3>2
  <2>6. sum[q.at] + q.left <= sizing.budget + Booked(q, ch)
    <3> DEFINE a == sum[p.at]
               k == Booked(q, ch)
    <3>1. a \in Nat /\ k \in Nat /\ k >= n3
          /\ a + p.left <= sizing.budget + (sizing.record_cost + n2)
      BY <1>4, <1>5, <2>4, <2>5
    <3>2. q.left = p.left - sizing.record_cost - n1 /\ n1 \in Nat
      BY <2>1
    <3> HIDE DEF a, k, n1, n2, n3
    <3>3. a + q.left <= sizing.budget + k
      BY SMTT(30), <1>1, <2>3, <3>1, <3>2
    <3> QED BY <2>1, <3>3 DEF a, k
  <2>7. q.left <= p.left - 1 /\ q.left <= sizing.budget
    <3> HIDE DEF n1
    <3>1. n1 >= 1 /\ n1 \in Nat /\ q.left = p.left - sizing.record_cost - n1
      BY <2>1, <2>2 DEF n1
    <3> QED BY <1>1, <1>5, <3>1
  <2>8. (n + 1) + q.left <= q.at + sizing.budget
    <3>1. ~Over(p, segs)
      BY <2>1 DEF Over
    <3>2. n + p.left <= p.at + sizing.budget
      BY <1>5, <3>1
    <3>3. q.left \in Nat
      BY <1>2 DEF Planning
    <3>4. q.at = p.at
      BY <2>1
    <3> QED BY SMTT(30), <1>1, <2>7, <3>2, <3>3, <3>4
  <2> QED BY <2>1, <2>6, <2>7, <2>8 DEF Goes
<1> QED BY <1>3, <1>6, <1>7, <1>8, <1>9

LEMMA PlanEnds ==
    ASSUME sizing \in Sizing, NEW segs \in Seq(Segment), NEW ch \in Nat \ {0}
    PROVE  LET plan == Plan(segs, ch)
           IN  /\ plan.exhausted => plan.left < sizing.record_cost + ch
               /\ ~plan.exhausted => Cost(segs, ch) + plan.left <= sizing.budget
<1> DEFINE N == PlanSteps(segs)
           plan == Plan(segs, ch)
<1>1. /\ N \in Nat /\ N = Len(segs) + sizing.budget + 1
      /\ Len(segs) \in Nat /\ sizing.budget \in Nat
  BY DEF PlanSteps, Sizing
<1> HIDE DEF N, plan
<1>2. PICK run : Planned(run, segs, ch) /\ plan = run[N]
  BY PlanRun DEF plan, N
<1>3. /\ \A n \in 0 .. N : run[n] \in Planning(segs)
      /\ run[0] = PlanStart
      /\ \A n \in 1 .. N : run[n] = PlanStep(run[n - 1], segs, ch)
  BY <1>2 DEF Planned, N
<1>4. PICK sum : Costs(sum, segs, ch) /\ Cost(segs, ch) = sum[Len(segs)]
  BY CostRun
<1> DEFINE T == {n \in Nat : n <= N => Goes(run[n], n, sum, segs, ch)}
<1>5. 0 \in T
  <2>1. sum[0] = 0
    BY <1>4 DEF Costs
  <2>2. Goes(PlanStart, 0, sum, segs, ch)
    BY <1>1, <2>1 DEF Goes, PlanStart, Booked
  <2>3. Goes(run[0], 0, sum, segs, ch)
    BY <1>3, <2>2
  <2> QED BY <2>3
<1>6. \A n \in Nat : n \in T => n + 1 \in T
  <2> SUFFICES ASSUME NEW n \in Nat, n \in T, n + 1 <= N
               PROVE  Goes(run[n + 1], n + 1, sum, segs, ch)
    OBVIOUS
  <2>1. n \in 0 .. N /\ n + 1 \in 1 .. N /\ (n + 1) - 1 = n
    BY <1>1
  <2>2. Goes(run[n], n, sum, segs, ch)
    BY <1>1
  <2>3. run[n + 1] = PlanStep(run[n], segs, ch) /\ run[n] \in Planning(segs)
    BY <1>3, <2>1
  <2> QED BY <1>4, <2>2, <2>3, GoesStep
<1>7. Nat \subseteq T
  <2> HIDE DEF T
  <2> QED BY <1>5, <1>6, Induction
<1>8. Goes(plan, N, sum, segs, ch) /\ plan \in Planning(segs)
  BY <1>1, <1>2, <1>3, <1>7
<1>9. /\ plan.at \in Nat /\ plan.at <= Len(segs) /\ plan.left \in Nat
  BY <1>1, <1>8 DEF Planning
<1>10. Over(plan, segs)
  BY <1>1, <1>8, <1>9 DEF Goes
<1>11. plan.exhausted => plan.left < sizing.record_cost + ch
  BY <1>8 DEF Goes
<1>12. ~plan.exhausted => Cost(segs, ch) + plan.left <= sizing.budget
  <2> SUFFICES ASSUME ~plan.exhausted
               PROVE  Cost(segs, ch) + plan.left <= sizing.budget
    OBVIOUS
  <2>1. plan.rest = 0 /\ plan.at = Len(segs)
    BY <1>10 DEF Over
  <2>2. sum[plan.at] + plan.left <= sizing.budget + 0
    BY <1>8, <2>1 DEF Goes, Booked
  <2> QED BY <1>1, <1>4, <2>1, <2>2
<1> QED BY <1>11, <1>12 DEF plan

-----------------------------------------------------------------------------
(* One datagram after the other. *)

Draining == [out : Seq(Seq(Segment)), segs : Seq(Segment), seq : Nat, panic : BOOLEAN]

FullDatagram(d, ch) ==
    /\ Cost(d, ch) <= sizing.budget
    /\ Cost(d, ch) + sizing.record_cost + ch > sizing.budget
    /\ \A c \in Members(d) : Len(c.data) <= sizing.chunk_cap * ch

LEMMA DrainStepType ==
    ASSUME sizing \in Sizing, NEW d \in Draining, NEW fmt \in Format
    PROVE  DrainStep(d, fmt) \in Draining
<1> DEFINE ch == fmt.channels
           plan == Plan(d.segs, ch)
           made == Chunks(d.segs, plan.takes, fmt)
<1>1. d.segs \in Seq(Segment) /\ d.out \in Seq(Seq(Segment)) /\ ch \in Nat \ {0}
  BY DEF Draining, Format
<1>2. plan \in Planning(d.segs)
  <2> DEFINE N == PlanSteps(d.segs)
  <2> HIDE DEF ch, plan
  <2>1. PICK run : Planned(run, d.segs, ch) /\ plan = run[N]
    BY <1>1, PlanRun DEF plan
  <2>2. N \in Nat
    BY <1>1 DEF PlanSteps, Sizing
  <2>3. N \in 0 .. N
    <3> HIDE DEF N
    <3> QED BY <2>2
  <2> QED BY <2>1, <2>3 DEF Planned
<1>3. plan.takes \in Seq(Nat \ {0})
  BY <1>2 DEF Planning
<1> HIDE DEF plan
<1>4. made \in Cutting
  <2> DEFINE N == Len(plan.takes)
  <2>1. PICK run : Cut(run, d.segs, plan.takes, fmt) /\ made = run[N]
    BY <1>1, <1>3, CutRun
  <2>2. N \in 0 .. N
    BY <1>3
  <2> QED BY <2>1, <2>2 DEF Cut
<1> HIDE DEF made
<1>5. made.chunks \in Seq(Segment) /\ made.segs \in Seq(Segment)
  BY <1>4 DEF Cutting
<1> DEFINE k == Append(d.out, made.chunks)
           e == d.seq + Len(made.chunks)
<1>6. k \in Seq(Seq(Segment)) /\ e \in Nat
  BY <1>1, <1>5 DEF Draining
<1> HIDE DEF k, e
<1>7. /\ [d EXCEPT !.out = k, !.segs = made.segs, !.seq = e] \in Draining
      /\ [d EXCEPT !.panic = TRUE] \in Draining
  BY <1>5, <1>6 DEF Draining
<1>8. \/ DrainStep(d, fmt) = d
      \/ DrainStep(d, fmt) = [d EXCEPT !.panic = TRUE]
      \/ DrainStep(d, fmt) = [d EXCEPT !.out = k, !.segs = made.segs, !.seq = e]
  BY DEF DrainStep, plan, made, k, e
<1> QED BY <1>7, <1>8

(* What a step of the drain does: nothing, or one full datagram. *)
Emits(d, q, c, ch) ==
    /\ Keeps(c, d.segs, ch) /\ FullDatagram(c.chunks, ch) /\ Samples(c.chunks) # {}
    /\ ~q.panic /\ q.out = Append(d.out, c.chunks) /\ q.segs = c.segs

LEMMA DrainStepIs ==
    ASSUME sizing \in Sizing, NEW d \in Draining, ~d.panic, Sorted(d.segs), NEW fmt \in Format
    PROVE  LET q == DrainStep(d, fmt)
           IN  \/ q = d /\ ~Full(Plan(d.segs, fmt.channels), fmt.channels)
               \/ \E c : Emits(d, q, c, fmt.channels)
<1> DEFINE ch == fmt.channels
           plan == Plan(d.segs, ch)
           made == Chunks(d.segs, plan.takes, fmt)
           q == DrainStep(d, fmt)
<1>1. d.segs \in Seq(Segment) /\ d.out \in Seq(Seq(Segment)) /\ ch \in Nat \ {0}
  BY DEF Draining, Format
<1>2. plan \in Planning(d.segs) /\ Makes(plan, made, d.segs, ch)
  <2>1. LET p == Plan(d.segs, fmt.channels)
        IN  /\ p \in Planning(d.segs)
            /\ Makes(p, Chunks(d.segs, p.takes, fmt), d.segs, fmt.channels)
    BY <1>1, PlanMakes
  <2> QED BY <2>1
<1>3. plan.exhausted => plan.left < sizing.record_cost + ch
  <2> HIDE DEF ch
  <2> QED BY <1>1, PlanEnds
<1>4. CASE ~Full(plan, ch)
  BY <1>4 DEF DrainStep
<1>5. CASE Full(plan, ch)
  <2>1. made \in Cutting /\ ~made.panic /\ Keeps(made, d.segs, ch) /\ Spends(plan, made, ch)
    BY <1>2 DEF Makes
  <2>2. q = [d EXCEPT !.out = Append(d.out, made.chunks), !.segs = made.segs,
                      !.seq = d.seq + Len(made.chunks)]
    BY <1>5, <2>1 DEF DrainStep
  <2> HIDE DEF made, plan, q, ch
  <2>3. /\ plan.left \in Nat /\ plan.left < sizing.record_cost + ch
        /\ plan.takes # <<>> /\ plan.takes \in Seq(Nat \ {0})
    BY <1>2, <1>3, <1>5 DEF Full, Planning
  <2>4. made.chunks \in Seq(Segment)
    BY <2>1 DEF Cutting
  <2>5. /\ Cost(made.chunks, ch) + plan.left = sizing.budget
        /\ Len(made.chunks) = Len(plan.takes)
        /\ \A k \in 1 .. Len(made.chunks) :
              Len(made.chunks[k].data) \in 1 .. sizing.chunk_cap * ch
    BY <2>1 DEF Spends
  <2>6. FullDatagram(made.chunks, ch)
    <3>1. Cost(made.chunks, ch) \in Nat
      <4>1. \E sum : Costs(sum, made.chunks, ch) /\ Cost(made.chunks, ch) = sum[Len(made.chunks)]
        BY <1>1, <2>4, CostRun
      <4>2. Len(made.chunks) \in 0 .. Len(made.chunks)
        BY <2>4
      <4> QED BY <4>1, <4>2 DEF Costs
    <3>2. sizing.budget \in Nat /\ sizing.record_cost \in Nat
      BY DEF Sizing
    <3>3. /\ Cost(made.chunks, ch) <= sizing.budget
          /\ Cost(made.chunks, ch) + sizing.record_cost + ch > sizing.budget
      BY <1>1, <2>3, <2>5, <3>1, <3>2
    <3>4. \A c \in Members(made.chunks) : Len(c.data) <= sizing.chunk_cap * ch
      <4> SUFFICES ASSUME NEW k \in DOMAIN made.chunks
                   PROVE  Len(made.chunks[k].data) <= sizing.chunk_cap * ch
        BY DEF Members
      <4>1. k \in 1 .. Len(made.chunks)
        BY <2>4
      <4>2. Len(made.chunks[k].data) \in 1 .. sizing.chunk_cap * ch
        BY <2>5, <4>1
      <4> QED BY <4>2
    <3> QED BY <3>3, <3>4 DEF FullDatagram
  <2>7. Samples(made.chunks) # {}
    <3>1. 1 \in 1 .. Len(made.chunks)
      <4>1. Len(plan.takes) \in Nat /\ Len(plan.takes) # 0
        BY <2>3
      <4> QED BY <2>5, <4>1
    <3>2. 1 \in 1 .. Len(made.chunks[1].data)
      <4>1. Len(made.chunks[1].data) >= 1 /\ Len(made.chunks[1].data) \in Nat
        BY <2>4, <2>5, <3>1, SegType
      <4> QED BY <4>1
    <3> QED BY <2>4, <3>1, <3>2, AtSample
  <2>8. ~q.panic /\ q.out = Append(d.out, made.chunks) /\ q.segs = made.segs
    <3> DEFINE k == Append(d.out, made.chunks)
               m == made.segs
               e == d.seq + Len(made.chunks)
    <3>1. q = [d EXCEPT !.out = k, !.segs = m, !.seq = e]
      BY <2>2
    <3> HIDE DEF k, m, e
    <3>2. ~q.panic /\ q.out = k /\ q.segs = m
      BY <3>1 DEF Draining
    <3> QED BY <3>2 DEF k, m
  <2>9. Emits(d, q, made, ch)
    BY <2>1, <2>6, <2>7, <2>8 DEF Emits
  <2> QED BY <2>9 DEF q, ch
<1> QED BY <1>4, <1>5

-----------------------------------------------------------------------------
(* What all datagrams of a write hold, and what they leave. *)

AllOf(o) == UNION {Samples(d) : d \in Members(o)}

OutSorted(o) ==
    /\ \A d \in DOMAIN o : Sorted(o[d])
    /\ \A d, e \in DOMAIN o : d < e => Before(Samples(o[d]), Samples(o[e]))

LEMMA AllOfAppend ==
    ASSUME NEW o \in Seq(Seq(Segment)), NEW x \in Seq(Segment)
    PROVE  /\ AllOf(Append(o, x)) = AllOf(o) \cup Samples(x)
           /\ Members(Append(o, x)) = Members(o) \cup {x}
<1> DEFINE w == Append(o, x)
           N == Len(o)
<1>1. /\ N \in Nat /\ DOMAIN o = 1 .. N /\ DOMAIN w = 1 .. N + 1
      /\ w[N + 1] = x /\ \A k \in 1 .. N : w[k] = o[k]
  OBVIOUS
<1> HIDE DEF w, N
<1>2. ASSUME NEW v \in Members(w)
      PROVE  v \in Members(o) \cup {x}
  <2>1. PICK k \in 1 .. N + 1 : v = w[k]
    BY <1>1 DEF Members
  <2>2. CASE k = N + 1
    BY <1>1, <2>1, <2>2
  <2>3. CASE k # N + 1
    <3>1. k \in 1 .. N
      BY <1>1, <2>3
    <3> QED BY <1>1, <2>1, <3>1 DEF Members
  <2> QED BY <2>2, <2>3
<1>3. ASSUME NEW v \in Members(o)
      PROVE  v \in Members(w)
  <2>1. PICK k \in 1 .. N : v = o[k]
    BY <1>1 DEF Members
  <2>2. k \in 1 .. N + 1 /\ v = w[k]
    BY <1>1, <2>1
  <2> QED BY <1>1, <2>2 DEF Members
<1>4. x \in Members(w)
  <2>1. N + 1 \in 1 .. N + 1
    BY <1>1
  <2> QED BY <1>1, <2>1 DEF Members
<1>5. Members(w) = Members(o) \cup {x}
  BY <1>2, <1>3, <1>4
<1>6. AllOf(w) = AllOf(o) \cup Samples(x)
  BY <1>5 DEF AllOf
<1> QED BY <1>5, <1>6 DEF w

LEMMA OutSortedAppend ==
    ASSUME NEW o \in Seq(Seq(Segment)), NEW x \in Seq(Segment), OutSorted(o), Sorted(x),
           Before(AllOf(o), Samples(x))
    PROVE  OutSorted(Append(o, x))
<1> DEFINE w == Append(o, x)
           N == Len(o)
<1>1. /\ N \in Nat /\ DOMAIN o = 1 .. N /\ DOMAIN w = 1 .. N + 1
      /\ w[N + 1] = x /\ \A k \in 1 .. N : w[k] = o[k]
  OBVIOUS
<1> HIDE DEF w, N
<1>2. ASSUME NEW k \in 1 .. N + 1
      PROVE  Sorted(w[k])
  <2>1. CASE k = N + 1
    BY <1>1, <2>1
  <2>2. CASE k # N + 1
    <3>1. k \in 1 .. N
      BY <1>1, <2>2
    <3> QED BY <1>1, <3>1 DEF OutSorted
  <2> QED BY <2>1, <2>2
<1>3. ASSUME NEW k \in 1 .. N + 1, NEW l \in 1 .. N + 1, k < l
      PROVE  Before(Samples(w[k]), Samples(w[l]))
  <2>1. k \in 1 .. N /\ w[k] = o[k] /\ k \in DOMAIN o
    BY <1>1, <1>3
  <2>2. CASE l = N + 1
    <3>1. Samples(o[k]) \subseteq AllOf(o)
      BY <2>1 DEF AllOf, Members
    <3> QED BY <1>1, <2>1, <2>2, <3>1 DEF Before
  <2>3. CASE l # N + 1
    <3>1. l \in 1 .. N
      BY <1>1, <2>3
    <3> QED BY <1>1, <1>3, <2>1, <3>1 DEF OutSorted
  <2> QED BY <2>2, <2>3
<1>4. OutSorted(w)
  BY <1>1, <1>2, <1>3 DEF OutSorted
<1> QED BY <1>4 DEF w

Drains(d, segs, ch) ==
    /\ d \in Draining /\ ~d.panic /\ Sorted(d.segs) /\ OutSorted(d.out)
    /\ Before(AllOf(d.out), Samples(d.segs))
    /\ AllOf(d.out) \subseteq Samples(segs) /\ Samples(d.segs) \subseteq Samples(segs)
    /\ Samples(segs) \ Loose(segs, ch) \subseteq AllOf(d.out) \cup Samples(d.segs)
    /\ Loose(d.segs, ch) \subseteq Loose(segs, ch)
    /\ \A e \in Members(d.out) : FullDatagram(e, ch)

DrainStart(segs) == [out |-> <<>>, segs |-> segs, seq |-> next_seq, panic |-> FALSE]

LEMMA DrainsStart ==
    ASSUME NEW segs \in Seq(Segment), Sorted(segs), NEW ch, next_seq \in Nat
    PROVE  Drains(DrainStart(segs), segs, ch)
<1> DEFINE d == DrainStart(segs)
<1>1. d \in Draining /\ d.out = <<>> /\ d.segs = segs /\ ~d.panic
  BY DEF DrainStart, Draining
<1> HIDE DEF d
<1>2. Members(d.out) = {} /\ AllOf(d.out) = {} /\ OutSorted(d.out)
  BY <1>1 DEF Members, AllOf, OutSorted
<1>3. Drains(d, segs, ch)
  BY <1>1, <1>2 DEF Drains, Before
<1> QED BY <1>3 DEF d

LEMMA DrainsEmits ==
    ASSUME NEW segs, NEW ch, NEW d, Drains(d, segs, ch), NEW q \in Draining,
           NEW c, Emits(d, q, c, ch)
    PROVE  Drains(q, segs, ch)
<1>1. /\ d.out \in Seq(Seq(Segment)) /\ c.chunks \in Seq(Segment)
      /\ q.out = Append(d.out, c.chunks) /\ q.segs = c.segs /\ ~q.panic
      /\ FullDatagram(c.chunks, ch)
  BY DEF Drains, Draining, Emits, Keeps, Cutting
<1>2. /\ Sorted(d.segs) /\ OutSorted(d.out)
      /\ Before(AllOf(d.out), Samples(d.segs))
      /\ AllOf(d.out) \subseteq Samples(segs) /\ Samples(d.segs) \subseteq Samples(segs)
      /\ Samples(segs) \ Loose(segs, ch) \subseteq AllOf(d.out) \cup Samples(d.segs)
      /\ Loose(d.segs, ch) \subseteq Loose(segs, ch)
      /\ \A e \in Members(d.out) : FullDatagram(e, ch)
  BY DEF Drains
<1>3. /\ Sorted(c.chunks) /\ Sorted(c.segs)
      /\ Before(Samples(c.chunks), Samples(c.segs))
      /\ Samples(c.chunks) \subseteq Samples(d.segs) /\ Samples(c.segs) \subseteq Samples(d.segs)
      /\ Samples(d.segs) \ Loose(d.segs, ch) \subseteq Samples(c.chunks) \cup Samples(c.segs)
      /\ Loose(c.segs, ch) \subseteq Loose(d.segs, ch)
  BY DEF Emits, Keeps
<1>4. /\ AllOf(q.out) = AllOf(d.out) \cup Samples(c.chunks)
      /\ Members(q.out) = Members(d.out) \cup {c.chunks}
  BY <1>1, AllOfAppend
<1>5. OutSorted(q.out)
  <2>1. Before(AllOf(d.out), Samples(c.chunks))
    BY <1>2, <1>3 DEF Before
  <2> QED BY <1>1, <1>2, <1>3, <2>1, OutSortedAppend
<1>6. Before(AllOf(q.out), Samples(q.segs))
  BY <1>1, <1>2, <1>3, <1>4 DEF Before
<1>7. /\ AllOf(q.out) \subseteq Samples(segs) /\ Samples(q.segs) \subseteq Samples(segs)
      /\ Loose(q.segs, ch) \subseteq Loose(segs, ch)
      /\ Samples(segs) \ Loose(segs, ch) \subseteq AllOf(q.out) \cup Samples(q.segs)
  BY <1>1, <1>2, <1>3, <1>4
<1>8. \A e \in Members(q.out) : FullDatagram(e, ch)
  BY <1>1, <1>2, <1>4
<1> QED BY <1>1, <1>3, <1>5, <1>6, <1>7, <1>8 DEF Drains

(* A datagram takes samples, so there is an end of them. *)
LEMMA DrainsFewer ==
    ASSUME NEW segs, NEW ch, NEW d, Drains(d, segs, ch), IsFiniteSet(Samples(segs)),
           NEW q, NEW c, Emits(d, q, c, ch)
    PROVE  /\ Cardinality(Samples(q.segs)) \in Nat
           /\ Cardinality(Samples(q.segs)) + 1 <= Cardinality(Samples(d.segs))
<1>1. /\ Before(Samples(c.chunks), Samples(c.segs)) /\ q.segs = c.segs
      /\ Samples(c.chunks) \subseteq Samples(d.segs) /\ Samples(c.segs) \subseteq Samples(d.segs)
      /\ Samples(c.chunks) # {} /\ c.chunks \in Seq(Segment)
  BY DEF Emits, Keeps, Cutting
<1>2. PICK v : v \in Samples(c.chunks)
  BY <1>1
<1>3. v \in Nat
  <2>1. \E k \in 1 .. Len(c.chunks) : \E j \in 1 .. Len(c.chunks[k].data) :
           v = c.chunks[k].data[j]
    BY <1>1, <1>2, SampleAt
  <2> QED BY <1>1, <2>1, AtSample
<1>4. v \notin Samples(c.segs)
  BY <1>1, <1>2, <1>3 DEF Before
<1>5. IsFiniteSet(Samples(d.segs))
  BY FS_Subset DEF Drains
<1>6. Samples(q.segs) \subseteq Samples(d.segs) \ {v} /\ v \in Samples(d.segs)
  BY <1>1, <1>2, <1>4
<1>7. /\ IsFiniteSet(Samples(d.segs) \ {v})
      /\ Cardinality(Samples(d.segs) \ {v}) = Cardinality(Samples(d.segs)) - 1
  BY <1>5, <1>6, FS_RemoveElement
<1>8. /\ IsFiniteSet(Samples(q.segs))
      /\ Cardinality(Samples(q.segs)) <= Cardinality(Samples(d.segs) \ {v})
  BY <1>6, <1>7, FS_Subset
<1>9. Cardinality(Samples(q.segs)) \in Nat /\ Cardinality(Samples(d.segs)) \in Nat
  BY <1>5, <1>8, FS_CardinalityType
<1> QED BY <1>7, <1>8, <1>9

Drained(run, segs, fmt) ==
    LET N == Cardinality(Samples(segs))
    IN  /\ run \in [0 .. N -> Draining]
        /\ run[0] = DrainStart(segs)
        /\ \A n \in 1 .. N : run[n] = DrainStep(run[n - 1], fmt)

LEMMA DrainRun ==
    ASSUME sizing \in Sizing, NEW segs \in Seq(Segment), NEW fmt \in Format,
           IsFiniteSet(Samples(segs)), next_seq \in Nat
    PROVE  \E run : Drained(run, segs, fmt)
                    /\ Drain(segs, fmt) = run[Cardinality(Samples(segs))]
<1> DEFINE N == Cardinality(Samples(segs))
           S == Draining
           F == [n \in 1 .. N |-> [d \in S |-> DrainStep(d, fmt)]]
           a == DrainStart(segs)
           Run(f) == [n \in 0 .. N |-> IF n = 0 THEN a ELSE DrainStep(f[n - 1], fmt)]
           f == CHOOSE g : g = Run(g)
<1>1. N \in Nat
  BY FS_CardinalityType
<1>2. a \in S
  BY DEF DrainStart, Draining
<1>3. F \in [1 .. N -> [S -> S]]
  <2> SUFFICES ASSUME NEW n \in 1 .. N, NEW d \in S
               PROVE  DrainStep(d, fmt) \in S
    OBVIOUS
  <2> QED BY DrainStepType
<1>4. Drain(segs, fmt) = f[N]
  BY DEF Drain, DrainStart
<1>5. \A n \in 1 .. N, d \in S : F[n][d] = DrainStep(d, fmt)
  OBVIOUS
<1> HIDE DEF N, S, f, F, a
<1>6. PICK g : Iterate(g, S, a, N, F)
  <2>1. Stepped(S, a, N, F)
    BY <1>1, <1>2, <1>3 DEF Stepped
  <2> QED BY <2>1, IterateIs
<1>7. g \in [0 .. N -> S] /\ g[0] = a /\ \A n \in 1 .. N : g[n] = F[n][g[n - 1]]
  BY <1>6 DEF Iterate
<1>8. g = Run(g)
  <2>1. \A n \in 0 .. N : n # 0 => g[n] = DrainStep(g[n - 1], fmt)
    <3> SUFFICES ASSUME NEW n \in 0 .. N, n # 0
                 PROVE  g[n] = DrainStep(g[n - 1], fmt)
      OBVIOUS
    <3>1. n \in 1 .. N /\ n - 1 \in 0 .. N
      BY <1>1
    <3>2. g[n - 1] \in S
      BY <1>7, <3>1
    <3> QED BY <1>5, <1>7, <3>1, <3>2
  <2> QED BY <1>7, <2>1
<1>9. f = Run(f)
  BY <1>8, Zenon DEF f
<1>10. /\ f = [n \in 0 .. N |-> f[n]]
       /\ f[0] = a /\ g[0] = a
  BY <1>1, <1>8, <1>9
<1>11. \A n \in 1 .. N : /\ f[n] = DrainStep(f[n - 1], fmt)
                         /\ g[n] = DrainStep(g[n - 1], fmt)
  BY <1>1, <1>8, <1>9
<1>12. \A n \in Nat : n + 1 <= N /\ f[n] = g[n] => f[n + 1] = g[n + 1]
  <2> SUFFICES ASSUME NEW n \in Nat, n + 1 <= N, f[n] = g[n]
               PROVE  f[n + 1] = g[n + 1]
    OBVIOUS
  <2>1. n + 1 \in 1 .. N /\ (n + 1) - 1 = n
    BY <1>1
  <2> QED BY <1>11, <2>1
<1>13. f = g
  <2>1. AlikeSteps(f, g, N, S)
    BY <1>1, <1>7, <1>10, <1>12 DEF AlikeSteps
  <2> QED BY <2>1, Alike
<1>14. Drained(g, segs, fmt)
  BY <1>7, <1>11 DEF Drained, N, S, a
<1> QED BY <1>4, <1>13, <1>14 DEF N

(* All full datagrams are made. *)
LEMMA DrainIs ==
    ASSUME sizing \in Sizing, NEW segs \in Seq(Segment), Sorted(segs), NEW fmt \in Format,
           IsFiniteSet(Samples(segs)), next_seq \in Nat
    PROVE  LET d == Drain(segs, fmt)
           IN  /\ Drains(d, segs, fmt.channels)
               /\ ~Full(Plan(d.segs, fmt.channels), fmt.channels)
<1> DEFINE ch == fmt.channels
           N == Cardinality(Samples(segs))
           Stuck(d) == ~Full(Plan(d.segs, ch), ch)
           Card(d) == Cardinality(Samples(d.segs))
<1>1. N \in Nat
  BY FS_CardinalityType
<1>2. PICK run : Drained(run, segs, fmt) /\ Drain(segs, fmt) = run[N]
  BY DrainRun
<1>3. /\ run[0] = DrainStart(segs)
      /\ \A n \in 0 .. N : run[n] \in Draining
      /\ \A n \in 1 .. N : run[n] = DrainStep(run[n - 1], fmt)
  BY <1>2 DEF Drained
<1>4. ASSUME NEW d, Drains(d, segs, ch), d \in Draining
      PROVE  LET q == DrainStep(d, fmt)
             IN  \/ q = d /\ Stuck(d)
                 \/ ~Stuck(d) /\ Drains(q, segs, ch) /\ Card(q) \in Nat /\ Card(q) + 1 <= Card(d)
  <2> DEFINE q == DrainStep(d, fmt)
  <2>1. ~d.panic /\ Sorted(d.segs)
    BY <1>4 DEF Drains
  <2>2. \/ q = d /\ Stuck(d)
        \/ \E c : Emits(d, q, c, ch)
    <3>1. LET z == DrainStep(d, fmt)
          IN  \/ z = d /\ ~Full(Plan(d.segs, fmt.channels), fmt.channels)
              \/ \E c : Emits(d, z, c, fmt.channels)
      BY <1>4, <2>1, DrainStepIs
    <3> QED BY <3>1
  <2>3. Stuck(d) => q = d
    BY DEF DrainStep
  <2>4. q \in Draining
    BY <1>4, DrainStepType
  <2> HIDE DEF q, ch
  <2>5. ASSUME NEW c, Emits(d, q, c, ch)
        PROVE  Drains(q, segs, ch) /\ Card(q) \in Nat /\ Card(q) + 1 <= Card(d)
    <3>1. Drains(q, segs, ch)
      BY <1>4, <2>4, <2>5, DrainsEmits
    <3>2. /\ Cardinality(Samples(q.segs)) \in Nat
          /\ Cardinality(Samples(q.segs)) + 1 <= Cardinality(Samples(d.segs))
      BY <1>4, <2>5, DrainsFewer
    <3> QED BY <3>1, <3>2
  <2> HIDE DEF Stuck, Card
  <2>6. \/ q = d /\ Stuck(d)
        \/ ~Stuck(d) /\ Drains(q, segs, ch) /\ Card(q) \in Nat /\ Card(q) + 1 <= Card(d)
    BY <2>2, <2>3, <2>5
  <2> QED BY <2>6 DEF q
<1> DEFINE Good(n) == /\ Drains(run[n], segs, ch)
                      /\ Stuck(run[n]) \/ (Card(run[n]) \in Nat /\ n + Card(run[n]) <= N)
           T == {n \in Nat : n <= N => Good(n)}
<1>5. 0 \in T
  <2>1. Drains(run[0], segs, ch)
    BY <1>3, DrainsStart
  <2>2. Card(run[0]) = N
    BY <1>3 DEF DrainStart
  <2>3. Good(0)
    <3> HIDE DEF N, Card, Stuck, ch
    <3> QED BY <1>1, <2>1, <2>2
  <2> QED BY <2>3
<1> HIDE DEF N, Card, Stuck, ch
<1>6. \A n \in Nat : n \in T => n + 1 \in T
  <2> SUFFICES ASSUME NEW n \in Nat, n \in T, n + 1 <= N
               PROVE  Good(n + 1)
    OBVIOUS
  <2> DEFINE d == run[n]
             q == run[n + 1]
  <2>1. n \in 0 .. N /\ n + 1 \in 1 .. N /\ (n + 1) - 1 = n
    BY <1>1
  <2>2. Good(n)
    BY <1>1
  <2>3. q = DrainStep(d, fmt) /\ d \in Draining
    BY <1>3, <2>1
  <2>4. Drains(d, segs, ch) /\ (Stuck(d) \/ (Card(d) \in Nat /\ n + Card(d) <= N))
    BY <2>2
  <2> HIDE DEF d, q
  <2>5. \/ q = d /\ Stuck(d)
        \/ ~Stuck(d) /\ Drains(q, segs, ch) /\ Card(q) \in Nat /\ Card(q) + 1 <= Card(d)
    BY <1>4, <2>3, <2>4
  <2>6. /\ Drains(q, segs, ch)
        /\ Stuck(q) \/ (Card(q) \in Nat /\ (n + 1) + Card(q) <= N)
    <3>1. CASE q = d /\ Stuck(d)
      BY <2>4, <3>1
    <3>2. CASE ~Stuck(d) /\ Drains(q, segs, ch) /\ Card(q) \in Nat /\ Card(q) + 1 <= Card(d)
      BY <1>1, <2>4, <3>2
    <3> QED BY <2>5, <3>1, <3>2
  <2> QED BY <2>6 DEF q
<1>7. Nat \subseteq T
  <2> HIDE DEF T
  <2> QED BY <1>5, <1>6, Induction
<1> DEFINE d == run[N]
<1>8. Drains(d, segs, ch) /\ (Stuck(d) \/ (Card(d) \in Nat /\ N + Card(d) <= N))
  BY <1>1, <1>7
<1>9. d \in Draining
  BY <1>1, <1>3
<1> HIDE DEF d
<1>10. Stuck(d)
  <2> SUFFICES ASSUME ~Stuck(d)
               PROVE  FALSE
    OBVIOUS
  <2> DEFINE q == DrainStep(d, fmt)
  <2> HIDE DEF q
  <2>1. Card(q) \in Nat /\ Card(q) + 1 <= Card(d)
    BY <1>4, <1>8, <1>9 DEF q
  <2> QED BY <1>1, <1>8, <2>1
<1> QED BY <1>2, <1>8, <1>10 DEF d, N, ch, Stuck

-----------------------------------------------------------------------------
(* New material. *)

ResidueOf(segs, ch) == UNION {Odd(segs[k], ch) : k \in DOMAIN segs}

LEMMA ResidueWithin ==
    ASSUME NEW segs \in Seq(Segment), NEW ch \in Nat \ {0}
    PROVE  ResidueOf(segs, ch) \subseteq Samples(segs)
<1> SUFFICES ASSUME NEW k \in DOMAIN segs, NEW v \in Odd(segs[k], ch)
             PROVE  v \in Samples(segs)
  BY DEF ResidueOf
<1>1. k \in 1 .. Len(segs)
  OBVIOUS
<1>2. \E j \in 1 .. Len(segs[k].data) : v = segs[k].data[j]
  <2>1. \E j \in 1 .. Len(segs[k].data) :
           j > (Len(segs[k].data) \div ch) * ch /\ v = segs[k].data[j]
    BY <1>1, OddAt
  <2> QED BY <2>1
<1>3. PICK j \in 1 .. Len(segs[k].data) : v = segs[k].data[j]
  BY <1>2
<1> QED BY <1>1, <1>3, AtSample

Data(m, n) == [i \in 1 .. n |-> m + i]

LEMMA DataIs ==
    ASSUME NEW m \in Nat, NEW n \in Nat
    PROVE  /\ Data(m, n) \in Seq(Nat) /\ Len(Data(m, n)) = n
           /\ \A i \in 1 .. n : Data(m, n)[i] = m + i
           /\ Increasing(Data(m, n)) /\ Members(Data(m, n)) = m + 1 .. m + n
<1> DEFINE d == Data(m, n)
<1>1. d \in Seq(Nat) /\ Len(d) = n /\ DOMAIN d = 1 .. n /\ \A i \in 1 .. n : d[i] = m + i
  BY DEF Data
<1> HIDE DEF d
<1>2. Increasing(d)
  BY <1>1 DEF Increasing
<1>3. Members(d) = m + 1 .. m + n
  <2>1. ASSUME NEW v \in m + 1 .. m + n
        PROVE  v \in Members(d)
    <3>1. v - m \in 1 .. n /\ d[v - m] = v
      BY <1>1
    <3> QED BY <1>1, <3>1 DEF Members
  <2>2. ASSUME NEW v \in Members(d)
        PROVE  v \in m + 1 .. m + n
    <3>1. PICK i \in 1 .. n : v = d[i]
      BY <1>1 DEF Members
    <3>2. v = m + i
      BY <1>1, <3>1
    <3> QED BY <3>2
  <2> QED BY <2>1, <2>2
<1> QED BY <1>1, <1>2, <1>3 DEF d

(* A write keeps what was pending in its order, in front of what is new;   *)
(* the new samples are in the last segment.                                *)
Extends(w, segs, ch, m, n) ==
    /\ w \in Seq(Segment) /\ Sorted(w)
    /\ Samples(w) = Samples(segs) \cup (m + 1 .. m + n)
    /\ Loose(w, ch) \subseteq ResidueOf(segs, ch)

LEMMA ExtendsAppend ==
    ASSUME NEW segs \in Seq(Segment), Sorted(segs), NEW m \in Nat, NEW n \in Nat,
           Samples(segs) \subseteq 1 .. m, NEW ch, NEW x \in Segment, x.data = Data(m, n)
    PROVE  Extends(Append(segs, x), segs, ch, m, n)
<1> DEFINE w == Append(segs, x)
           N == Len(segs)
<1>1. /\ w \in Seq(Segment) /\ Len(w) = N + 1 /\ N \in Nat /\ DOMAIN segs = 1 .. N
      /\ \A k \in 1 .. N : w[k] = segs[k]
  OBVIOUS
<1>2. Increasing(x.data) /\ Members(x.data) = m + 1 .. m + n
  BY DataIs
<1>3. Samples(w) = Samples(segs) \cup (m + 1 .. m + n)
  BY <1>2, SamplesAppend
<1>4. Before(Samples(segs), Members(x.data))
  BY <1>2 DEF Before
<1>5. Sorted(w)
  BY <1>2, <1>4, SortedAppend
<1> HIDE DEF w, N
<1>6. Loose(w, ch) \subseteq ResidueOf(segs, ch)
  <2>1. Len(w) - 1 = N
    BY <1>1
  <2> QED BY <1>1, <2>1 DEF Loose, ResidueOf
<1>7. Extends(w, segs, ch, m, n)
  BY <1>1, <1>3, <1>5, <1>6 DEF Extends
<1> QED BY <1>7 DEF w

LEMMA ConcatIs ==
    ASSUME NEW S, NEW s \in Seq(S), NEW t \in Seq(S)
    PROVE  /\ s \o t \in Seq(S) /\ Len(s \o t) = Len(s) + Len(t)
           /\ \A i \in 1 .. Len(s) : (s \o t)[i] = s[i]
           /\ \A i \in 1 .. Len(s) + Len(t) : i > Len(s) => (s \o t)[i] = t[i - Len(s)]
OBVIOUS

LEMMA ExtendsLast ==
    ASSUME NEW segs \in Seq(Segment), Sorted(segs), NEW m \in Nat, NEW n \in Nat,
           Samples(segs) \subseteq 1 .. m, NEW ch, segs # <<>>
    PROVE  Extends([segs EXCEPT ![Len(segs)].data = @ \o Data(m, n)], segs, ch, m, n)
<1> DEFINE N == Len(segs)
           w == [segs EXCEPT ![N].data = @ \o Data(m, n)]
           last == segs[N]
           old == last.data
           d == Data(m, n)
           new == old \o d
           z == [last EXCEPT !.data = new]
           L == Len(old)
<1>1. N \in Nat \ {0} /\ N \in 1 .. N /\ DOMAIN segs = 1 .. N
  OBVIOUS
<1>2. last \in Segment /\ old \in Seq(Nat) /\ L \in Nat
  BY <1>1, SegType
<1>3. d \in Seq(Nat) /\ Len(d) = n /\ \A i \in 1 .. n : d[i] = m + i
  BY DataIs
<1> HIDE DEF last, old, d
<1>4. /\ new \in Seq(Nat) /\ Len(new) = L + n
      /\ \A i \in 1 .. L : new[i] = old[i]
      /\ \A i \in 1 .. L + n : i > L => new[i] = m + (i - L)
  <2>1. /\ new \in Seq(Nat) /\ Len(new) = L + n
        /\ \A i \in 1 .. L : new[i] = old[i]
        /\ \A i \in 1 .. L + n : i > L => new[i] = d[i - L]
    BY <1>2, <1>3, ConcatIs
  <2>2. \A i \in 1 .. L + n : i > L => d[i - L] = m + (i - L)
    BY <1>2, <1>3
  <2> QED BY <2>1, <2>2
<1> HIDE DEF new, L
<1>5. z \in Segment /\ z.data = new
  BY <1>2, <1>4 DEF Segment
<1>6. w = [segs EXCEPT ![N] = z]
  BY DEF z, new, last, old, d
<1> HIDE DEF z, w
<1>7. /\ w \in Seq(Segment) /\ Len(w) = N /\ w[N] = z
      /\ \A k \in 1 .. N : k # N => w[k] = segs[k]
  BY <1>1, <1>5, <1>6
<1> HIDE DEF N
<1>8. ASSUME NEW k \in 1 .. N, NEW i \in 1 .. Len(w[k].data)
      PROVE  \/ /\ i \in 1 .. Len(segs[k].data) /\ w[k].data[i] = segs[k].data[i]
                /\ w[k].data[i] \in Samples(segs)
             \/ k = N /\ i > L /\ i \in 1 .. L + n /\ w[k].data[i] = m + (i - L)
  <2>1. CASE k # N
    <3>1. w[k] = segs[k]
      BY <1>7, <2>1
    <3>2. i \in 1 .. Len(segs[k].data)
      BY <3>1
    <3>3. segs[k].data[i] \in Samples(segs)
      BY <3>2, AtSample DEF N
    <3> QED BY <3>1, <3>2, <3>3
  <2>2. CASE k = N
    <3>1. w[k].data = new /\ segs[k].data = old
      BY <1>5, <1>7, <2>2 DEF old, last
    <3>2. i \in 1 .. L + n
      BY <1>4, <3>1
    <3>3. CASE i > L
      BY <1>4, <2>2, <3>1, <3>2, <3>3
    <3>4. CASE ~(i > L)
      <4>1. i \in 1 .. L
        BY <1>2, <3>2, <3>4 DEF L
      <4>2. i \in 1 .. Len(segs[k].data)
        BY <3>1, <4>1 DEF L
      <4>3. segs[k].data[i] \in Samples(segs)
        BY <4>2, AtSample DEF N
      <4> QED BY <1>4, <3>1, <4>1, <4>2, <4>3
    <3> QED BY <3>3, <3>4
  <2> QED BY <2>1, <2>2
<1>9. L \in Nat
  BY <1>2 DEF L
<1>10. Sorted(w)
  <2> SUFFICES ASSUME NEW k \in 1 .. N, NEW l \in 1 .. N,
                      NEW i \in 1 .. Len(w[k].data), NEW j \in 1 .. Len(w[l].data),
                      k < l \/ (k = l /\ i < j)
               PROVE  w[k].data[i] < w[l].data[j]
    BY <1>7, SortedBy
  <2>1. \/ /\ i \in 1 .. Len(segs[k].data) /\ w[k].data[i] = segs[k].data[i]
           /\ w[k].data[i] \in Samples(segs)
        \/ k = N /\ i > L /\ i \in 1 .. L + n /\ w[k].data[i] = m + (i - L)
    BY <1>8
  <2>2. \/ /\ j \in 1 .. Len(segs[l].data) /\ w[l].data[j] = segs[l].data[j]
           /\ w[l].data[j] \in Samples(segs)
        \/ l = N /\ j > L /\ j \in 1 .. L + n /\ w[l].data[j] = m + (j - L)
    BY <1>8
  <2>3. CASE /\ i \in 1 .. Len(segs[k].data) /\ w[k].data[i] = segs[k].data[i]
             /\ w[k].data[i] \in Samples(segs)
    <3>1. CASE j \in 1 .. Len(segs[l].data) /\ w[l].data[j] = segs[l].data[j]
      <4>1. segs[k].data[i] < segs[l].data[j]
        BY <2>3, <3>1, InPlace DEF N
      <4> QED BY <2>3, <3>1, <4>1
    <3>2. CASE l = N /\ j > L /\ j \in 1 .. L + n /\ w[l].data[j] = m + (j - L)
      <4>1. w[k].data[i] \in 1 .. m
        BY <2>3
      <4>2. w[l].data[j] \in Int /\ w[l].data[j] > m
        BY <1>9, <3>2
      <4> QED BY SMTT(30), <4>1, <4>2
    <3> QED BY <2>2, <3>1, <3>2
  <2>4. CASE k = N /\ i > L /\ i \in 1 .. L + n /\ w[k].data[i] = m + (i - L)
    <3>1. l = N /\ i < j
      BY <1>1, <2>4
    <3>2. ~(j \in 1 .. Len(segs[l].data))
      <4>1. Len(segs[l].data) = L
        BY <3>1 DEF L, old, last
      <4> QED BY <1>9, <2>4, <3>1, <4>1
    <3>3. j \in 1 .. L + n /\ w[l].data[j] = m + (j - L)
      BY <2>2, <3>2
    <3> QED BY <1>9, <2>4, <3>1, <3>3
  <2> QED BY <2>1, <2>3, <2>4
<1>11. Samples(w) = Samples(segs) \cup (m + 1 .. m + n)
  <2>1. ASSUME NEW v \in Samples(w)
        PROVE  v \in Samples(segs) \cup (m + 1 .. m + n)
    <3>1. PICK k \in 1 .. Len(w) : \E i \in 1 .. Len(w[k].data) : v = w[k].data[i]
      BY <1>7, <2>1, SampleAt
    <3>2. PICK i \in 1 .. Len(w[k].data) : v = w[k].data[i]
      BY <3>1
    <3>3. k \in 1 .. N
      BY <1>7
    <3>4. \/ v \in Samples(segs)
          \/ i > L /\ i \in 1 .. L + n /\ v = m + (i - L)
      BY <1>8, <3>2, <3>3
    <3> QED BY <1>9, <3>4
  <2>2. ASSUME NEW v \in Samples(segs)
        PROVE  v \in Samples(w)
    <3>1. PICK k \in 1 .. Len(segs) : \E i \in 1 .. Len(segs[k].data) : v = segs[k].data[i]
      BY SampleAt
    <3>2. PICK i \in 1 .. Len(segs[k].data) : v = segs[k].data[i]
      BY <3>1
    <3>3. k \in 1 .. N
      BY DEF N
    <3>4. CASE k # N
      <4>1. w[k] = segs[k] /\ k \in 1 .. Len(w)
        BY <1>7, <3>3, <3>4
      <4> QED BY <1>7, <3>2, <4>1, AtSample
    <3>5. CASE k = N
      <4>1. w[k].data = new /\ segs[k].data = old /\ k \in 1 .. Len(w)
        BY <1>5, <1>7, <3>3, <3>5 DEF old, last
      <4>2. i \in 1 .. L /\ v = old[i]
        BY <3>2, <4>1 DEF L
      <4>3. i \in 1 .. Len(w[k].data) /\ v = w[k].data[i]
        BY <1>4, <1>9, <4>1, <4>2
      <4> QED BY <1>7, <4>1, <4>3, AtSample
    <3> QED BY <3>4, <3>5
  <2>3. ASSUME NEW v \in m + 1 .. m + n
        PROVE  v \in Samples(w)
    <3> DEFINE i == L + (v - m)
    <3>1. i \in 1 .. L + n /\ i > L /\ m + (i - L) = v
      BY <1>9
    <3> HIDE DEF i
    <3>2. i \in 1 .. Len(w[N].data) /\ w[N].data[i] = v
      BY <1>4, <1>5, <1>7, <3>1
    <3>3. N \in 1 .. Len(w)
      BY <1>1, <1>7 DEF N
    <3> QED BY <1>7, <3>2, <3>3, AtSample
  <2> QED BY <2>1, <2>2, <2>3
<1>12. Loose(w, ch) \subseteq ResidueOf(segs, ch)
  <2> SUFFICES ASSUME NEW k \in 1 .. N - 1
               PROVE  Odd(w[k], ch) \subseteq ResidueOf(segs, ch)
    BY <1>7 DEF Loose
  <2>1. k \in 1 .. N /\ k # N /\ k \in DOMAIN segs
    BY <1>1
  <2>2. w[k] = segs[k]
    BY <1>7, <2>1
  <2> QED BY <2>1, <2>2 DEF ResidueOf
<1>13. Extends(w, segs, ch, m, n)
  BY <1>7, <1>10, <1>11, <1>12 DEF Extends
<1> QED BY <1>13 DEF w, N

-----------------------------------------------------------------------------
(* The invariant. *)

Stamp == [tempo : Tempos, whole : BOOLEAN, seq : Nat, beat : Int]
Cursor == [begin : Int, frames : Nat]

SinkTypes ==
    /\ sizing \in Sizings /\ format \in Formats /\ tempo \in Tempos
    /\ segments \in Seq(Segment) /\ out \in Seq(Seq(Segment)) /\ stamps \in Seq(Stamp)
    /\ cursor \in Cursor /\ next_seq \in Nat

(* What is pending and what was sent are samples written, in their order,  *)
(* the former behind the latter.                                           *)
SinkInv ==
    /\ SinkTypes
    /\ ~panicked /\ Sorted(segments) /\ OutSorted(out)
    /\ Before(AllOf(out), Samples(segments))
    /\ Samples(segments) \subseteq 1 .. Len(stamps)
    /\ AllOf(out) \subseteq 1 .. Len(stamps)

LEMMA WrittenIs ==
    ASSUME SinkInv, NEW n \in WriteSizes, NEW fmt \in Formats, NEW begin \in Int
    PROVE  LET w == Appended(KeptFormat(fmt), fmt, begin, Data(Len(stamps), n))
               d == Drain(w, fmt)
           IN  /\ Extends(w, KeptFormat(fmt), fmt.channels, Len(stamps), n)
               /\ Samples(w) \subseteq 1 .. Len(stamps) + n
               /\ Drains(d, w, fmt.channels)
               /\ ~Full(Plan(d.segs, fmt.channels), fmt.channels)
<1> DEFINE m == Len(stamps)
           data == Data(m, n)
           kept == KeptFormat(fmt)
           w == Appended(kept, fmt, begin, data)
           ch == fmt.channels
           d == Drain(w, fmt)
<1>1. /\ sizing \in Sizing /\ fmt \in Format /\ n \in Nat /\ m \in Nat /\ tempo \in Tempos
      /\ segments \in Seq(Segment) /\ next_seq \in Nat
  BY SinkAssumption DEF SinkInv, SinkTypes, Sizing, Format
<1>2. kept \in Seq(Segment) /\ Sorted(kept) /\ Samples(kept) \subseteq 1 .. m
  <2>1. kept = segments \/ kept = <<>>
    BY DEF KeptFormat
  <2>2. <<>> \in Seq(Segment) /\ Sorted(<<>>) /\ Samples(<<>>) = {}
    BY DEF Sorted, Samples
  <2> HIDE DEF kept
  <2>3. Samples(segments) \subseteq 1 .. m /\ Sorted(segments)
    BY DEF SinkInv
  <2> QED BY <1>1, <2>1, <2>2, <2>3
<1>3. data \in Seq(Nat)
  BY <1>1, DataIs
<1> DEFINE x == [begin |-> begin, tempo |-> tempo, data |-> data]
           z == [kept EXCEPT ![Len(kept)].data = @ \o data]
<1>4. \/ kept # <<>> /\ w = z
      \/ w = Append(kept, x)
  <2> HIDE DEF data, kept
  <2> QED BY DEF Appended
<1>5. x \in Segment /\ x.data = data
  <2> HIDE DEF data
  <2> QED BY <1>1, <1>3 DEF Segment
<1> HIDE DEF kept, w, x, m
<1>6. Extends(w, kept, ch, m, n)
  <2>1. CASE w = Append(kept, x)
    <3>1. Extends(Append(kept, x), kept, ch, m, n)
      BY <1>1, <1>2, <1>5, ExtendsAppend
    <3> QED BY <2>1, <3>1
  <2>2. CASE kept # <<>> /\ w = z
    <3>1. Extends([kept EXCEPT ![Len(kept)].data = @ \o Data(m, n)], kept, ch, m, n)
      BY <1>1, <1>2, <2>2, ExtendsLast
    <3> QED BY <2>2, <3>1
  <2> QED BY <1>4, <2>1, <2>2
<1>7. w \in Seq(Segment) /\ Sorted(w) /\ Samples(w) \subseteq 1 .. m + n
  <2>1. Samples(w) = Samples(kept) \cup (m + 1 .. m + n)
    BY <1>6 DEF Extends
  <2> QED BY <1>1, <1>2, <1>6, <2>1 DEF Extends
<1>8. IsFiniteSet(Samples(w))
  <2>1. IsFiniteSet(1 .. m + n)
    BY <1>1, FS_Interval
  <2> QED BY <1>7, <2>1, FS_Subset
<1>9. Drains(d, w, ch) /\ ~Full(Plan(d.segs, ch), ch)
  <2>1. LET y == Drain(w, fmt)
        IN  /\ Drains(y, w, fmt.channels)
            /\ ~Full(Plan(y.segs, fmt.channels), fmt.channels)
    BY <1>1, <1>7, <1>8, DrainIs
  <2> QED BY <2>1
<1> QED BY <1>6, <1>7, <1>9 DEF kept, w, m

LEMMA WriteSinkKeeps ==
    ASSUME SinkInv, NEW n \in WriteSizes, NEW fmt \in Formats, NEW begin \in Int,
           WriteSink(n, fmt, begin), UNCHANGED <<sizing, tempo>>, cursor' \in Cursor
    PROVE  SinkInv'
<1> DEFINE m == Len(stamps)
           w == Appended(KeptFormat(fmt), fmt, begin, Data(m, n))
           d == Drain(w, fmt)
           new == [i \in 1 .. n |->
                      [tempo |-> tempo, whole |-> n % fmt.channels = 0, seq |-> next_seq,
                       beat |-> begin + FrameBeats((i - 1) \div fmt.channels, fmt.rate, tempo)]]
<1>1. /\ sizing \in Sizings /\ fmt \in Format /\ n \in Nat /\ m \in Nat /\ tempo \in Tempos
      /\ stamps \in Seq(Stamp) /\ ~panicked /\ next_seq \in Nat
  BY SinkAssumption DEF SinkInv, SinkTypes, Sizing, Format
<1>2. /\ format' = fmt /\ stamps' = stamps \o new
      /\ \/ /\ requested /\ segments' = d.segs /\ out' = d.out
            /\ next_seq' = d.seq /\ panicked' = d.panic
         \/ segments' = <<>> /\ out' = <<>> /\ UNCHANGED <<next_seq, panicked>>
  BY DEF WriteSink, Data
<1>3. new \in Seq(Stamp) /\ Len(new) = n
  <2>1. ASSUME NEW i \in 1 .. n
        PROVE  new[i] \in Stamp
    <3> DEFINE ch == fmt.channels
               f == (i - 1) \div ch
    <3>1. ch \in Nat \ {0} /\ fmt.rate \in Nat \ {0}
      BY <1>1 DEF Format
    <3>2. f \in Nat
      <4> HIDE DEF ch
      <4> QED BY <1>1, <3>1
    <3> HIDE DEF f
    <3>3. FrameBeats(f, fmt.rate, tempo) \in Int
      BY <1>1, <3>1, <3>2, FrameBeatsInt
    <3>4. begin + FrameBeats(f, fmt.rate, tempo) \in Int
      BY <3>3
    <3>5. new[i] = [tempo |-> tempo, whole |-> n % fmt.channels = 0, seq |-> next_seq,
                    beat |-> begin + FrameBeats(f, fmt.rate, tempo)]
      BY DEF f
    <3> QED BY <1>1, <3>4, <3>5 DEF Stamp
  <2>2. new \in [1 .. n -> Stamp]
    BY <2>1
  <2> HIDE DEF new
  <2> QED BY <1>1, <2>2
<1> HIDE DEF new, w, d
<1>4. stamps' \in Seq(Stamp) /\ Len(stamps') = m + n
  BY <1>1, <1>2, <1>3, ConcatIs DEF m
<1> HIDE DEF m
<1>5. Samples(w) \subseteq 1 .. m + n /\ Drains(d, w, fmt.channels)
  BY WrittenIs DEF w, d, m
<1>6. /\ d.segs \in Seq(Segment) /\ d.out \in Seq(Seq(Segment)) /\ ~d.panic /\ d.seq \in Nat
      /\ Sorted(d.segs) /\ OutSorted(d.out) /\ Before(AllOf(d.out), Samples(d.segs))
      /\ AllOf(d.out) \subseteq 1 .. m + n /\ Samples(d.segs) \subseteq 1 .. m + n
  BY <1>5 DEF Drains, Draining
<1>7. /\ <<>> \in Seq(Segment) /\ <<>> \in Seq(Seq(Segment))
      /\ Sorted(<<>>) /\ Samples(<<>>) = {} /\ OutSorted(<<>>) /\ AllOf(<<>>) = {}
  BY DEF Sorted, Samples, OutSorted, AllOf, Members
<1>8. SinkTypes'
  BY <1>1, <1>2, <1>4, <1>6, <1>7 DEF SinkTypes
<1>9. CASE segments' = d.segs /\ out' = d.out /\ next_seq' = d.seq /\ panicked' = d.panic
  BY <1>4, <1>6, <1>8, <1>9 DEF SinkInv
<1>10. CASE segments' = <<>> /\ out' = <<>> /\ UNCHANGED <<next_seq, panicked>>
  <2>1. Before({}, {}) /\ {} \subseteq 1 .. m + n
    BY DEF Before
  <2> QED BY <1>1, <1>4, <1>7, <1>8, <1>10, <2>1 DEF SinkInv
<1> QED BY <1>2, <1>9, <1>10

LEMMA CursorEnd ==
    ASSUME SinkInv
    PROVE  cursor.begin + FrameBeats(cursor.frames, format.rate, tempo) \in Int
<1>1. /\ cursor.begin \in Int /\ cursor.frames \in Nat /\ format.rate \in Nat \ {0}
      /\ tempo \in Tempos
  BY SinkAssumption DEF SinkInv, SinkTypes, Cursor
<1>2. FrameBeats(cursor.frames, format.rate, tempo) \in Int
  BY <1>1, FrameBeatsInt
<1> QED BY <1>1, <1>2

(* A write, and where it leaves the cursor. *)
LEMMA WritesIs ==
    ASSUME SinkInv, Writes
    PROVE  \E n \in WriteSizes, fmt \in Formats, begin \in Int :
              /\ WriteSink(n, fmt, begin) /\ cursor' \in Cursor
              /\ UNCHANGED <<sizing, requested, tempo>>
<1> DEFINE end == cursor.begin + FrameBeats(cursor.frames, format.rate, tempo)
<1>1. PICK n \in WriteSizes, fmt \in Formats, jump \in Jumps :
         /\ WriteSink(n, fmt, end + jump)
         /\ LET same == jump = 0 /\ fmt = format
            IN  cursor' = [begin |-> IF same THEN cursor.begin ELSE end + jump,
                           frames |-> (IF same THEN cursor.frames ELSE 0) + n \div fmt.channels]
         /\ UNCHANGED <<sizing, requested, tempo>>
  BY DEF Writes
<1>2. end \in Int
  BY CursorEnd
<1> HIDE DEF end
<1>3. n \in Nat /\ fmt.channels \in Nat \ {0} /\ jump \in Int
  BY SinkAssumption
<1>4. n \div fmt.channels \in Nat
  <2> DEFINE ch == fmt.channels
  <2>1. ch \in Nat \ {0}
    BY <1>3
  <2> HIDE DEF ch
  <2>2. n \div ch \in Nat
    BY <1>3, <2>1
  <2> QED BY <2>2 DEF ch
<1>5. cursor.begin \in Int /\ cursor.frames \in Nat
  BY DEF SinkInv, SinkTypes, Cursor
<1>6. cursor' \in Cursor
  BY <1>1, <1>2, <1>3, <1>4, <1>5 DEF Cursor
<1>7. end + jump \in Int
  BY <1>2, <1>3
<1> QED BY <1>1, <1>6, <1>7

LEMMA SinkInit == Init => SinkInv
<1> SUFFICES ASSUME Init PROVE SinkInv
  OBVIOUS
<1>1. SinkTypes
  BY DEF Init, SinkTypes, Cursor
<1>2. ~panicked /\ segments = <<>> /\ out = <<>> /\ stamps = <<>>
  BY DEF Init
<1>3. Sorted(<<>>) /\ Samples(<<>>) = {} /\ OutSorted(<<>>) /\ AllOf(<<>>) = {}
  BY DEF Sorted, Samples, OutSorted, AllOf, Members
<1>4. Before({}, {})
  BY DEF Before
<1> QED BY <1>1, <1>2, <1>3, <1>4 DEF SinkInv

LEMMA SinkStep == SinkInv /\ [Next]_vars => SinkInv'
<1> SUFFICES ASSUME SinkInv, [Next]_vars PROVE SinkInv'
  OBVIOUS
<1>1. ASSUME UNCHANGED <<sizing, segments, format, next_seq, stamps, out, panicked>>,
             tempo' \in Tempos, cursor' \in Cursor
      PROVE  SinkInv'
  BY <1>1 DEF SinkInv, SinkTypes
<1>2. tempo \in Tempos /\ cursor \in Cursor
  BY DEF SinkInv, SinkTypes
<1>3. CASE Writes
  <2>1. PICK n \in WriteSizes, fmt \in Formats, begin \in Int :
           /\ WriteSink(n, fmt, begin) /\ cursor' \in Cursor
           /\ UNCHANGED <<sizing, requested, tempo>>
    BY <1>3, WritesIs
  <2> QED BY <2>1, WriteSinkKeeps
<1>4. CASE RequesterComes
  BY <1>1, <1>2, <1>4 DEF RequesterComes
<1>5. CASE RequestersGone
  BY <1>1, <1>2, <1>5 DEF RequestersGone
<1>6. CASE TempoChanges
  <2>1. cursor' \in Cursor
    BY <1>6, CursorEnd DEF TempoChanges, Cursor
  <2> QED BY <1>1, <1>6, <2>1 DEF TempoChanges
<1>7. CASE UNCHANGED vars
  BY <1>1, <1>2, <1>7 DEF vars
<1> QED BY <1>3, <1>4, <1>5, <1>6, <1>7 DEF Next

(* The sink's invariant: what is pending and what was sent last are        *)
(* samples written, in their order (write_sink, drain_datagrams).          *)
THEOREM SinkInvariance == Spec => []SinkInv
<1>1. Init => SinkInv
  BY SinkInit
<1>2. SinkInv /\ [Next]_vars => SinkInv'
  BY SinkStep
<1> QED BY <1>1, <1>2, PTL DEF Spec

(* Material is sent once and in the order it was written, what is pending  *)
(* comes after what was sent, and the consumer finds every frame the       *)
(* planner counted: its expect("planned frames") never fails               *)
(* (drain_datagrams), whatever lengths, formats and jumps are written.     *)
THEOREM AlwaysInOrder == Spec => []InOrder
<1>1. SinkInv => InOrder
  <2> SUFFICES ASSUME SinkInv PROVE InOrder
    OBVIOUS
  <2>1. Sent = AllOf(out) /\ Pending = Samples(segments)
    BY DEF Sent, Pending, AllOf
  <2> QED BY <2>1 DEF SinkInv, OutSorted, InOrder
<1> QED BY <1>1, SinkInvariance, PTL

LEMMA NothingDroppedStep ==
    ASSUME SinkInv, Next, stamps' # stamps, requested, format' = format
    PROVE  (Pending \ Residue) \cup (Len(stamps) + 1 .. Len(stamps')) \subseteq Sent' \cup Pending'
<1>1. Writes
  BY DEF Next, RequesterComes, RequestersGone, TempoChanges
<1>2. PICK n \in WriteSizes, fmt \in Formats, begin \in Int :
         /\ WriteSink(n, fmt, begin) /\ cursor' \in Cursor
         /\ UNCHANGED <<sizing, requested, tempo>>
  BY <1>1, WritesIs
<1> DEFINE m == Len(stamps)
           w == Appended(KeptFormat(fmt), fmt, begin, Data(m, n))
           d == Drain(w, fmt)
           new == [i \in 1 .. n |->
                      [tempo |-> tempo, whole |-> n % fmt.channels = 0, seq |-> next_seq,
                       beat |-> begin + FrameBeats((i - 1) \div fmt.channels, fmt.rate, tempo)]]
<1>3. /\ fmt = format /\ KeptFormat(fmt) = segments /\ segments' = d.segs /\ out' = d.out
      /\ stamps' = stamps \o new
  BY <1>2 DEF WriteSink, Data, KeptFormat
<1>4. n \in Nat /\ m \in Nat /\ fmt.channels \in Nat \ {0} /\ segments \in Seq(Segment)
  BY SinkAssumption DEF SinkInv, SinkTypes
<1>5. Len(stamps') = m + n
  <2> DEFINE S == Stamp \cup {new[i] : i \in 1 .. n}
  <2>1. new \in [1 .. n -> S]
    OBVIOUS
  <2>2. stamps \in Seq(Stamp) /\ Stamp \subseteq S
    BY DEF SinkInv, SinkTypes
  <2> HIDE DEF new, S
  <2>3. new \in Seq(S) /\ Len(new) = n
    BY <1>4, <2>1
  <2>4. stamps \in Seq(S)
    BY <2>2
  <2>5. Len(stamps \o new) = m + n
    BY <2>3, <2>4, ConcatIs
  <2> QED BY <1>3, <2>5
<1> HIDE DEF w, d, m, new
<1>6. Extends(w, segments, fmt.channels, m, n) /\ Drains(d, w, fmt.channels)
  BY <1>3, WrittenIs DEF w, d, m
<1>7. Residue = ResidueOf(segments, fmt.channels)
  BY <1>3 DEF Residue, ResidueOf
<1>8. Samples(segments) \subseteq 1 .. m
  BY DEF SinkInv, m
<1>9. Residue \subseteq Samples(segments)
  BY <1>4, <1>7, ResidueWithin
<1>10. /\ Samples(w) = Samples(segments) \cup (m + 1 .. m + n)
       /\ Loose(w, fmt.channels) \subseteq Residue
  BY <1>6, <1>7 DEF Extends
<1>11. Samples(w) \ Loose(w, fmt.channels) \subseteq AllOf(d.out) \cup Samples(d.segs)
  BY <1>6 DEF Drains
<1>12. (m + 1 .. m + n) \cap Residue = {}
  BY <1>4, <1>8, <1>9
<1>13. (Pending \ Residue) \cup (m + 1 .. m + n) \subseteq Samples(w) \ Loose(w, fmt.channels)
  BY <1>10, <1>12 DEF Pending
<1>14. Sent' = AllOf(d.out) /\ Pending' = Samples(d.segs)
  BY <1>3 DEF Sent, Pending, AllOf
<1> QED BY <1>5, <1>11, <1>13, <1>14 DEF m

(* While somebody requests the channel and the format stays, a write loses *)
(* nothing but residue that stays behind material of another run           *)
(* (drain_datagrams).                                                      *)
THEOREM AlwaysNothingDropped == Spec => NothingDropped
<1>1. SinkInv /\ [Next]_vars =>
         [stamps' # stamps /\ requested /\ format' = format =>
            (Pending \ Residue) \cup (Len(stamps) + 1 .. Len(stamps')) \subseteq Sent' \cup Pending']_vars
  BY NothingDroppedStep
<1> QED BY <1>1, SinkInvariance, PTL DEF Spec, NothingDropped

-----------------------------------------------------------------------------
(* Full datagrams. *)

(* A datagram has room for a frame: in the reference's sizing, of 251      *)
(* samples, one of up to 251 channels.  Of more the code sends nothing.    *)
Roomy == \A s \in Sizings, f \in Formats : s.record_cost + f.channels <= s.budget

LEMMA StuckFits ==
    ASSUME sizing \in Sizing, NEW segs \in Seq(Segment), Sorted(segs), NEW fmt \in Format,
           sizing.record_cost + fmt.channels <= sizing.budget,
           ~Full(Plan(segs, fmt.channels), fmt.channels)
    PROVE  Cost(segs, fmt.channels) <= sizing.budget
<1> DEFINE ch == fmt.channels
           plan == Plan(segs, ch)
           made == Chunks(segs, plan.takes, fmt)
<1>1. /\ ch \in Nat \ {0} /\ sizing.record_cost \in Nat /\ sizing.budget \in Nat
  BY DEF Format, Sizing
<1>2. plan \in Planning(segs) /\ Makes(plan, made, segs, ch)
  <2>1. LET p == Plan(segs, fmt.channels)
        IN  /\ p \in Planning(segs)
            /\ Makes(p, Chunks(segs, p.takes, fmt), segs, fmt.channels)
    BY <1>1, PlanMakes
  <2> QED BY <2>1
<1>3. /\ plan.exhausted => plan.left < sizing.record_cost + ch
      /\ ~plan.exhausted => Cost(segs, ch) + plan.left <= sizing.budget
  <2> HIDE DEF ch
  <2> QED BY <1>1, PlanEnds
<1>4. plan.takes = <<>> \/ ~plan.exhausted
  BY DEF Full
<1> HIDE DEF plan, made
<1>5. plan.left \in Nat
  BY <1>2 DEF Planning
<1>6. Cost(segs, ch) \in Nat
  <2> HIDE DEF ch
  <2>1. \E sum : Costs(sum, segs, ch) /\ Cost(segs, ch) = sum[Len(segs)]
    BY <1>1, CostRun
  <2> QED BY <2>1 DEF Costs
<1>7. CASE ~plan.exhausted
  BY <1>1, <1>3, <1>5, <1>6, <1>7
<1>8. CASE plan.exhausted
  <2>1. Cost(made.chunks, ch) + plan.left = sizing.budget /\ Len(made.chunks) = 0
    BY <1>2, <1>4, <1>8 DEF Makes, Spends
  <2>2. made.chunks \in Seq(Segment)
    BY <1>2 DEF Makes, Cutting
  <2> DEFINE k == made.chunks
  <2> HIDE DEF k, ch
  <2>3. PICK sum : Costs(sum, k, ch) /\ Cost(k, ch) = sum[Len(k)]
    BY <1>1, <2>2, CostRun DEF k
  <2>4. Cost(k, ch) = 0
    BY <2>1, <2>3 DEF Costs, k
  <2>5. plan.left = sizing.budget
    BY <1>1, <1>5, <2>1, <2>4 DEF k
  <2>6. sizing.record_cost + ch <= sizing.budget
    BY DEF ch
  <2> QED BY <1>1, <1>3, <1>8, <2>5, <2>6
<1> QED BY <1>7, <1>8

FullInv ==
    /\ SinkInv
    /\ \A d \in Members(out) : FullDatagram(d, format.channels)
    /\ Cost(segments, format.channels) <= sizing.budget

LEMMA CostEmpty ==
    ASSUME sizing \in Sizing, NEW ch \in Nat \ {0}
    PROVE  Cost(<<>>, ch) <= sizing.budget
<1> DEFINE w == <<>>
<1>1. w \in Seq(Segment) /\ Len(w) = 0
  OBVIOUS
<1> HIDE DEF w
<1>2. PICK sum : Costs(sum, w, ch) /\ Cost(w, ch) = sum[Len(w)]
  BY <1>1, CostRun
<1>3. Cost(w, ch) = 0 /\ sizing.budget \in Nat
  BY <1>1, <1>2 DEF Costs, Sizing
<1> QED BY <1>3 DEF w

(* The room is that of the sizing, which stays. *)
LEMMA CostSame ==
    ASSUME UNCHANGED sizing, NEW segs, NEW ch
    PROVE  Cost(segs, ch)' = Cost(segs, ch) /\ (FullDatagram(segs, ch)' <=> FullDatagram(segs, ch))
<1>1. Cost(segs, ch)' = Cost(segs, ch)
  BY DEF Cost
<1> QED BY <1>1 DEF FullDatagram

LEMMA FullStep ==
    ASSUME Roomy, FullInv, [Next]_vars
    PROVE  FullInv'
<1>1. SinkInv'
  BY SinkStep DEF FullInv
<1>2. UNCHANGED sizing
  BY DEF Next, Writes, RequesterComes, RequestersGone, TempoChanges, vars
<1>3. CASE UNCHANGED <<segments, format, out>>
  BY <1>1, <1>2, <1>3, CostSame DEF FullInv
<1>4. CASE Writes
  <2>1. SinkInv /\ sizing \in Sizings /\ sizing \in Sizing
    BY SinkAssumption DEF FullInv, SinkInv, SinkTypes, Sizing
  <2>2. PICK n \in WriteSizes, fmt \in Formats, begin \in Int :
           /\ WriteSink(n, fmt, begin) /\ cursor' \in Cursor
           /\ UNCHANGED <<sizing, requested, tempo>>
    BY <1>4, <2>1, WritesIs
  <2> DEFINE w == Appended(KeptFormat(fmt), fmt, begin, Data(Len(stamps), n))
             d == Drain(w, fmt)
             ch == fmt.channels
  <2>3. /\ format' = fmt
        /\ \/ segments' = d.segs /\ out' = d.out
           \/ segments' = <<>> /\ out' = <<>>
    BY <2>2 DEF WriteSink, Data
  <2>4. ch \in Nat \ {0} /\ fmt \in Format /\ sizing.record_cost + ch <= sizing.budget
    BY <2>1, SinkAssumption DEF Roomy, Format
  <2>5. Drains(d, w, ch) /\ ~Full(Plan(d.segs, ch), ch)
    BY <2>1, WrittenIs
  <2> HIDE DEF d, w
  <2>6. CASE segments' = d.segs /\ out' = d.out
    <3>1. d.segs \in Seq(Segment) /\ Sorted(d.segs) /\ \A e \in Members(d.out) : FullDatagram(e, ch)
      BY <2>5 DEF Drains, Draining
    <3>2. Cost(d.segs, ch) <= sizing.budget
      BY <2>1, <2>4, <2>5, <3>1, StuckFits
    <3> HIDE DEF ch
    <3>3. /\ \A e \in Members(out)' : FullDatagram(e, ch)'
          /\ Cost(segments, ch)' <= sizing.budget'
      BY <1>2, <2>6, <3>1, <3>2, CostSame
    <3> QED BY <1>1, <2>3, <3>3 DEF FullInv, ch
  <2>7. CASE segments' = <<>> /\ out' = <<>>
    <3>1. Members(<<>>) = {} /\ Cost(<<>>, ch) <= sizing.budget
      BY <2>1, <2>4, CostEmpty DEF Members
    <3> QED BY <1>1, <1>2, <2>3, <2>7, <3>1, CostSame DEF FullInv
  <2> QED BY <2>3, <2>6, <2>7
<1> QED BY <1>3, <1>4 DEF Next, RequesterComes, RequestersGone, TempoChanges, vars

(* A datagram keeps within its room and is full, its chunks within their   *)
(* cap, and what stays pending fits in one datagram: the drain does not    *)
(* stop before (drain_datagrams).                                          *)
THEOREM AlwaysDatagramsFull ==
    ASSUME Roomy
    PROVE  Spec => []DatagramsFull
<1>1. Init => FullInv
  <2> SUFFICES ASSUME Init PROVE FullInv
    OBVIOUS
  <2>1. SinkInv /\ segments = <<>> /\ out = <<>>
    BY SinkInit DEF Init
  <2>2. sizing \in Sizing /\ format.channels \in Nat \ {0}
    BY <2>1, SinkAssumption DEF SinkInv, SinkTypes, Sizing
  <2>3. Members(<<>>) = {} /\ Cost(<<>>, format.channels) <= sizing.budget
    BY <2>2, CostEmpty DEF Members
  <2> QED BY <2>1, <2>3 DEF FullInv
<1>2. FullInv /\ [Next]_vars => FullInv'
  BY FullStep
<1>3. FullInv => DatagramsFull
  BY DEF FullInv, FullDatagram, DatagramsFull
<1> QED BY <1>1, <1>2, <1>3, PTL DEF Spec

-----------------------------------------------------------------------------
(* No sample twice. *)

(* The sample x was written, and is pending no more. *)
Gone(x) == x \in 1 .. Len(stamps) /\ x \notin Pending

LEMMA WriteDraws ==
    ASSUME SinkInv, Writes, NEW x, Gone(x)
    PROVE  Gone(x)' /\ x \notin Sent'
<1>1. PICK n \in WriteSizes, fmt \in Formats, begin \in Int :
         /\ WriteSink(n, fmt, begin) /\ cursor' \in Cursor
         /\ UNCHANGED <<sizing, requested, tempo>>
  BY WritesIs
<1> DEFINE m == Len(stamps)
           w == Appended(KeptFormat(fmt), fmt, begin, Data(m, n))
           d == Drain(w, fmt)
<1>2. SinkInv'
  BY SinkStep DEF Next
<1>3. \/ segments' = d.segs /\ out' = d.out
      \/ segments' = <<>> /\ out' = <<>>
  BY <1>1 DEF WriteSink, Data
<1>4. Len(stamps') \in Nat /\ Len(stamps') >= m /\ m \in Nat
  <2> DEFINE new == [i \in 1 .. n |->
                      [tempo |-> tempo, whole |-> n % fmt.channels = 0, seq |-> next_seq,
                       beat |-> begin + FrameBeats((i - 1) \div fmt.channels, fmt.rate, tempo)]]
             S == Stamp \cup {new[i] : i \in 1 .. n}
  <2>1. stamps' = stamps \o new
    BY <1>1 DEF WriteSink
  <2>2. new \in [1 .. n -> S] /\ n \in Nat
    BY SinkAssumption
  <2>3. stamps \in Seq(Stamp) /\ Stamp \subseteq S
    BY DEF SinkInv, SinkTypes
  <2> HIDE DEF new, S
  <2>4. new \in Seq(S) /\ Len(new) = n
    BY <2>2
  <2>5. stamps \in Seq(S)
    BY <2>3
  <2>6. Len(stamps \o new) = Len(stamps) + Len(new)
    BY <2>4, <2>5, ConcatIs
  <2>7. m \in Nat /\ Len(stamps') = m + n
    BY <2>1, <2>3, <2>4, <2>6
  <2> QED BY <2>2, <2>7
<1> HIDE DEF w, d, m
<1>5. Extends(w, KeptFormat(fmt), fmt.channels, m, n) /\ Drains(d, w, fmt.channels)
  BY WrittenIs DEF w, d, m
<1>6. KeptFormat(fmt) = segments \/ KeptFormat(fmt) = <<>>
  BY DEF KeptFormat
<1>7. x \in 1 .. m /\ x \notin Samples(segments)
  BY DEF Gone, Pending, m
<1>8. Samples(<<>>) = {} /\ AllOf(<<>>) = {}
  BY DEF Samples, AllOf, Members
<1>9. x \notin Samples(w)
  <2>1. Samples(w) = Samples(KeptFormat(fmt)) \cup (m + 1 .. m + n)
    BY <1>5 DEF Extends
  <2>2. x \notin m + 1 .. m + n
    BY <1>4, <1>7
  <2> QED BY <1>6, <1>7, <1>8, <2>1, <2>2
<1>10. x \notin AllOf(d.out) /\ x \notin Samples(d.segs)
  BY <1>5, <1>9 DEF Drains
<1>11. x \notin AllOf(out') /\ x \notin Samples(segments')
  BY <1>3, <1>8, <1>10
<1>12. x \in 1 .. Len(stamps')
  BY <1>4, <1>7
<1> QED BY <1>11, <1>12 DEF Gone, Pending, Sent, AllOf

(* A sample that was sent is in no datagram of a later write, and pending  *)
(* no more (drain_datagrams takes what it sends out of the segments).      *)
THEOREM SentOnce ==
    ASSUME NEW x
    PROVE  Spec => [](x \in Sent => [][x \notin Pending' /\ (Writes => x \notin Sent')]_vars)
<1>1. SinkInv /\ x \in Sent => Gone(x)
  <2> SUFFICES ASSUME SinkInv, x \in Sent PROVE Gone(x)
    OBVIOUS
  <2>1. Sent = AllOf(out) /\ Pending = Samples(segments)
    BY DEF Sent, Pending, AllOf
  <2>2. x \in 1 .. Len(stamps)
    BY <2>1 DEF SinkInv
  <2>3. x \notin Pending
    BY <2>1, <2>2 DEF SinkInv, Before
  <2> QED BY <2>2, <2>3 DEF Gone
<1>2. SinkInv /\ Gone(x) /\ [Next]_vars => Gone(x)'
  <2> SUFFICES ASSUME SinkInv, Gone(x), [Next]_vars PROVE Gone(x)'
    OBVIOUS
  <2>1. CASE Writes
    BY <2>1, WriteDraws
  <2>2. CASE UNCHANGED <<segments, stamps>>
    BY <2>2 DEF Gone, Pending
  <2> QED BY <2>1, <2>2 DEF Next, RequesterComes, RequestersGone, TempoChanges, vars
<1>3. SinkInv /\ Gone(x) /\ [Next]_vars =>
         [x \notin Pending' /\ (Writes => x \notin Sent')]_vars
  BY <1>2, WriteDraws DEF Gone
<1> QED BY <1>1, <1>2, <1>3, SinkInvariance, PTL DEF Spec

-----------------------------------------------------------------------------
(* Where material is on the beat. *)

LEMMA RoundErr ==
    ASSUME NEW n \in Nat, NEW d \in Nat \ {0}
    PROVE  2 * (RoundDiv(n, d) * d - n) \in -d .. d
<1> DEFINE h == d \div 2
           q == (n + h) \div d
<1>1. h \in Nat /\ 2 * h <= d /\ d <= 2 * h + 1
  OBVIOUS
<1>2. RoundDiv(n, d) = q
  BY DEF RoundDiv
<1> HIDE DEF h
<1>3. q \in Nat /\ q * d \in Nat /\ q * d <= n + h /\ n + h < q * d + d
  BY <1>1, Room
<1> DEFINE p == q * d
<1>4. p \in Nat /\ p <= n + h /\ n + h < p + d
  BY <1>3
<1> HIDE DEF p
<1>5. 2 * (p - n) \in -d .. d
  BY <1>1, <1>4
<1> HIDE DEF q
<1> QED BY <1>2, <1>5 DEF p

LEMMA FrameErr ==
    ASSUME NEW f \in Nat, NEW r \in Nat \ {0}, NEW t \in Tempos
    PROVE  /\ r * t \in Nat \ {0} /\ f * Scale \in Nat
           /\ FrameBeats(f, r, t) \in Int
           /\ 2 * (FrameBeats(f, r, t) * (r * t) - f * Scale) \in -(r * t) .. r * t
<1> DEFINE n == f * Scale
           d == r * t
<1>1. n \in Nat /\ d \in Nat \ {0}
  <2>1. t \in Nat \ {0} /\ Scale \in Nat
    BY SinkAssumption
  <2> QED BY <2>1
<1>2. FrameBeats(f, r, t) = RoundDiv(n, d)
  BY DEF FrameBeats
<1> HIDE DEF n, d
<1>3. RoundDiv(n, d) \in Int /\ 2 * (RoundDiv(n, d) * d - n) \in -d .. d
  BY <1>1, RoundDivInt, RoundErr
<1> QED BY <1>1, <1>2, <1>3 DEF n, d

(* Twice what is off is within w. *)
Within(e, w) == 2 * e \in -w .. w

LEMMA Later ==
    ASSUME NEW e \in Int, NEW d \in Nat, NEW off \in Int, NEW more \in Int, off <= more,
           Within(e, d * off)
    PROVE  Within(e, d * more)
<1>1. d * off <= d * more /\ d * off \in Int /\ d * more \in Int
  BY SMTT(20)
<1> QED BY <1>1 DEF Within

(* Of material that begins at b, what begins t frames on. *)
LEMMA Drawn ==
    ASSUME NEW b \in Int, NEW d \in Nat, NEW r \in Int, NEW f \in Int, NEW t \in Int,
           NEW s \in Int, NEW beat \in Int, NEW off \in Int,
           Within(b * d + (t + f) * s - beat * d, d * off), Within(r * d - t * s, d)
    PROVE  Within((b + r) * d + f * s - beat * d, d * (off + 1))
<1> DEFINE bd == b * d
           rd == r * d
           ts == t * s
           fs == f * s
           hd == beat * d
           do == d * off
<1>1. (b + r) * d = bd + rd /\ (t + f) * s = ts + fs /\ d * (off + 1) = do + d
  OBVIOUS
<1>2. bd \in Int /\ rd \in Int /\ ts \in Int /\ fs \in Int /\ hd \in Int /\ do \in Int
  OBVIOUS
<1>3. Within(bd + (ts + fs) - hd, do) /\ Within(rd - ts, d)
  BY <1>1
<1> HIDE DEF bd, rd, ts, fs, hd, do
<1>4. Within((bd + rd) + fs - hd, do + d)
  BY <1>2, <1>3 DEF Within
<1> QED BY <1>1, <1>4 DEF fs, hd

(* Of material that begins at b, where frame f is heard. *)
LEMMA Heard ==
    ASSUME NEW b \in Int, NEW d \in Nat \ {0}, NEW r \in Int, NEW f \in Int,
           NEW s \in Int, NEW beat \in Int, NEW off \in Int,
           Within(b * d + f * s - beat * d, d * off), Within(r * d - f * s, d)
    PROVE  Within(b + r - beat, off + 1)
<1> DEFINE e == b + r - beat
<1>1. Within((b + r) * d + 0 * s - beat * d, d * (off + 1))
  <2>1. b * d + (f + 0) * s - beat * d = b * d + f * s - beat * d
    OBVIOUS
  <2>2. Within(b * d + (f + 0) * s - beat * d, d * off)
    BY <2>1
  <2>3. d \in Nat /\ 0 \in Int
    OBVIOUS
  <2> QED BY <2>2, <2>3, Drawn
<1>2. (b + r) * d + 0 * s - beat * d = e * d
  OBVIOUS
<1>3. e \in Int
  OBVIOUS
<1> HIDE DEF e
<1>4. Within(e * d, d * (off + 1))
  BY <1>1, <1>2
<1> DEFINE w == off + 1
<1>5. w \in Int /\ Within(e * d, d * w)
  BY <1>4
<1> HIDE DEF w
<1> DEFINE ed == e * d
           dw == d * w
<1>6. /\ ed \in Int /\ dw \in Int /\ 2 * ed \in -dw .. dw
      /\ d * (w + 1) = dw + d /\ d * (2 * e) = 2 * ed /\ d * (-(2 * e)) = -(2 * ed)
  BY <1>3, <1>5 DEF Within
<1>7. 2 * e <= w /\ -w <= 2 * e
  <2>1. \A y \in Int : w + 1 <= y => d * (w + 1) <= d * y
    BY <1>5, SMTT(20)
  <2> HIDE DEF ed, dw
  <2>2. 2 * e <= w
    <3> SUFFICES ASSUME w + 1 <= 2 * e PROVE FALSE
      BY <1>3, <1>5
    <3>1. d * (w + 1) <= d * (2 * e)
      BY <1>3, <2>1
    <3>2. dw + d <= 2 * ed
      BY <1>6, <3>1
    <3> QED BY <1>6, <3>2
  <2>3. -w <= 2 * e
    <3> SUFFICES ASSUME w + 1 <= -(2 * e) PROVE FALSE
      BY <1>3, <1>5
    <3>1. d * (w + 1) <= d * (-(2 * e))
      BY <1>3, <2>1
    <3>2. dw + d <= -(2 * ed)
      BY <1>6, <3>1
    <3> QED BY <1>6, <3>2
  <2> QED BY <2>2, <2>3
<1>8. Within(e, w)
  BY <1>3, <1>5, <1>7 DEF Within
<1> QED BY <1>8 DEF e, w

-----------------------------------------------------------------------------
(* Segments of whole frames. *)

Whole(seg, ch) == \E k \in Nat : Len(seg.data) = k * ch

(* The samples of the segment x are where the stamps st put them, but for  *)
(* what rounding did until n chunks were numbered.                         *)
OnBeat(x, st, fmt, n) ==
    \A i \in DOMAIN x.data :
       LET s == st[x.data[i]]
           d == fmt.rate * x.tempo
           f == (i - 1) \div fmt.channels
       IN  /\ s \in Stamp /\ x.tempo = s.tempo
           /\ Within(x.begin * d + f * Scale - s.beat * d, d * (4 + (n - s.seq)))

(* And those of the chunk c, whose place i is heard at this beat. *)
HeardAt(c, i, fmt) == c.begin + FrameBeats((i - 1) \div fmt.channels, fmt.rate, c.tempo)

OnTime(c, st, fmt, n) ==
    \A i \in DOMAIN c.data :
       LET s == st[c.data[i]]
       IN  /\ s \in Stamp /\ c.tempo = s.tempo
           /\ Within(HeardAt(c, i, fmt) - s.beat, 4 + (n - s.seq))

LEMMA PlaceType ==
    ASSUME NEW x \in Segment, NEW fmt \in Format, NEW i \in DOMAIN x.data
    PROVE  /\ x.begin \in Int /\ x.tempo \in Tempos /\ x.data \in Seq(Nat) /\ i \in Nat \ {0}
           /\ fmt.rate \in Nat \ {0} /\ fmt.channels \in Nat \ {0}
           /\ (i - 1) \div fmt.channels \in Nat
<1>1. /\ x.begin \in Int /\ x.tempo \in Tempos /\ x.data \in Seq(Nat)
      /\ fmt.rate \in Nat \ {0} /\ fmt.channels \in Nat \ {0}
  BY DEF Segment, Format
<1>2. i \in Nat \ {0}
  BY <1>1
<1> DEFINE ch == fmt.channels
<1>3. ch \in Nat \ {0}
  BY <1>1
<1> HIDE DEF ch
<1>4. (i - 1) \div ch \in Nat
  BY <1>2, <1>3
<1> QED BY <1>1, <1>2, <1>4 DEF ch

(* A chunk is heard where its segment was. *)
LEMMA ChunkOnTime ==
    ASSUME NEW x \in Segment, NEW st, NEW fmt \in Format, NEW n \in Nat, OnBeat(x, st, fmt, n),
           NEW y \in Segment, y.begin = x.begin, y.tempo = x.tempo,
           \A i \in DOMAIN y.data : i \in DOMAIN x.data /\ y.data[i] = x.data[i]
    PROVE  OnTime(y, st, fmt, n + 1)
<1> SUFFICES ASSUME NEW i \in DOMAIN y.data
             PROVE  LET s == st[y.data[i]]
                    IN  /\ s \in Stamp /\ y.tempo = s.tempo
                        /\ Within(HeardAt(y, i, fmt) - s.beat, 4 + ((n + 1) - s.seq))
  BY DEF OnTime
<1> DEFINE s == st[x.data[i]]
           d == fmt.rate * x.tempo
           f == (i - 1) \div fmt.channels
           off == 4 + (n - s.seq)
           r == FrameBeats(f, fmt.rate, x.tempo)
           b == x.begin
           beat == s.beat
<1>1. i \in DOMAIN x.data /\ y.data[i] = x.data[i]
  OBVIOUS
<1>2. s \in Stamp /\ x.tempo = s.tempo /\ Within(b * d + f * Scale - beat * d, d * off)
  BY <1>1 DEF OnBeat
<1>3. b \in Int /\ x.tempo \in Tempos /\ fmt.rate \in Nat \ {0} /\ f \in Nat
  BY <1>1, PlaceType
<1>4. beat \in Int /\ s.seq \in Nat
  BY <1>2 DEF Stamp
<1> HIDE DEF f
<1>5. d \in Nat \ {0} /\ r \in Int /\ Within(r * d - f * Scale, d)
  BY <1>3, FrameErr DEF Within
<1>6. off \in Int /\ Scale \in Int /\ f \in Int
  BY <1>3, <1>4, SinkAssumption
<1>7. off + 1 = 4 + ((n + 1) - s.seq)
  BY <1>4
<1>8. HeardAt(y, i, fmt) = b + r
  BY DEF HeardAt, f
<1> HIDE DEF off, r, d, b, beat
<1>9. Within(b + r - beat, off + 1)
  BY <1>2, <1>3, <1>4, <1>5, <1>6, Heard DEF b
<1> DEFINE h == HeardAt(y, i, fmt)
           w == 4 + ((n + 1) - s.seq)
<1>10. Within(h - beat, w)
  <2>1. h = b + r /\ w = off + 1
    BY <1>7, <1>8
  <2>2. b \in Int /\ r \in Int /\ beat \in Int /\ off \in Int
    BY <1>3, <1>4, <1>5, <1>6 DEF b, beat
  <2> HIDE DEF h, w
  <2> QED BY <1>9, <2>1, <2>2 DEF Within
<1>11. st[y.data[i]] = s
  BY <1>1
<1>12. beat = s.beat
  BY DEF beat
<1> HIDE DEF s
<1> QED BY <1>2, <1>10, <1>11, <1>12

(* What a chunk leaves of its segment begins where the chunk ends. *)
LEMMA RestOnBeat ==
    ASSUME NEW x \in Segment, NEW st, NEW fmt \in Format, NEW n \in Nat, OnBeat(x, st, fmt, n),
           NEW t \in Nat, NEW y \in Segment, y.begin = Advance(x, t, fmt), y.tempo = x.tempo,
           \A i \in DOMAIN y.data : /\ t * fmt.channels + i \in DOMAIN x.data
                                    /\ y.data[i] = x.data[t * fmt.channels + i]
    PROVE  OnBeat(y, st, fmt, n + 1)
<1> SUFFICES ASSUME NEW i \in DOMAIN y.data
             PROVE  LET s == st[y.data[i]]
                        d == fmt.rate * y.tempo
                        f == (i - 1) \div fmt.channels
                    IN  /\ s \in Stamp /\ y.tempo = s.tempo
                        /\ Within(y.begin * d + f * Scale - s.beat * d, d * (4 + ((n + 1) - s.seq)))
  BY DEF OnBeat
<1> DEFINE ch == fmt.channels
           m == t * ch
           j == m + i
           s == st[x.data[j]]
           d == fmt.rate * x.tempo
           g == (j - 1) \div ch
           f == (i - 1) \div ch
           off == 4 + (n - s.seq)
           r == FrameBeats(t, fmt.rate, x.tempo)
           b == x.begin
           beat == s.beat
<1>1. j \in DOMAIN x.data /\ y.data[i] = x.data[j]
  OBVIOUS
<1>2. s \in Stamp /\ x.tempo = s.tempo /\ Within(b * d + g * Scale - beat * d, d * off)
  BY <1>1 DEF OnBeat
<1>3. /\ b \in Int /\ x.tempo \in Tempos /\ fmt.rate \in Nat \ {0} /\ ch \in Nat \ {0} /\ f \in Nat
      /\ i \in Nat \ {0}
  BY <1>1, PlaceType
<1>4. beat \in Int /\ s.seq \in Nat
  BY <1>2 DEF Stamp
<1> HIDE DEF ch
<1>5. g = t + f
  <2> DEFINE L == j - 1
  <2>1. m \in Nat
    BY <1>3
  <2>2. L \in Nat /\ m <= L /\ L - m = i - 1
    <3> HIDE DEF m
    <3> QED BY <1>3, <2>1
  <2> HIDE DEF L
  <2>3. (L - t * ch) \div ch = (L \div ch) - t
    <3>1. L \in Nat /\ ch \in Nat \ {0} /\ t \in Nat /\ t * ch <= L
      BY <1>3, <2>2
    <3> QED BY ONLY <3>1, FramesLeft
  <2>4. f = g - t
    BY <2>2, <2>3 DEF L
  <2>5. g \in Int
    <3>1. L \div ch \in Int
      BY <1>3, <2>2
    <3> QED BY <3>1 DEF L
  <2> HIDE DEF f, g
  <2> QED BY <1>3, <2>4, <2>5
<1> HIDE DEF f, g
<1>6. d \in Nat \ {0} /\ r \in Int /\ Within(r * d - t * Scale, d)
  BY <1>3, FrameErr DEF Within
<1>7. off \in Int /\ Scale \in Int /\ f \in Int
  BY <1>3, <1>4, SinkAssumption
<1>8. off + 1 = 4 + ((n + 1) - s.seq)
  BY <1>4
<1>9. y.begin = b + r /\ y.tempo = x.tempo
  BY DEF Advance
<1> HIDE DEF off, r, d, b, beat, j, m
<1>10. Within((b + r) * d + f * Scale - beat * d, d * (off + 1))
  <2>1. Within(b * d + (t + f) * Scale - beat * d, d * off)
    BY <1>2, <1>5
  <2>2. d \in Nat /\ b \in Int /\ beat \in Int /\ t \in Int
    BY <1>3, <1>4, <1>6 DEF b
  <2> QED BY <1>4, <1>6, <1>7, <2>1, <2>2, Drawn
<1> QED BY <1>1, <1>2, <1>8, <1>9, <1>10 DEF d, f, beat, ch

(* A later number leaves more room. *)
LEMMA OnBeatLater ==
    ASSUME NEW x \in Segment, NEW st, NEW fmt \in Format, NEW n \in Nat, OnBeat(x, st, fmt, n),
           NEW m \in Nat, n <= m
    PROVE  OnBeat(x, st, fmt, m)
<1> SUFFICES ASSUME NEW i \in DOMAIN x.data
             PROVE  LET s == st[x.data[i]]
                        d == fmt.rate * x.tempo
                        f == (i - 1) \div fmt.channels
                    IN  /\ s \in Stamp /\ x.tempo = s.tempo
                        /\ Within(x.begin * d + f * Scale - s.beat * d, d * (4 + (m - s.seq)))
  BY DEF OnBeat
<1> DEFINE s == st[x.data[i]]
           d == fmt.rate * x.tempo
           f == (i - 1) \div fmt.channels
           e == x.begin * d + f * Scale - s.beat * d
           off == 4 + (n - s.seq)
           more == 4 + (m - s.seq)
<1>1. s \in Stamp /\ x.tempo = s.tempo /\ Within(e, d * off)
  BY DEF OnBeat
<1>2. x.begin \in Int /\ x.tempo \in Tempos /\ fmt.rate \in Nat \ {0} /\ f \in Nat
  BY PlaceType
<1>3. s.beat \in Int /\ s.seq \in Nat
  BY <1>1 DEF Stamp
<1> HIDE DEF f
<1>4. d \in Nat /\ f * Scale \in Nat
  BY <1>2, FrameErr
<1>5. e \in Int
  <2> HIDE DEF d
  <2> QED BY <1>2, <1>3, <1>4
<1>6. off \in Int /\ more \in Int /\ off <= more
  BY <1>3
<1> HIDE DEF e, d, off, more
<1>7. Within(e, d * more)
  BY <1>1, <1>4, <1>5, <1>6, Later
<1> QED BY <1>1, <1>7 DEF e, d, f, more

LEMMA OnTimeLater ==
    ASSUME NEW x \in Segment, NEW st, NEW fmt \in Format, NEW n \in Nat, OnTime(x, st, fmt, n),
           NEW m \in Nat, n <= m
    PROVE  OnTime(x, st, fmt, m)
<1> SUFFICES ASSUME NEW i \in DOMAIN x.data
             PROVE  LET s == st[x.data[i]]
                    IN  /\ s \in Stamp /\ x.tempo = s.tempo
                        /\ Within(HeardAt(x, i, fmt) - s.beat, 4 + (m - s.seq))
  BY DEF OnTime
<1> DEFINE s == st[x.data[i]]
           e == HeardAt(x, i, fmt) - s.beat
           off == 4 + (n - s.seq)
           more == 4 + (m - s.seq)
<1>1. s \in Stamp /\ x.tempo = s.tempo /\ Within(e, off)
  BY DEF OnTime
<1>2. s.seq \in Nat /\ s.beat \in Int
  BY <1>1 DEF Stamp
<1>3. /\ x.begin \in Int /\ x.tempo \in Tempos /\ fmt.rate \in Nat \ {0}
      /\ (i - 1) \div fmt.channels \in Nat
  BY PlaceType
<1>4. e \in Int
  <2>1. FrameBeats((i - 1) \div fmt.channels, fmt.rate, x.tempo) \in Int
    BY <1>3, FrameBeatsInt
  <2> QED BY <1>2, <1>3, <2>1 DEF HeardAt
<1>5. off \in Int /\ more \in Int /\ off <= more
  BY <1>2
<1> HIDE DEF e, off, more
<1>6. Within(e, more)
  BY <1>1, <1>4, <1>5 DEF Within
<1> QED BY <1>1, <1>6 DEF e, more

(* The chunk x takes t frames of seg and y is what it leaves. *)
Splits(seg, x, y, t, fmt) ==
    LET n == t * fmt.channels
    IN  /\ x \in Segment /\ y \in Segment /\ n \in Nat /\ n <= Len(seg.data)
        /\ x.begin = seg.begin /\ x.tempo = seg.tempo
        /\ Len(x.data) = n /\ \A i \in 1 .. n : x.data[i] = seg.data[i]
        /\ y.begin = Advance(seg, t, fmt) /\ y.tempo = seg.tempo
        /\ Len(y.data) = Len(seg.data) - n
        /\ \A i \in 1 .. Len(seg.data) - n : y.data[i] = seg.data[n + i]

LEMMA SplitIs ==
    ASSUME NEW seg \in Segment, NEW t \in Nat, NEW fmt \in Format,
           t * fmt.channels <= Len(seg.data)
    PROVE  LET n == t * fmt.channels
           IN  Splits(seg, [begin |-> seg.begin, tempo |-> seg.tempo, data |-> SubSeq(seg.data, 1, n)],
                      [seg EXCEPT !.data = SubSeq(seg.data, n + 1, Len(seg.data)),
                                  !.begin = Advance(seg, t, fmt)], t, fmt)
<1> DEFINE n == t * fmt.channels
           d == seg.data
           L == Len(d)
           m == n + 1
           head == SubSeq(d, 1, n)
           rest == SubSeq(d, m, L)
           beat == Advance(seg, t, fmt)
           x == [begin |-> seg.begin, tempo |-> seg.tempo, data |-> head]
           y == [seg EXCEPT !.data = rest, !.begin = beat]
<1>1. /\ seg.begin \in Int /\ seg.tempo \in Tempos /\ d \in Seq(Nat) /\ L \in Nat
      /\ fmt.rate \in Nat \ {0} /\ fmt.channels \in Nat \ {0}
  BY DEF Segment, Format
<1>2. n \in Nat /\ n <= L
  BY <1>1
<1>3. beat \in Int
  <2>1. FrameBeats(t, fmt.rate, seg.tempo) \in Int
    BY <1>1, FrameBeatsInt
  <2> QED BY <1>1, <2>1 DEF Advance
<1> HIDE DEF n, d, beat
<1>4. m \in Nat \ {0} /\ m <= L + 1 /\ 1 \in Nat \ {0} /\ 1 <= n + 1 /\ m - 1 = n
  BY <1>1, <1>2
<1>5. /\ head \in Seq(Nat) /\ Len(head) = n + 1 - 1
      /\ \A i \in 1 .. n + 1 - 1 : head[i] = d[i + (1 - 1)]
  BY <1>1, <1>2, <1>4, SubSeqIs
<1>6. Len(head) = n /\ \A i \in 1 .. n : head[i] = d[i]
  BY <1>2, <1>5
<1> HIDE DEF m
<1>7. /\ rest \in Seq(Nat) /\ Len(rest) = L + 1 - m
      /\ \A i \in 1 .. L + 1 - m : rest[i] = d[i + (m - 1)]
  BY <1>1, <1>2, <1>4, SubSeqIs
<1>8. Len(rest) = L - n /\ \A i \in 1 .. L - n : rest[i] = d[n + i]
  <2>1. L + 1 - m = L - n /\ \A i \in 1 .. L - n : i + (m - 1) = n + i
    BY <1>1, <1>2, <1>4
  <2> QED BY <1>7, <2>1
<1> HIDE DEF head, rest
<1>9. /\ x \in Segment /\ x.begin = seg.begin /\ x.tempo = seg.tempo /\ x.data = head
      /\ y \in Segment /\ y.begin = beat /\ y.tempo = seg.tempo /\ y.data = rest
  BY <1>1, <1>3, <1>5, <1>7 DEF Segment
<1> HIDE DEF x, y
<1>10. Splits(seg, x, y, t, fmt)
  BY <1>2, <1>6, <1>8, <1>9 DEF Splits, n, d, beat
<1> QED BY <1>10 DEF x, y, head, rest, n, d, beat, m

(* A chunk splits one of the segments, and the others stay or are dropped. *)
Drew(c, q, x, y, j, t, fmt) ==
    /\ j \in 1 .. Len(c.segs) /\ Splits(c.segs[j], x, y, t, fmt)
    /\ q.chunks = Append(c.chunks, x)
    /\ \A k \in 1 .. Len(q.segs) :
          q.segs[k] = y \/ \E l \in 1 .. Len(c.segs) : q.segs[k] = c.segs[l]

LEMMA ConsumeFrom ==
    ASSUME NEW c \in Cutting, NEW t \in Nat \ {0}, NEW fmt \in Format
    PROVE  LET q == Consume(c, t, fmt)
           IN  \/ q = [c EXCEPT !.panic = TRUE]
               \/ \E x, y, j : Drew(c, q, x, y, j, t, fmt)
<1> DEFINE ch == fmt.channels
           n == t * ch
           w == SkipResidue(c.segs, ch)
           seg == w[1]
           x == [begin |-> seg.begin, tempo |-> seg.tempo, data |-> SubSeq(seg.data, 1, n)]
           y == [seg EXCEPT !.data = SubSeq(seg.data, n + 1, Len(seg.data)),
                            !.begin = Advance(seg, t, fmt)]
           r == Remaining(y, Tail(w))
           q == Consume(c, t, fmt)
<1>1. CASE c.panic \/ w = <<>> \/ Len(seg.data) < n
  BY <1>1 DEF Consume
<1>2. CASE ~c.panic /\ w # <<>> /\ ~(Len(seg.data) < n)
  <2>1. c.segs \in Seq(Segment) /\ c.chunks \in Seq(Segment) /\ ch \in Nat \ {0} /\ n \in Nat
    <3>1. c.segs \in Seq(Segment) /\ c.chunks \in Seq(Segment) /\ ch \in Nat \ {0}
      BY DEF Cutting, Format
    <3> HIDE DEF ch
    <3> QED BY <3>1
  <2>2. PICK e \in Nat : /\ e + Len(w) <= Len(c.segs) /\ w \in Seq(Segment)
                         /\ \A i \in 1 .. Len(w) : w[i] = c.segs[i + e]
    <3> DEFINE whole == {k \in DOMAIN c.segs : Len(c.segs[k].data) >= ch}
    <3>1. whole # {} /\ whole \subseteq Nat /\ whole \subseteq 1 .. Len(c.segs)
      <4>1. whole # {}
        BY <1>2 DEF SkipResidue
      <4>2. whole \subseteq 1 .. Len(c.segs)
        BY <2>1
      <4> HIDE DEF whole
      <4>3. 1 .. Len(c.segs) \subseteq Nat
        BY <2>1
      <4> QED BY <4>1, <4>2, <4>3
    <3>2. w = SubSeq(c.segs, Min(whole), Len(c.segs))
      BY <3>1 DEF SkipResidue
    <3> HIDE DEF whole, w
    <3>3. PICK z \in whole : \A v \in whole : z <= v
      BY <3>1, Least
    <3>4. Min(whole) \in whole
      BY <3>3 DEF Min
    <3> DEFINE m == Min(whole)
               L == Len(c.segs)
    <3>5. m \in Nat \ {0} /\ L \in Nat /\ m <= L + 1 /\ m <= L /\ m - 1 \in Nat
      <4>1. L \in Nat
        BY <2>1
      <4>2. whole \subseteq 1 .. L
        BY <3>1
      <4> HIDE DEF L
      <4>3. m \in 1 .. L
        BY ONLY <3>4, <4>2
      <4> HIDE DEF m
      <4> QED BY <4>1, <4>3
    <3>6. w = SubSeq(c.segs, m, L)
      BY <3>2
    <3> HIDE DEF m
    <3>7. /\ w \in Seq(Segment) /\ Len(w) = L + 1 - m
          /\ \A i \in 1 .. L + 1 - m : w[i] = c.segs[i + (m - 1)]
      <4> DEFINE v == c.segs
      <4>1. /\ v \in Seq(Segment) /\ m \in Nat \ {0} /\ L \in Nat
            /\ L <= Len(v) /\ m <= L + 1
        BY <2>1, <3>5
      <4> HIDE DEF v, L
      <4>2. /\ SubSeq(v, m, L) \in Seq(Segment) /\ Len(SubSeq(v, m, L)) = L + 1 - m
            /\ \A i \in 1 .. L + 1 - m : SubSeq(v, m, L)[i] = v[i + (m - 1)]
        BY ONLY <4>1, SubSeqIs
      <4>3. w = SubSeq(v, m, L)
        BY <3>6 DEF v
      <4> QED BY <4>2, <4>3 DEF v
    <3>8. m - 1 + Len(w) <= L
      BY <3>5, <3>7
    <3> QED BY <3>5, <3>7, <3>8
  <2>3. q = [c EXCEPT !.chunks = Append(@, x), !.segs = r]
    BY <1>2 DEF Consume
  <2> DEFINE j == 1 + e
  <2>4. Len(w) \in Nat \ {0} /\ j \in 1 .. Len(c.segs) /\ seg = c.segs[j] /\ seg \in Segment
    <3> HIDE DEF w
    <3>1. Len(w) \in Nat \ {0}
      <4>1. w # <<>> /\ w \in Seq(Segment)
        BY <1>2, <2>2
      <4> QED BY ONLY <4>1
    <3>2. Len(c.segs) \in Nat
      BY <2>1
    <3>3. 1 \in 1 .. Len(w) /\ j \in 1 .. Len(c.segs)
      BY <2>2, <3>1, <3>2
    <3>4. seg = c.segs[j]
      BY <2>2, <3>3
    <3>5. seg \in Segment
      BY <2>2, <3>3
    <3> QED BY <3>1, <3>3, <3>4, <3>5
  <2> HIDE DEF seg, w, j
  <2>5. Splits(seg, x, y, t, fmt)
    <3>1. Len(seg.data) \in Nat
      BY <2>4 DEF Segment
    <3>2. t * fmt.channels <= Len(seg.data)
      <4>1. n <= Len(seg.data)
        <5> HIDE DEF n
        <5> QED BY <1>2, <2>1, <3>1
      <4> QED BY <4>1
    <3> QED BY <2>4, <3>2, SplitIs
  <2> HIDE DEF x, y, n
  <2>6. y \in Segment
    BY <2>5 DEF Splits
  <2> DEFINE u == Tail(w)
  <2>7. u \in Seq(Segment) /\ \A k \in 1 .. Len(u) : \E l \in 1 .. Len(c.segs) : u[k] = c.segs[l]
    <3>1. /\ u \in Seq(Segment) /\ Len(u) = Len(w) - 1
          /\ \A k \in 1 .. Len(u) : u[k] = w[k + 1]
      BY <2>2, <2>4
    <3> HIDE DEF u
    <3>2. ASSUME NEW k \in 1 .. Len(u)
          PROVE  k + 1 \in 1 .. Len(w) /\ k + 1 + e \in 1 .. Len(c.segs)
      BY <2>1, <2>2, <2>4, <3>1
    <3> QED BY <2>2, <3>1, <3>2
  <2> HIDE DEF u
  <2>8. \A k \in 1 .. Len(r) : r[k] = y \/ \E l \in 1 .. Len(c.segs) : r[k] = c.segs[l]
    <3>1. CASE y.data = <<>>
      <4>1. r = u
        BY <3>1 DEF Remaining, u
      <4> QED BY <2>7, <4>1
    <3>2. CASE y.data # <<>>
      <4>1. r = <<y>> \o u
        BY <3>2 DEF Remaining, u
      <4> HIDE DEF r
      <4>2. /\ Len(r) = Len(u) + 1 /\ r[1] = y
            /\ \A i \in 1 .. Len(u) + 1 : i > 1 => r[i] = u[i - 1]
        BY <2>6, <2>7, <4>1, ConsIs
      <4>3. ASSUME NEW k \in 1 .. Len(r), k # 1
            PROVE  k - 1 \in 1 .. Len(u) /\ r[k] = u[k - 1]
        BY <2>7, <4>2, <4>3
      <4> SUFFICES ASSUME NEW k \in 1 .. Len(r), k # 1
                   PROVE  \E l \in 1 .. Len(c.segs) : r[k] = c.segs[l]
        BY <4>2
      <4>4. k - 1 \in 1 .. Len(u) /\ r[k] = u[k - 1]
        BY <4>3
      <4> QED BY <2>7, <4>4
    <3> QED BY <3>1, <3>2
  <2>9. q.chunks = Append(c.chunks, x) /\ q.segs = r
    <3> DEFINE k == Append(c.chunks, x)
    <3>1. q = [c EXCEPT !.chunks = k, !.segs = r]
      BY <2>3
    <3> HIDE DEF k, r
    <3>2. q.chunks = k /\ q.segs = r
      BY <3>1 DEF Cutting
    <3> QED BY <3>2 DEF k
  <2> HIDE DEF r, q
  <2>10. Drew(c, q, x, y, j, t, fmt)
    BY <2>4, <2>5, <2>8, <2>9 DEF Drew
  <2> QED BY <2>10 DEF q
<1> QED BY <1>1, <1>2

-----------------------------------------------------------------------------
(* The chunks drawn, and what they leave. *)

AllOnBeat(segs, st, fmt, n) ==
    \A k \in 1 .. Len(segs) : Whole(segs[k], fmt.channels) /\ OnBeat(segs[k], st, fmt, n)

AllOnTime(chunks, st, fmt, n) == \A k \in 1 .. Len(chunks) : OnTime(chunks[k], st, fmt, n)

Timed(c, st, fmt, n) ==
    /\ c \in Cutting
    /\ AllOnBeat(c.segs, st, fmt, n + Len(c.chunks))
    /\ AllOnTime(c.chunks, st, fmt, n + Len(c.chunks))

LEMMA AllOnTimeLater ==
    ASSUME NEW chunks \in Seq(Segment), NEW st, NEW fmt \in Format, NEW n \in Nat,
           AllOnTime(chunks, st, fmt, n), NEW m \in Nat, n <= m
    PROVE  AllOnTime(chunks, st, fmt, m)
<1> SUFFICES ASSUME NEW k \in 1 .. Len(chunks)
             PROVE  OnTime(chunks[k], st, fmt, m)
  BY DEF AllOnTime
<1>1. chunks[k] \in Segment /\ OnTime(chunks[k], st, fmt, n)
  BY SegType DEF AllOnTime
<1> QED BY <1>1, OnTimeLater

LEMMA WholeRest ==
    ASSUME NEW seg \in Segment, NEW x, NEW y, NEW t \in Nat, NEW fmt \in Format,
           Splits(seg, x, y, t, fmt), Whole(seg, fmt.channels)
    PROVE  Whole(y, fmt.channels)
<1> DEFINE ch == fmt.channels
<1>1. PICK k \in Nat : Len(seg.data) = k * ch
  BY DEF Whole
<1>2. ch \in Nat \ {0} /\ t * ch \in Nat /\ t * ch <= Len(seg.data) /\ Len(y.data) = Len(seg.data) - t * ch
  BY DEF Format, Splits
<1> HIDE DEF ch
<1>3. t <= k
  <2> SUFFICES ASSUME k + 1 <= t PROVE FALSE
    OBVIOUS
  <2>1. (k + 1) * ch <= t * ch
    BY <1>2, SMTT(20)
  <2>2. (k + 1) * ch = k * ch + ch
    BY <1>2
  <2> DEFINE a == k * ch
             e == t * ch
  <2>3. a \in Nat /\ e \in Nat /\ e <= a /\ a + ch <= e
    BY <1>1, <1>2, <2>1, <2>2
  <2> HIDE DEF a, e
  <2> QED BY <1>2, <2>3
<1>4. k - t \in Nat /\ Len(y.data) = (k - t) * ch
  <2>1. (k - t) * ch = k * ch - t * ch
    BY <1>2
  <2> QED BY <1>1, <1>2, <1>3, <2>1
<1> QED BY <1>4 DEF Whole, ch

LEMMA SplitOnBeat ==
    ASSUME NEW seg \in Segment, NEW x, NEW y, NEW t \in Nat, NEW st, NEW fmt \in Format,
           NEW n \in Nat, Splits(seg, x, y, t, fmt), OnBeat(seg, st, fmt, n)
    PROVE  OnTime(x, st, fmt, n + 1) /\ OnBeat(y, st, fmt, n + 1)
<1> DEFINE m == t * fmt.channels
           L == Len(seg.data)
<1>1. /\ x \in Segment /\ y \in Segment /\ m \in Nat /\ m <= L
      /\ x.begin = seg.begin /\ x.tempo = seg.tempo
      /\ Len(x.data) = m /\ \A i \in 1 .. m : x.data[i] = seg.data[i]
      /\ y.begin = Advance(seg, t, fmt) /\ y.tempo = seg.tempo
      /\ Len(y.data) = L - m
      /\ \A i \in 1 .. L - m : y.data[i] = seg.data[m + i]
  BY DEF Splits
<1>2. /\ L \in Nat /\ DOMAIN seg.data = 1 .. L /\ DOMAIN x.data = 1 .. Len(x.data)
      /\ DOMAIN y.data = 1 .. Len(y.data)
  BY <1>1 DEF Segment
<1>3. OnTime(x, st, fmt, n + 1)
  <2>1. \A i \in DOMAIN x.data : i \in DOMAIN seg.data /\ x.data[i] = seg.data[i]
    <3> HIDE DEF m, L
    <3> QED BY <1>1, <1>2
  <2> QED BY <1>1, <2>1, ChunkOnTime
<1>4. OnBeat(y, st, fmt, n + 1)
  <2>1. \A i \in DOMAIN y.data : m + i \in DOMAIN seg.data /\ y.data[i] = seg.data[m + i]
    <3> HIDE DEF m, L
    <3>1. DOMAIN y.data = 1 .. L - m
      BY <1>1, <1>2
    <3>2. \A i \in 1 .. L - m : m + i \in 1 .. L
      BY <1>1, <1>2
    <3> QED BY <1>1, <1>2, <3>1, <3>2
  <2> QED BY <1>1, <2>1, RestOnBeat
<1> QED BY <1>3, <1>4

LEMMA TimedStep ==
    ASSUME NEW c, NEW t \in Nat \ {0}, NEW st, NEW fmt \in Format, NEW n \in Nat,
           Timed(c, st, fmt, n)
    PROVE  Timed(Consume(c, t, fmt), st, fmt, n)
<1> DEFINE q == Consume(c, t, fmt)
           N == n + Len(c.chunks)
<1>1. c \in Cutting /\ AllOnBeat(c.segs, st, fmt, N) /\ AllOnTime(c.chunks, st, fmt, N)
  BY DEF Timed
<1>2. /\ c.segs \in Seq(Segment) /\ c.chunks \in Seq(Segment) /\ N \in Nat
      /\ Len(c.chunks) \in Nat /\ Len(c.segs) \in Nat
  BY <1>1 DEF Cutting
<1>3. q \in Cutting
  BY <1>1, ConsumeType
<1>4. \/ q = [c EXCEPT !.panic = TRUE]
      \/ \E x, y, j : Drew(c, q, x, y, j, t, fmt)
  <2>1. LET z == Consume(c, t, fmt)
        IN  \/ z = [c EXCEPT !.panic = TRUE]
            \/ \E x, y, j : Drew(c, z, x, y, j, t, fmt)
    BY <1>1, ConsumeFrom
  <2> QED BY <2>1
<1> HIDE DEF q, N
<1>5. CASE q = [c EXCEPT !.panic = TRUE]
  <2>1. q.segs = c.segs /\ q.chunks = c.chunks
    BY <1>1, <1>5 DEF Cutting
  <2> QED BY <1>1, <1>3, <2>1 DEF Timed, N, q
<1>6. ASSUME NEW x, NEW y, NEW j, Drew(c, q, x, y, j, t, fmt)
      PROVE  Timed(q, st, fmt, n)
  <2> DEFINE seg == c.segs[j]
  <2>1. /\ j \in 1 .. Len(c.segs) /\ Splits(seg, x, y, t, fmt) /\ q.chunks = Append(c.chunks, x)
        /\ \A k \in 1 .. Len(q.segs) :
              q.segs[k] = y \/ \E l \in 1 .. Len(c.segs) : q.segs[k] = c.segs[l]
    BY <1>6 DEF Drew
  <2>2. seg \in Segment /\ Whole(seg, fmt.channels) /\ OnBeat(seg, st, fmt, N)
    BY <1>1, <1>2, <2>1, SegType DEF AllOnBeat
  <2> HIDE DEF seg
  <2>3. OnTime(x, st, fmt, N + 1) /\ OnBeat(y, st, fmt, N + 1) /\ Whole(y, fmt.channels)
    <3>1. t \in Nat
      OBVIOUS
    <3>2. OnTime(x, st, fmt, N + 1) /\ OnBeat(y, st, fmt, N + 1)
      BY <1>2, <2>1, <2>2, <3>1, SplitOnBeat
    <3>3. Whole(y, fmt.channels)
      BY <2>1, <2>2, <3>1, WholeRest
    <3> QED BY <3>2, <3>3
  <2>4. x \in Segment
    BY <2>1 DEF Splits
  <2>5. n + Len(q.chunks) = N + 1 /\ N + 1 \in Nat /\ N <= N + 1
    BY <1>2, <2>1, <2>4 DEF N
  <2>6. AllOnTime(q.chunks, st, fmt, N + 1)
    <3>1. AllOnTime(c.chunks, st, fmt, N + 1)
      BY <1>1, <1>2, <2>5, AllOnTimeLater
    <3> SUFFICES ASSUME NEW k \in 1 .. Len(q.chunks)
                 PROVE  OnTime(q.chunks[k], st, fmt, N + 1)
      BY DEF AllOnTime
    <3>2. \/ k = Len(c.chunks) + 1 /\ q.chunks[k] = x
          \/ k \in 1 .. Len(c.chunks) /\ q.chunks[k] = c.chunks[k]
      BY <1>2, <2>1, <2>4
    <3> QED BY <2>3, <3>1, <3>2 DEF AllOnTime
  <2>7. AllOnBeat(q.segs, st, fmt, N + 1)
    <3> SUFFICES ASSUME NEW k \in 1 .. Len(q.segs)
                 PROVE  Whole(q.segs[k], fmt.channels) /\ OnBeat(q.segs[k], st, fmt, N + 1)
      BY DEF AllOnBeat
    <3>1. CASE q.segs[k] = y
      BY <2>3, <3>1
    <3>2. ASSUME NEW l \in 1 .. Len(c.segs), q.segs[k] = c.segs[l]
          PROVE  Whole(q.segs[k], fmt.channels) /\ OnBeat(q.segs[k], st, fmt, N + 1)
      <4>1. c.segs[l] \in Segment /\ Whole(c.segs[l], fmt.channels) /\ OnBeat(c.segs[l], st, fmt, N)
        BY <1>1, <1>2, SegType DEF AllOnBeat
      <4>2. OnBeat(c.segs[l], st, fmt, N + 1)
        BY <1>2, <2>5, <4>1, OnBeatLater
      <4> QED BY <3>2, <4>1, <4>2
    <3> QED BY <2>1, <3>1, <3>2
  <2> QED BY <1>3, <2>5, <2>6, <2>7 DEF Timed
<1> QED BY <1>4, <1>5, <1>6 DEF q

LEMMA TimedRun ==
    ASSUME NEW segs \in Seq(Segment), NEW takes \in Seq(Nat \ {0}), NEW st, NEW fmt \in Format,
           NEW n \in Nat, AllOnBeat(segs, st, fmt, n)
    PROVE  Timed(Chunks(segs, takes, fmt), st, fmt, n)
<1> DEFINE N == Len(takes)
<1>1. PICK run : Cut(run, segs, takes, fmt) /\ Chunks(segs, takes, fmt) = run[N]
  BY CutRun
<1>2. /\ N \in Nat /\ run[0] = CutStart(segs)
      /\ \A k \in 1 .. N : run[k] = Consume(run[k - 1], takes[k], fmt) /\ takes[k] \in Nat \ {0}
  BY <1>1 DEF Cut
<1> DEFINE T == {k \in Nat : k <= N => Timed(run[k], st, fmt, n)}
<1>3. 0 \in T
  <2> DEFINE c == CutStart(segs)
  <2>1. c \in Cutting /\ c.segs = segs /\ c.chunks = <<>>
    BY DEF CutStart, Cutting
  <2> HIDE DEF c
  <2>2. Len(c.chunks) = 0 /\ n + 0 = n
    BY <2>1
  <2>3. Timed(c, st, fmt, n)
    BY <2>1, <2>2 DEF Timed, AllOnTime
  <2> QED BY <1>2, <2>3 DEF c
<1>4. \A k \in Nat : k \in T => k + 1 \in T
  <2> SUFFICES ASSUME NEW k \in Nat, k \in T, k + 1 <= N
               PROVE  Timed(run[k + 1], st, fmt, n)
    OBVIOUS
  <2>1. k + 1 \in 1 .. N /\ (k + 1) - 1 = k /\ Timed(run[k], st, fmt, n)
    BY <1>2
  <2>2. run[k + 1] = Consume(run[k], takes[k + 1], fmt) /\ takes[k + 1] \in Nat \ {0}
    BY <1>2, <2>1
  <2> HIDE DEF T, N
  <2> QED BY <2>1, <2>2, TimedStep
<1>5. Nat \subseteq T
  <2> HIDE DEF T
  <2> QED BY <1>3, <1>4, Induction
<1>6. Timed(run[N], st, fmt, n)
  BY <1>2, <1>5
<1> QED BY <1>1, <1>6

-----------------------------------------------------------------------------
(* The datagrams of a write, and what they leave. *)

AllSent(o, st, fmt, n) == \A e \in 1 .. Len(o) : AllOnTime(o[e], st, fmt, n)

Drawing(d, st, fmt) ==
    d \in Draining /\ AllOnBeat(d.segs, st, fmt, d.seq) /\ AllSent(d.out, st, fmt, d.seq)

LEMMA DrawingStep ==
    ASSUME sizing \in Sizing, NEW d, NEW st, NEW fmt \in Format, Drawing(d, st, fmt)
    PROVE  Drawing(DrainStep(d, fmt), st, fmt)
<1> DEFINE ch == fmt.channels
           plan == Plan(d.segs, ch)
           made == Chunks(d.segs, plan.takes, fmt)
           q == DrainStep(d, fmt)
<1>1. /\ d \in Draining /\ d.segs \in Seq(Segment) /\ d.out \in Seq(Seq(Segment)) /\ d.seq \in Nat
      /\ AllOnBeat(d.segs, st, fmt, d.seq) /\ AllSent(d.out, st, fmt, d.seq)
  BY DEF Drawing, Draining
<1>2. plan.takes \in Seq(Nat \ {0})
  <2> DEFINE N == PlanSteps(d.segs)
  <2>1. ch \in Nat \ {0}
    BY DEF Format
  <2> HIDE DEF ch, plan
  <2>2. PICK run : Planned(run, d.segs, ch) /\ plan = run[N]
    BY <1>1, <2>1, PlanRun DEF plan
  <2>3. N \in Nat
    BY <1>1 DEF PlanSteps, Sizing
  <2>4. N \in 0 .. N
    <3> HIDE DEF N
    <3> QED BY <2>3
  <2>5. plan \in Planning(d.segs)
    BY <2>2, <2>4 DEF Planned
  <2> QED BY <2>5 DEF Planning
<1>3. q \in Draining
  BY <1>1, DrainStepType
<1> DEFINE k == Append(d.out, made.chunks)
           e == d.seq + Len(made.chunks)
<1>4. \/ q = d
      \/ q = [d EXCEPT !.panic = TRUE]
      \/ q = [d EXCEPT !.out = k, !.segs = made.segs, !.seq = e]
  BY DEF DrainStep
<1> HIDE DEF plan, q
<1>5. Timed(made, st, fmt, d.seq)
  BY <1>1, <1>2, TimedRun
<1> HIDE DEF made
<1>6. CASE q = d \/ q = [d EXCEPT !.panic = TRUE]
  <2>1. q.segs = d.segs /\ q.out = d.out /\ q.seq = d.seq
    BY <1>1, <1>6 DEF Draining
  <2> QED BY <1>1, <1>3, <2>1 DEF Drawing, q
<1>7. CASE q = [d EXCEPT !.out = k, !.segs = made.segs, !.seq = e]
  <2>1. /\ made.chunks \in Seq(Segment) /\ AllOnBeat(made.segs, st, fmt, e)
        /\ AllOnTime(made.chunks, st, fmt, e)
    BY <1>5 DEF Timed, Cutting
  <2>2. e \in Nat /\ d.seq <= e
    BY <1>1, <2>1
  <2> HIDE DEF k, e
  <2>3. q.segs = made.segs /\ q.out = k /\ q.seq = e
    BY <1>1, <1>7 DEF Draining
  <2>4. AllSent(k, st, fmt, e)
    <3> SUFFICES ASSUME NEW i \in 1 .. Len(k)
                 PROVE  AllOnTime(k[i], st, fmt, e)
      BY DEF AllSent
    <3>1. \/ i = Len(d.out) + 1 /\ k[i] = made.chunks
          \/ i \in 1 .. Len(d.out) /\ k[i] = d.out[i]
      BY <1>1, <2>1 DEF k
    <3>2. CASE i = Len(d.out) + 1 /\ k[i] = made.chunks
      BY <2>1, <3>2
    <3>3. CASE i \in 1 .. Len(d.out) /\ k[i] = d.out[i]
      <4>1. d.out[i] \in Seq(Segment) /\ AllOnTime(d.out[i], st, fmt, d.seq)
        BY <1>1, <3>3 DEF AllSent
      <4> QED BY <1>1, <2>2, <3>3, <4>1, AllOnTimeLater
    <3> QED BY <3>1, <3>2, <3>3
  <2> QED BY <1>3, <2>1, <2>3, <2>4 DEF Drawing, q
<1> QED BY <1>4, <1>6, <1>7 DEF q

LEMMA DrawingRun ==
    ASSUME sizing \in Sizing, NEW segs \in Seq(Segment), NEW st, NEW fmt \in Format,
           IsFiniteSet(Samples(segs)), next_seq \in Nat, AllOnBeat(segs, st, fmt, next_seq)
    PROVE  Drawing(Drain(segs, fmt), st, fmt)
<1> DEFINE N == Cardinality(Samples(segs))
<1>1. PICK run : Drained(run, segs, fmt) /\ Drain(segs, fmt) = run[N]
  BY DrainRun
<1>2. /\ N \in Nat /\ run[0] = DrainStart(segs)
      /\ \A k \in 1 .. N : run[k] = DrainStep(run[k - 1], fmt)
  BY <1>1, FS_CardinalityType DEF Drained
<1> HIDE DEF N
<1> DEFINE T == {k \in Nat : k <= N => Drawing(run[k], st, fmt)}
<1>3. 0 \in T
  <2> DEFINE d == DrainStart(segs)
  <2>1. d \in Draining /\ d.segs = segs /\ d.out = <<>> /\ d.seq = next_seq
    BY DEF DrainStart, Draining
  <2> HIDE DEF d
  <2>2. Drawing(d, st, fmt)
    BY <2>1 DEF Drawing, AllSent
  <2> QED BY <1>2, <2>2 DEF d
<1>4. \A k \in Nat : k \in T => k + 1 \in T
  <2> SUFFICES ASSUME NEW k \in Nat, k \in T, k + 1 <= N
               PROVE  Drawing(run[k + 1], st, fmt)
    OBVIOUS
  <2>1. k + 1 \in 1 .. N /\ (k + 1) - 1 = k /\ Drawing(run[k], st, fmt)
    BY <1>2
  <2>2. run[k + 1] = DrainStep(run[k], fmt)
    BY <1>2, <2>1
  <2> HIDE DEF T
  <2> QED BY <2>1, <2>2, DrawingStep
<1>5. Nat \subseteq T
  <2> HIDE DEF T
  <2> QED BY <1>3, <1>4, Induction
<1>6. Drawing(run[N], st, fmt)
  BY <1>2, <1>5
<1> QED BY <1>1, <1>6

-----------------------------------------------------------------------------
(* New material. *)

(* Material put at g that extends a segment of F frames begun at b, which  *)
(* ends there but for a beat.                                              *)
LEMMA Joined ==
    ASSUME NEW b \in Int, NEW d \in Nat, NEW R \in Int, NEW F \in Int, NEW g \in Int,
           NEW r \in Int, NEW f \in Int, NEW s \in Int, b + R - g \in -1 .. 1,
           Within(R * d - F * s, d), Within(r * d - f * s, d)
    PROVE  Within(b * d + (F + f) * s - (g + r) * d, d * 4)
<1> DEFINE bd == b * d
           Rd == R * d
           gd == g * d
           rd == r * d
           Fs == F * s
           fs == f * s
<1>1. (F + f) * s = Fs + fs /\ (g + r) * d = gd + rd /\ d * 4 = 4 * d
  OBVIOUS
<1>2. bd + Rd - gd \in -d .. d
  <2>1. (b + R - g) * d = bd + Rd - gd
    OBVIOUS
  <2>2. b + R - g = -1 \/ b + R - g = 0 \/ b + R - g = 1
    OBVIOUS
  <2>3. (-1) * d = -d /\ 0 * d = 0 /\ 1 * d = d
    OBVIOUS
  <2> DEFINE e == b + R - g
             w == bd + Rd - gd
  <2>4. w = e * d /\ (e = -1 \/ e = 0 \/ e = 1)
    BY <2>1, <2>2
  <2> HIDE DEF w, e
  <2>5. w = -d \/ w = 0 \/ w = d
    BY <2>3, <2>4
  <2>6. w \in -d .. d
    BY <2>5
  <2> QED BY <2>6 DEF w
<1>3. bd \in Int /\ Rd \in Int /\ gd \in Int /\ rd \in Int /\ Fs \in Int /\ fs \in Int
  OBVIOUS
<1>4. Within(Rd - Fs, d) /\ Within(rd - fs, d)
  OBVIOUS
<1> HIDE DEF bd, Rd, gd, rd, Fs, fs
<1>5. Within(bd + (Fs + fs) - (gd + rd), 4 * d)
  BY <1>2, <1>3, <1>4 DEF Within
<1> QED BY <1>1, <1>5 DEF bd

Fresh(n, fmt, begin) ==
    [i \in 1 .. n |->
        [tempo |-> tempo, whole |-> n % fmt.channels = 0, seq |-> next_seq,
         beat |-> begin + FrameBeats((i - 1) \div fmt.channels, fmt.rate, tempo)]]

LEMMA FreshIs ==
    ASSUME NEW n \in Nat, NEW fmt \in Format, NEW begin \in Int,
           tempo \in Tempos, next_seq \in Nat, stamps \in Seq(Stamp)
    PROVE  LET st == stamps \o Fresh(n, fmt, begin)
               m == Len(stamps)
           IN  /\ st \in Seq(Stamp) /\ Len(st) = m + n /\ m \in Nat
               /\ \A v \in 1 .. m : st[v] = stamps[v]
               /\ \A i \in 1 .. n : /\ st[m + i] = Fresh(n, fmt, begin)[i]
                                    /\ st[m + i] \in Stamp
<1> DEFINE new == Fresh(n, fmt, begin)
           m == Len(stamps)
           st == stamps \o new
<1>1. ASSUME NEW i \in 1 .. n
      PROVE  new[i] \in Stamp
  <2> DEFINE ch == fmt.channels
             f == (i - 1) \div ch
  <2>1. ch \in Nat \ {0} /\ fmt.rate \in Nat \ {0}
    BY DEF Format
  <2>2. f \in Nat
    <3> HIDE DEF ch
    <3> QED BY <2>1
  <2>3. new[i] = [tempo |-> tempo, whole |-> n % fmt.channels = 0, seq |-> next_seq,
                  beat |-> begin + FrameBeats(f, fmt.rate, tempo)]
    BY DEF Fresh
  <2> HIDE DEF f, new
  <2>4. FrameBeats(f, fmt.rate, tempo) \in Int
    BY <2>1, <2>2, FrameBeatsInt
  <2>5. begin + FrameBeats(f, fmt.rate, tempo) \in Int
    BY <2>4
  <2> QED BY <2>3, <2>5 DEF Stamp
<1>2. new \in [1 .. n -> Stamp]
  <2>1. new = [i \in 1 .. n |-> new[i]]
    BY DEF Fresh
  <2> HIDE DEF new
  <2> QED BY <1>1, <2>1
<1> HIDE DEF new
<1>3. new \in Seq(Stamp) /\ Len(new) = n /\ m \in Nat
  BY <1>2
<1>4. /\ st \in Seq(Stamp) /\ Len(st) = m + Len(new)
      /\ \A i \in 1 .. m : st[i] = stamps[i]
      /\ \A i \in 1 .. m + Len(new) : i > m => st[i] = new[i - m]
  BY <1>3, ConcatIs
<1> HIDE DEF st, m
<1>5. ASSUME NEW i \in 1 .. n
      PROVE  st[m + i] = new[i] /\ st[m + i] \in Stamp
  <2>1. m + i \in 1 .. m + Len(new) /\ m + i > m /\ (m + i) - m = i
    BY <1>3
  <2> QED BY <1>1, <1>4, <2>1
<1> QED BY <1>3, <1>4, <1>5 DEF st, m, new

(* Samples written before keep their stamps. *)
LEMMA OldOnBeat ==
    ASSUME NEW x, NEW st, NEW old, NEW m, NEW fmt, NEW n, OnBeat(x, old, fmt, n),
           \A v \in 1 .. m : st[v] = old[v],
           \A i \in DOMAIN x.data : x.data[i] \in 1 .. m
    PROVE  OnBeat(x, st, fmt, n)
<1>1. \A i \in DOMAIN x.data : st[x.data[i]] = old[x.data[i]]
  OBVIOUS
<1> QED BY <1>1, Zenon DEF OnBeat

(* A sample of the write at place j of a segment of its tempo that ends    *)
(* where it begins.                                                        *)
LEMMA NewAt ==
    ASSUME NEW n \in Nat, NEW fmt \in Format, NEW begin \in Int, tempo \in Tempos, next_seq \in Nat,
           NEW b \in Int, NEW F \in Nat, b + FrameBeats(F, fmt.rate, tempo) - begin \in -1 .. 1,
           NEW i \in 1 .. n
    PROVE  LET s == Fresh(n, fmt, begin)[i]
               d == fmt.rate * tempo
               f == (F * fmt.channels + i - 1) \div fmt.channels
           IN  /\ tempo = s.tempo
               /\ Within(b * d + f * Scale - s.beat * d, d * (4 + (next_seq - s.seq)))
<1> DEFINE s == Fresh(n, fmt, begin)[i]
           d == fmt.rate * tempo
           ch == fmt.channels
           m == F * ch
           f == (i - 1) \div ch
           g == (m + i - 1) \div ch
           R == FrameBeats(F, fmt.rate, tempo)
           r == FrameBeats(f, fmt.rate, tempo)
<1>1. ch \in Nat \ {0} /\ fmt.rate \in Nat \ {0} /\ i \in Nat \ {0}
  BY DEF Format
<1>2. s.tempo = tempo /\ s.seq = next_seq /\ s.beat = begin + r
  BY DEF Fresh
<1> HIDE DEF ch, s
<1>3. m \in Nat /\ f \in Nat
  BY <1>1
<1>4. g = F + f
  <2> DEFINE L == m + i - 1
  <2>1. L \in Nat /\ m <= L /\ L - m = i - 1
    <3> HIDE DEF m
    <3> QED BY <1>1, <1>3
  <2> HIDE DEF L
  <2>2. (L - F * ch) \div ch = (L \div ch) - F /\ L \div ch \in Int
    <3>1. L \in Nat /\ ch \in Nat \ {0} /\ F \in Nat /\ F * ch <= L
      BY <1>1, <2>1
    <3>2. (L - F * ch) \div ch = (L \div ch) - F
      BY ONLY <3>1, FramesLeft
    <3>3. L \div ch \in Int
      BY ONLY <3>1
    <3> QED BY <3>2, <3>3
  <2>3. f = (L \div ch) - F
    BY <2>1, <2>2
  <2>4. f = g - F /\ g \in Int
    BY <2>2, <2>3 DEF L
  <2> HIDE DEF f, g
  <2> QED BY <1>3, <2>4
<1> HIDE DEF f, g
<1>5. /\ d \in Nat /\ R \in Int /\ Within(R * d - F * Scale, d)
      /\ r \in Int /\ Within(r * d - f * Scale, d)
  BY <1>1, <1>3, FrameErr DEF Within
<1>6. Scale \in Int /\ f \in Int /\ F \in Int
  BY <1>3, SinkAssumption
<1>7. b + R - begin \in -1 .. 1
  OBVIOUS
<1> HIDE DEF R, r, d
<1>8. Within(b * d + (F + f) * Scale - (begin + r) * d, d * 4)
  BY <1>5, <1>6, <1>7, Joined
<1>9. 4 + (next_seq - s.seq) = 4
  BY <1>2
<1> QED BY <1>2, <1>4, <1>8, <1>9 DEF s, d, g, m, ch

(* The write's context: n samples of whole frames at beat begin, and the   *)
(* stamps st after it.                                                     *)
Puts(st, n, fmt, begin) ==
    /\ n \in Nat /\ fmt \in Format /\ begin \in Int
    /\ tempo \in Tempos /\ next_seq \in Nat /\ stamps \in Seq(Stamp)
    /\ st = stamps \o Fresh(n, fmt, begin)
    /\ \E k \in Nat : n = k * fmt.channels

(* The segment x, of F whole frames that end where the write begins, with  *)
(* the write behind them.                                                  *)
LEMMA GrownOnBeat ==
    ASSUME NEW st, NEW n, NEW fmt, NEW begin, Puts(st, n, fmt, begin),
           NEW x \in Segment, NEW F \in Nat, Len(x.data) = F * fmt.channels, x.tempo = tempo,
           OnBeat(x, st, fmt, next_seq),
           x.begin + FrameBeats(F, fmt.rate, tempo) - begin \in -1 .. 1,
           NEW z \in Segment, z.begin = x.begin, z.tempo = x.tempo,
           z.data = x.data \o Data(Len(stamps), n)
    PROVE  Whole(z, fmt.channels) /\ OnBeat(z, st, fmt, next_seq)
<1> DEFINE m == Len(stamps)
           ch == fmt.channels
           L == F * ch
           old == x.data
           d == Data(m, n)
           new == old \o d
<1>1. /\ n \in Nat /\ fmt \in Format /\ begin \in Int /\ tempo \in Tempos /\ next_seq \in Nat
      /\ stamps \in Seq(Stamp) /\ st = stamps \o Fresh(n, fmt, begin) /\ m \in Nat
  BY DEF Puts
<1>2. ch \in Nat \ {0} /\ old \in Seq(Nat) /\ x.begin \in Int /\ Len(old) = L
  BY <1>1 DEF Format, Segment
<1>3. L \in Nat
  <2> HIDE DEF ch
  <2> QED BY <1>2
<1>4. d \in Seq(Nat) /\ Len(d) = n /\ \A i \in 1 .. n : d[i] = m + i
  BY <1>1, DataIs
<1> HIDE DEF d, L, old
<1>5. /\ new \in Seq(Nat) /\ Len(new) = L + n /\ DOMAIN new = 1 .. L + n
      /\ \A i \in 1 .. L : new[i] = old[i]
      /\ \A i \in 1 .. L + n : i > L => new[i] = d[i - L]
  <2>1. /\ new \in Seq(Nat) /\ Len(new) = Len(old) + Len(d)
        /\ \A i \in 1 .. Len(old) : new[i] = old[i]
        /\ \A i \in 1 .. Len(old) + Len(d) : i > Len(old) => new[i] = d[i - Len(old)]
    BY <1>2, <1>4, ConcatIs
  <2> HIDE DEF new
  <2>2. DOMAIN new = 1 .. Len(new)
    BY <2>1
  <2> QED BY <1>2, <1>4, <2>1, <2>2
<1>6. z.data = new
  BY DEF new, old, d
<1> HIDE DEF new
<1>7. Whole(z, ch)
  <2>1. PICK k \in Nat : n = k * ch
    BY DEF Puts
  <2> HIDE DEF ch
  <2>2. (F + k) * ch = L + n /\ F + k \in Nat
    BY <1>2, <2>1 DEF L
  <2> QED BY <1>5, <1>6, <2>2 DEF Whole
<1>8. ASSUME NEW i \in DOMAIN z.data
      PROVE  LET s == st[z.data[i]]
                 e == fmt.rate * z.tempo
                 f == (i - 1) \div fmt.channels
             IN  /\ s \in Stamp /\ z.tempo = s.tempo
                 /\ Within(z.begin * e + f * Scale - s.beat * e, e * (4 + (next_seq - s.seq)))
  <2>1. i \in 1 .. L + n
    BY <1>5, <1>6
  <2>2. CASE i > L
    <3> DEFINE j == i - L
               s == Fresh(n, fmt, begin)[j]
               e == fmt.rate * tempo
               f == (i - 1) \div ch
    <3>1. j \in 1 .. n /\ L + j - 1 = i - 1
      BY <1>1, <1>3, <2>1, <2>2
    <3>2. z.data[i] = m + j
      BY <1>4, <1>5, <1>6, <2>1, <2>2, <3>1
    <3> HIDE DEF j
    <3>3. st[m + j] = s /\ st[m + j] \in Stamp
      <4>1. LET v == stamps \o Fresh(n, fmt, begin)
                l == Len(stamps)
            IN  \A k \in 1 .. n : /\ v[l + k] = Fresh(n, fmt, begin)[k]
                                  /\ v[l + k] \in Stamp
        BY <1>1, FreshIs
      <4> HIDE DEF s
      <4> QED BY <1>1, <3>1, <4>1 DEF s
    <3>4. /\ tempo = s.tempo
          /\ Within(x.begin * e + f * Scale - s.beat * e, e * (4 + (next_seq - s.seq)))
      <4> DEFINE g == (F * fmt.channels + j - 1) \div fmt.channels
      <4>1. /\ tempo = s.tempo
            /\ Within(x.begin * e + g * Scale - s.beat * e, e * (4 + (next_seq - s.seq)))
        BY <1>1, <1>2, <3>1, NewAt
      <4>2. g = f
        BY <3>1 DEF L
      <4> HIDE DEF g, f, s, e
      <4> QED BY <4>1, <4>2
    <3>5. st[z.data[i]] = s /\ s \in Stamp /\ z.tempo = tempo /\ z.begin = x.begin
      BY <3>2, <3>3
    <3> HIDE DEF s
    <3> QED BY <3>4, <3>5
  <2>3. CASE ~(i > L)
    <3>1. i \in 1 .. L /\ i \in DOMAIN x.data
      BY <1>2, <1>3, <2>1, <2>3 DEF old
    <3>2. z.data[i] = x.data[i]
      BY <1>5, <1>6, <3>1 DEF old
    <3> QED BY <3>1, <3>2 DEF OnBeat
  <2> QED BY <2>2, <2>3
<1>9. OnBeat(z, st, fmt, next_seq)
  BY <1>8, Zenon DEF OnBeat
<1> QED BY <1>7, <1>9

(* A segment of the write alone. *)
LEMMA AloneOnBeat ==
    ASSUME NEW st, NEW n, NEW fmt, NEW begin, Puts(st, n, fmt, begin),
           NEW z \in Segment, z.begin = begin, z.tempo = tempo, z.data = Data(Len(stamps), n)
    PROVE  Whole(z, fmt.channels) /\ OnBeat(z, st, fmt, next_seq)
<1> DEFINE x == [begin |-> begin, tempo |-> tempo, data |-> <<>>]
           d == Data(Len(stamps), n)
<1>1. /\ n \in Nat /\ fmt \in Format /\ begin \in Int /\ tempo \in Tempos /\ Len(stamps) \in Nat
      /\ fmt.rate \in Nat \ {0} /\ fmt.channels \in Nat \ {0}
  BY DEF Puts, Format
<1>2. x \in Segment /\ x.begin = begin /\ x.tempo = tempo /\ x.data = <<>>
  BY <1>1 DEF Segment
<1>3. d \in Seq(Nat)
  BY <1>1, DataIs
<1> HIDE DEF x, d
<1>4. Len(x.data) = 0 /\ DOMAIN x.data = {} /\ x.data \o d = d /\ 0 \in Nat
  BY <1>2, <1>3
<1>5. OnBeat(x, st, fmt, next_seq)
  BY <1>4 DEF OnBeat
<1>6. Len(x.data) = 0 * fmt.channels
  BY <1>1, <1>4
<1>7. x.begin + FrameBeats(0, fmt.rate, tempo) - begin \in -1 .. 1
  <2> DEFINE D == fmt.rate * tempo
             r == FrameBeats(0, fmt.rate, tempo)
  <2>1. r = 0
    <3>1. D \in Nat \ {0} /\ 0 * Scale = 0
      <4>1. 0 \in Nat /\ Scale \in Nat
        BY SinkAssumption
      <4>2. D \in Nat \ {0}
        BY <1>1, <4>1, FrameErr
      <4> HIDE DEF D
      <4> QED BY <4>1, <4>2
    <3>2. r = RoundDiv(0, D)
      BY <3>1 DEF FrameBeats
    <3> HIDE DEF D, r
    <3>3. (0 + D \div 2) \div D = 0
      <4> DEFINE h == D \div 2
      <4>1. h \in Nat /\ h < D
        BY <3>1
      <4> HIDE DEF h
      <4>2. (0 + h) \div D = 0
        BY <3>1, <4>1
      <4> QED BY <4>2 DEF h
    <3> QED BY <3>2, <3>3 DEF RoundDiv
  <2> QED BY <1>1, <1>2, <2>1
<1>8. z.begin = x.begin /\ z.tempo = x.tempo /\ z.data = x.data \o Data(Len(stamps), n)
  BY <1>2, <1>4 DEF d
<1> QED BY <1>2, <1>4, <1>5, <1>6, <1>7, <1>8, GrownOnBeat

LEMMA WrittenOnBeat ==
    ASSUME NEW segs \in Seq(Segment), NEW st, NEW n, NEW fmt, NEW begin, Puts(st, n, fmt, begin),
           Samples(segs) \subseteq 1 .. Len(stamps), AllOnBeat(segs, stamps, fmt, next_seq)
    PROVE  AllOnBeat(Appended(segs, fmt, begin, Data(Len(stamps), n)), st, fmt, next_seq)
<1> DEFINE m == Len(stamps)
           ch == fmt.channels
           d == Data(m, n)
           N == Len(segs)
           y == [begin |-> begin, tempo |-> tempo, data |-> d]
           w == Appended(segs, fmt, begin, d)
<1>1. /\ n \in Nat /\ fmt \in Format /\ begin \in Int /\ tempo \in Tempos /\ next_seq \in Nat
      /\ stamps \in Seq(Stamp) /\ st = stamps \o Fresh(n, fmt, begin) /\ m \in Nat /\ N \in Nat
      /\ ch \in Nat \ {0}
  BY DEF Puts, Format
<1>2. \A v \in 1 .. m : st[v] = stamps[v]
  <2>1. LET v == stamps \o Fresh(n, fmt, begin)
            l == Len(stamps)
        IN  \A k \in 1 .. l : v[k] = stamps[k]
    BY <1>1, FreshIs
  <2> QED BY <1>1, <2>1
<1>3. d \in Seq(Nat)
  BY <1>1, DataIs
<1>4. ASSUME NEW k \in 1 .. N
      PROVE  segs[k] \in Segment /\ Whole(segs[k], ch) /\ OnBeat(segs[k], st, fmt, next_seq)
  <2> DEFINE x == segs[k]
  <2>1. x \in Segment /\ Whole(x, ch) /\ OnBeat(x, stamps, fmt, next_seq)
    BY SegType DEF AllOnBeat
  <2>2. \A i \in DOMAIN x.data : x.data[i] \in 1 .. m
    <3> TAKE i \in DOMAIN x.data
    <3>1. i \in 1 .. Len(segs[k].data)
      BY SegType
    <3>2. segs[k].data[i] \in Samples(segs)
      BY <3>1, AtSample
    <3> QED BY <3>2
  <2> HIDE DEF x
  <2>3. OnBeat(x, st, fmt, next_seq)
    BY <1>2, <2>1, <2>2, OldOnBeat
  <2> QED BY <2>1, <2>3 DEF x
<1> HIDE DEF d
<1>5. CASE w = Append(segs, y)
  <2>1. y \in Segment /\ y.begin = begin /\ y.tempo = tempo /\ y.data = d
    BY <1>1, <1>3 DEF Segment
  <2> HIDE DEF y, w
  <2>2. Whole(y, ch) /\ OnBeat(y, st, fmt, next_seq)
    BY <2>1, AloneOnBeat DEF d
  <2> SUFFICES ASSUME NEW k \in 1 .. Len(w)
               PROVE  Whole(w[k], fmt.channels) /\ OnBeat(w[k], st, fmt, next_seq)
    BY DEF AllOnBeat, w, d
  <2>3. \/ k \in 1 .. N /\ w[k] = segs[k]
        \/ w[k] = y
    BY <1>1, <1>5, <2>1
  <2> QED BY <1>4, <2>2, <2>3
<1>6. CASE /\ segs # <<>> /\ Contiguous(segs[Len(segs)], fmt, begin)
           /\ w = [segs EXCEPT ![Len(segs)].data = @ \o d]
  <2> DEFINE x == segs[N]
             new == x.data \o d
             z == [x EXCEPT !.data = new]
             F == Frames(x, ch)
  <2>1. N \in 1 .. N
    BY <1>1, <1>6
  <2>2. x \in Segment /\ Whole(x, ch) /\ OnBeat(x, st, fmt, next_seq)
    BY <1>4, <2>1
  <2>3. PICK t \in Nat : Len(x.data) = t * ch
    BY <2>2 DEF Whole
  <2> HIDE DEF x, ch
  <2>4. F = t
    BY <1>1, <2>3, FramesExact
  <2>5. x.tempo = tempo /\ x.begin + FrameBeats(t, fmt.rate, tempo) - begin \in -1 .. 1
    BY <1>6, <2>4 DEF Contiguous, x, ch
  <2> HIDE DEF F
  <2>6. new \in Seq(Nat)
    BY <1>3, <2>2 DEF Segment
  <2> HIDE DEF new
  <2>7. z \in Segment /\ z.begin = x.begin /\ z.tempo = x.tempo /\ z.data = new
    BY <2>2, <2>6 DEF Segment
  <2> HIDE DEF z
  <2>8. Whole(z, ch) /\ OnBeat(z, st, fmt, next_seq)
    <3>1. Len(x.data) = t * fmt.channels
      BY <2>3 DEF ch
    <3>2. z.data = x.data \o Data(Len(stamps), n)
      BY <2>7 DEF new, d
    <3> QED BY <2>2, <2>5, <2>7, <3>1, <3>2, GrownOnBeat DEF ch
  <2>9. w = [segs EXCEPT ![N] = z]
    BY <1>6 DEF z, new, x
  <2> HIDE DEF w, N
  <2>10. Len(w) = N /\ w[N] = z /\ \A k \in 1 .. N : k # N => w[k] = segs[k]
    BY <2>1, <2>7, <2>9 DEF N
  <2> SUFFICES ASSUME NEW k \in 1 .. Len(w)
               PROVE  Whole(w[k], fmt.channels) /\ OnBeat(w[k], st, fmt, next_seq)
    BY DEF AllOnBeat, w, d
  <2> QED BY <1>4, <2>8, <2>10 DEF ch
<1>7. \/ w = Append(segs, y)
      \/ /\ segs # <<>> /\ Contiguous(segs[Len(segs)], fmt, begin)
         /\ w = [segs EXCEPT ![Len(segs)].data = @ \o d]
  BY DEF Appended
<1>8. AllOnBeat(w, st, fmt, next_seq)
  BY <1>5, <1>6, <1>7 DEF w, d
<1> QED BY <1>8 DEF w, d

(* Of an application that writes whole frames, what is pending and what    *)
(* was sent is on its beat but for rounding.                               *)
BeatInv ==
    /\ SinkInv
    /\ (\A s \in DOMAIN stamps : stamps[s].whole) =>
          /\ AllOnBeat(segments, stamps, format, next_seq)
          /\ AllSent(out, stamps, format, next_seq)

LEMMA WriteOnBeat ==
    ASSUME BeatInv, NEW n \in WriteSizes, NEW fmt \in Formats, NEW begin \in Int,
           WriteSink(n, fmt, begin), \A s \in DOMAIN stamps' : stamps'[s].whole
    PROVE  /\ AllOnBeat(segments', stamps', format', next_seq')
           /\ AllSent(out', stamps', format', next_seq')
<1> DEFINE m == Len(stamps)
           st == stamps \o Fresh(n, fmt, begin)
           kept == KeptFormat(fmt)
           w == Appended(kept, fmt, begin, Data(m, n))
           d == Drain(w, fmt)
<1>1. /\ SinkInv /\ sizing \in Sizing /\ fmt \in Format /\ n \in Nat /\ m \in Nat
      /\ tempo \in Tempos /\ stamps \in Seq(Stamp) /\ next_seq \in Nat
      /\ segments \in Seq(Segment) /\ Samples(segments) \subseteq 1 .. m
  BY SinkAssumption DEF BeatInv, SinkInv, SinkTypes, Sizing, Format
<1>2. /\ format' = fmt /\ stamps' = st
      /\ \/ segments' = d.segs /\ out' = d.out /\ next_seq' = d.seq
         \/ segments' = <<>> /\ out' = <<>>
  BY DEF WriteSink, Data, Fresh
<1>3. /\ Len(st) = m + n /\ DOMAIN st = 1 .. m + n
      /\ \A v \in 1 .. m : st[v] = stamps[v]
      /\ \A i \in 1 .. n : st[m + i] = Fresh(n, fmt, begin)[i]
  <2>1. LET v == stamps \o Fresh(n, fmt, begin)
            l == Len(stamps)
        IN  /\ v \in Seq(Stamp) /\ Len(v) = l + n /\ l \in Nat
            /\ \A k \in 1 .. l : v[k] = stamps[k]
            /\ \A i \in 1 .. n : /\ v[l + i] = Fresh(n, fmt, begin)[i]
                                 /\ v[l + i] \in Stamp
    BY <1>1, FreshIs
  <2> HIDE DEF st
  <2>2. st \in Seq(Stamp) /\ Len(st) = m + n
    BY <2>1 DEF st
  <2>3. DOMAIN st = 1 .. m + n
    BY <2>2
  <2> QED BY <2>1, <2>2, <2>3 DEF st
<1> HIDE DEF st, m, kept, w, d
<1>4. /\ AllOnBeat(segments, stamps, format, next_seq)
  <2>1. \A s \in DOMAIN stamps : stamps[s].whole
    <3> TAKE s \in DOMAIN stamps
    <3>1. s \in 1 .. m /\ s \in 1 .. m + n
      BY <1>1 DEF m
    <3> QED BY <1>2, <1>3, <3>1
  <2> QED BY <2>1 DEF BeatInv
<1>5. \E k \in Nat : n = k * fmt.channels
  <2> DEFINE ch == fmt.channels
  <2>1. ch \in Nat \ {0}
    BY <1>1 DEF Format
  <2>2. n % ch = 0
    <3>1. CASE n = 0
      <4> HIDE DEF ch
      <4> QED BY <2>1, <3>1
    <3>2. CASE n # 0
      <4>1. 1 \in 1 .. n /\ m + 1 \in 1 .. m + n
        BY <1>1, <3>2
      <4>2. st[m + 1].whole
        BY <1>2, <1>3, <4>1
      <4>3. st[m + 1] = Fresh(n, fmt, begin)[1]
        BY <1>3, <4>1
      <4>4. Fresh(n, fmt, begin)[1].whole = (n % fmt.channels = 0)
        BY <4>1 DEF Fresh
      <4> QED BY <4>2, <4>3, <4>4
    <3> QED BY <3>1, <3>2
  <2> HIDE DEF ch
  <2>3. n = (n \div ch) * ch /\ n \div ch \in Nat
    BY <1>1, <2>1, <2>2
  <2> QED BY <2>3 DEF ch
<1>6. Puts(st, n, fmt, begin)
  BY <1>1, <1>5 DEF Puts, st
<1>7. /\ kept \in Seq(Segment) /\ Samples(kept) \subseteq 1 .. m
      /\ AllOnBeat(kept, stamps, fmt, next_seq)
  <2>1. CASE kept = segments /\ format = fmt
    BY <1>1, <1>4, <2>1
  <2>2. CASE kept = <<>>
    BY <2>2 DEF AllOnBeat, Samples
  <2> QED BY <2>1, <2>2 DEF kept, KeptFormat
<1>8. AllOnBeat(w, st, fmt, next_seq)
  BY <1>6, <1>7, WrittenOnBeat DEF w, m
<1>9. w \in Seq(Segment) /\ IsFiniteSet(Samples(w))
  <2>1. Extends(w, kept, fmt.channels, m, n) /\ Samples(w) \subseteq 1 .. m + n
    BY <1>1, WrittenIs DEF w, kept, m
  <2>2. IsFiniteSet(1 .. m + n)
    BY <1>1, FS_Interval
  <2> QED BY <2>1, <2>2, FS_Subset DEF Extends
<1>10. Drawing(d, st, fmt)
  BY <1>1, <1>8, <1>9, DrawingRun DEF d
<1>11. CASE segments' = d.segs /\ out' = d.out /\ next_seq' = d.seq
  BY <1>2, <1>10, <1>11 DEF Drawing
<1>12. CASE segments' = <<>> /\ out' = <<>>
  BY <1>12 DEF AllOnBeat, AllSent
<1> QED BY <1>2, <1>11, <1>12

LEMMA BeatStep == BeatInv /\ [Next]_vars => BeatInv'
<1> SUFFICES ASSUME BeatInv, [Next]_vars PROVE BeatInv'
  OBVIOUS
<1>1. SinkInv /\ SinkInv'
  BY SinkStep DEF BeatInv
<1>2. CASE UNCHANGED <<segments, format, next_seq, stamps, out>>
  BY <1>1, <1>2 DEF BeatInv
<1>3. CASE Writes
  <2>1. PICK n \in WriteSizes, fmt \in Formats, begin \in Int : WriteSink(n, fmt, begin)
    BY <1>1, <1>3, WritesIs
  <2>2. (\A s \in DOMAIN stamps' : stamps'[s].whole) =>
           /\ AllOnBeat(segments', stamps', format', next_seq')
           /\ AllSent(out', stamps', format', next_seq')
    BY <2>1, WriteOnBeat
  <2> QED BY <1>1, <2>2 DEF BeatInv
<1> QED BY <1>2, <1>3 DEF Next, RequesterComes, RequestersGone, TempoChanges, vars

(* Of an application that writes whole frames, every frame sent is where   *)
(* it was put, at the tempo it was written in, but for two beats and half  *)
(* of one for each chunk drawn since (write_sink's contiguity,             *)
(* drain_datagrams' splits).                                               *)
THEOREM AlwaysChunksOnBeat == Spec => []ChunksOnBeat
<1>1. Init => BeatInv
  <2> SUFFICES ASSUME Init PROVE BeatInv
    OBVIOUS
  <2>1. SinkInv /\ segments = <<>> /\ out = <<>>
    BY SinkInit DEF Init
  <2> QED BY <2>1 DEF BeatInv, AllOnBeat, AllSent
<1>2. BeatInv /\ [Next]_vars => BeatInv'
  BY BeatStep
<1>3. BeatInv => ChunksOnBeat
  <2> SUFFICES ASSUME BeatInv, \A s \in DOMAIN stamps : stamps[s].whole,
                      NEW d \in DOMAIN out, NEW k \in DOMAIN out[d], NEW i \in DOMAIN out[d][k].data
               PROVE  LET c == out[d][k]
                          stamp == stamps[c.data[i]]
                          at == c.begin + FrameBeats((i - 1) \div format.channels, format.rate, c.tempo)
                          off == 4 + (next_seq - stamp.seq)
                      IN  c.tempo = stamp.tempo /\ 2 * (at - stamp.beat) \in -off .. off
    BY Zenon DEF ChunksOnBeat
  <2>1. out \in Seq(Seq(Segment)) /\ AllSent(out, stamps, format, next_seq)
    BY DEF BeatInv, SinkInv, SinkTypes
  <2>2. d \in 1 .. Len(out) /\ out[d] \in Seq(Segment)
    BY <2>1
  <2>3. k \in 1 .. Len(out[d])
    BY <2>2
  <2>4. OnTime(out[d][k], stamps, format, next_seq)
    BY <2>1, <2>2, <2>3 DEF AllSent, AllOnTime
  <2> QED BY <2>4 DEF OnTime, HeardAt, Within
<1> QED BY <1>1, <1>2, <1>3, PTL DEF Spec
=============================================================================
