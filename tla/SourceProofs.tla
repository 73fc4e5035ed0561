---------------------------- MODULE SourceProofs ----------------------------
(***************************************************************************)
(* The loss counter of a Source never reports a loss that did not happen,  *)
(* and its inbox keeps what was delivered last, in the order of delivery,  *)
(* whatever the network does and however many chunks there are.            *)
(***************************************************************************)
EXTENDS Source, FiniteSetTheorems, SequenceTheorems, TLAPS

(* The chunks of a window that have not been heard. *)
Unheard(lo, e, H) == (lo .. (e - 1)) \ H

(* What is unheard of a window can be counted.                             *)
LEMMA UnheardFinite ==
    ASSUME NEW lo \in Nat, NEW e \in Nat, NEW H
    PROVE  IsFiniteSet(Unheard(lo, e, H)) /\ Cardinality(Unheard(lo, e, H)) \in Nat
<1>1. IsFiniteSet(lo .. (e - 1))
  BY FS_Interval
<1>2. IsFiniteSet(Unheard(lo, e, H))
  BY <1>1, FS_Subset DEF Unheard
<1> QED BY <1>2, FS_CardinalityType

(* Hearing chunks a .. b at or above the expected one leaves the gap.      *)
LEMMA GapCounted ==
    ASSUME NEW lo \in Nat, NEW e \in Nat, NEW a \in Nat, NEW b \in Nat, NEW H,
           lo < e, e <= a, a <= b, \A q \in H : q \in Nat /\ q < e
    PROVE  Cardinality(Unheard(lo, b + 1, H \cup (a .. b)))
             = Cardinality(Unheard(lo, e, H)) + Gap(e, a)
<1> DEFINE old == Unheard(lo, e, H)
           new == e .. (a - 1)
<1>1. Unheard(lo, b + 1, H \cup (a .. b)) = old \cup new
  BY DEF Unheard
<1>2. old \cap new = {}
  BY DEF Unheard
<1>3. IsFiniteSet(old) /\ Cardinality(old) \in Nat
  BY UnheardFinite
<1>4. IsFiniteSet(new) /\ Cardinality(new) = a - e
  BY FS_Interval
<1>5. Cardinality(old \cup new) = Cardinality(old) + Cardinality(new) - Cardinality(old \cap new)
  BY <1>3, <1>4, FS_Union
<1>6. Cardinality(old \cap new) = 0
  BY <1>2, FS_EmptySet
<1>7. Cardinality(old \cup new) = Cardinality(old) + (a - e)
  BY <1>3, <1>4, <1>5, <1>6
<1> QED BY <1>1, <1>7 DEF Gap

(* Hearing late chunks a .. b lowers what is missing by no more than their *)
(* number.                                                                 *)
LEMMA LateCounted ==
    ASSUME NEW lo \in Nat, NEW e \in Nat, NEW a \in Nat, NEW b \in Nat, NEW H,
           a <= b, b < e
    PROVE  Cardinality(Unheard(lo, e, H))
             <= Cardinality(Unheard(lo, e, H \cup (a .. b))) + (b - a + 1)
<1> DEFINE old == Unheard(lo, e, H)
           new == Unheard(lo, e, H \cup (a .. b))
           late == a .. b
<1>1. old \subseteq new \cup late
  BY DEF Unheard
<1>2. IsFiniteSet(old) /\ Cardinality(old) \in Nat /\ IsFiniteSet(new) /\ Cardinality(new) \in Nat
  BY UnheardFinite
<1>3. IsFiniteSet(late) /\ Cardinality(late) = b - a + 1
  BY FS_Interval
<1>4. IsFiniteSet(new \cup late)
      /\ Cardinality(new \cup late) = Cardinality(new) + Cardinality(late) - Cardinality(new \cap late)
  BY <1>2, <1>3, FS_Union
<1>5. Cardinality(new \cap late) \in Nat
  BY <1>3, FS_Intersection, FS_CardinalityType
<1>6. Cardinality(old) <= Cardinality(new \cup late)
  BY <1>1, <1>4, FS_Subset
<1> QED BY <1>2, <1>3, <1>4, <1>5, <1>6

(* Chunks a .. b of the window come late, and for the first time.           *)
LateOnce(lo, e, a, b, H) ==
    /\ lo \in Nat /\ e \in Nat /\ a \in Nat /\ b \in Nat
    /\ lo <= a /\ a <= b /\ b < e
    /\ (a .. b) \cap H = {}

(* They lower what is missing by exactly their number.                     *)
LEMMA LateCountedOnce ==
    ASSUME NEW lo, NEW e, NEW a, NEW b, NEW H, LateOnce(lo, e, a, b, H)
    PROVE  Cardinality(Unheard(lo, e, H))
             = Cardinality(Unheard(lo, e, H \cup (a .. b))) + (b - a + 1)
<1> DEFINE new == Unheard(lo, e, H \cup (a .. b))
           late == a .. b
<1>0. /\ lo \in Nat /\ e \in Nat /\ a \in Nat /\ b \in Nat
      /\ lo <= a /\ a <= b /\ b < e /\ (a .. b) \cap H = {}
  BY DEF LateOnce
<1>1. Unheard(lo, e, H) = new \cup late
  BY <1>0 DEF Unheard
<1>2. IsFiniteSet(new) /\ Cardinality(new) \in Nat
  BY <1>0, UnheardFinite
<1>3. IsFiniteSet(late) /\ Cardinality(late) = b - a + 1
  BY <1>0, FS_Interval
<1>4. new \cap late = {}
  BY <1>0 DEF Unheard
<1>5. Cardinality(new \cup late) = Cardinality(new) + Cardinality(late) - Cardinality(new \cap late)
  BY <1>2, <1>3, FS_Union
<1>6. Cardinality(new \cap late) = 0
  BY <1>4, FS_EmptySet
<1> QED BY <1>0, <1>1, <1>2, <1>3, <1>5, <1>6

-----------------------------------------------------------------------------
(* What the counter rests on: a subscription that has delivered something  *)
(* knows the window it counts in, and has heard nothing beyond it.         *)
Window ==
    /\ next_seq \in Nat /\ next_seq >= 1
    /\ pubSession \in Sessions
    /\ \A d \in sent : d \in Datagrams /\ d.first <= d.last
    /\ source = None => start = None /\ heard = {}
    /\ source # None =>
         /\ source \in Sources
         /\ start = None => /\ source.next_seq_expected = None
                            /\ source.lost_chunks = 0
                            /\ heard = {}
         /\ start # None => /\ start \in Nat
                            /\ source.next_seq_expected \in Nat
                            /\ start < source.next_seq_expected
                            /\ \A q \in heard : q \in Nat /\ q < source.next_seq_expected

(* The inductive invariant. *)
SInv == Window /\ LossNeverOverstated /\ LossExact

(* The inbox stays a sequence of chunk numbers (Push).                     *)
LEMMA PushType ==
    ASSUME NEW inbox \in Seq(Nat), NEW lo \in Nat, NEW hi \in Nat, lo <= hi
    PROVE  Push(inbox, lo, hi) \in Seq(Nat)
<1> DEFINE new == [i \in 1 .. (hi - lo + 1) |-> lo + i - 1]
           all == inbox \o new
<1>1. new \in Seq(Nat)
  <2>1. new \in [1 .. (hi - lo + 1) -> Nat]
    OBVIOUS
  <2> QED BY <2>1, SeqDef
<1>2. all \in Seq(Nat)
  BY <1>1
<1> HIDE DEF new
<1>3. ASSUME Len(all) > InboxLimit
      PROVE  SubSeq(all, Len(all) - InboxLimit + 1, Len(all)) \in Seq(Nat)
  BY <1>2, <1>3, SourceAssumption
<1> QED BY <1>2, <1>3, SourceAssumption DEF Push, new

-----------------------------------------------------------------------------
(* One datagram delivered. *)
LEMMA DeliverKeeps ==
    ASSUME SInv, source # None, NEW d \in Datagrams, d.first <= d.last,
           source' = Deliver(source, d),
           start' = IF start = None THEN d.first ELSE start,
           heard' = heard \cup (d.first .. d.last),
           ambiguous' = (ambiguous \/ Again(d)), sent' = sent,
           next_seq' = next_seq, pubSession' = pubSession
    PROVE  SInv'
<1> DEFINE e == source.next_seq_expected
           a == d.first
           b == d.last
           lost == source.lost_chunks
<1>1. a \in Nat /\ b \in Nat /\ a <= b
  BY SourceAssumption DEF Datagrams
<1>2. Push(source.inbox, a, b) \in Seq(Nat)
  BY <1>1, PushType DEF SInv, Window, Sources
<1>s. source \in Sources
  BY DEF SInv, Window
<1>w. start # None => Missing = Unheard(start, e, heard)
  BY DEF Missing, Unheard
<1>w1. start' # None => Missing' = Unheard(start', source'.next_seq_expected, heard')
  BY DEF Missing, Unheard
<1>m. ~ambiguous' =>
        /\ ~ambiguous
        /\ start # None => ~(a < start) /\ (a .. b) \cap heard = {}
  BY DEF Again
<1>3. CASE start = None
  <2>1. e = None /\ lost = 0 /\ heard = {}
    BY <1>3 DEF SInv, Window
  <2>2. /\ source' \in Sources
        /\ source'.next_seq_expected = b + 1
        /\ source'.lost_chunks = 0
    <3>1. source' = [source EXCEPT !.inbox = Push(source.inbox, a, b),
                                   !.next_seq_expected = b + 1]
      BY <2>1 DEF Deliver
    <3>2. source' = [source EXCEPT !.inbox = Push(source.inbox, a, b),
                                   !.next_seq_expected = b + 1,
                                   !.lost_chunks = 0]
      BY <2>1, <3>1, <1>s DEF Sources
    <3>3. b + 1 \in Nat /\ 0 \in Nat
      BY <1>1
    <3> DEFINE ib == Push(source.inbox, a, b)
               nx == b + 1
               ls == 0
    <3>8. ib \in Seq(Nat) /\ nx \in Nat /\ ls \in Nat
      BY <1>2, <3>3
    <3>9. source' = [source EXCEPT !.inbox = ib, !.next_seq_expected = nx, !.lost_chunks = ls]
      BY <3>2
    <3> HIDE DEF ib, nx, ls
    <3>10. source' \in Sources /\ source'.next_seq_expected = nx /\ source'.lost_chunks = ls
      BY <1>s, <3>8, <3>9 DEF Sources
    <3> QED BY <3>10 DEF nx, ls
  <2>3. source' # None /\ start' # None /\ start' = a
    BY <1>1, <1>3, <2>2, SourceAssumption
  <2>4. Cardinality(Missing') \in Nat
    BY <1>1, <1>w1, <2>2, <2>3, UnheardFinite
  <2>5. LossNeverOverstated'
    BY <2>2, <2>4 DEF LossNeverOverstated
  <2>6. Window'
    BY <1>1, <2>1, <2>2, <2>3 DEF SInv, Window
  <2>7. Unheard(a, b + 1, a .. b) = {}
    BY <1>1 DEF Unheard
  <2>8. Cardinality(Missing') = 0
    BY <1>w1, <2>1, <2>2, <2>3, <2>7, FS_EmptySet
  <2>9. LossExact'
    BY <2>2, <2>8 DEF LossExact
  <2> QED BY <2>5, <2>6, <2>9 DEF SInv
<1>4. CASE start # None /\ a >= e
  <2>1. start \in Nat /\ e \in Nat /\ start < e /\ e # None
        /\ \A q \in heard : q \in Nat /\ q < e
    BY <1>4, SourceAssumption DEF SInv, Window
  <2>2. /\ source' \in Sources
        /\ source'.next_seq_expected = b + 1
        /\ source'.lost_chunks = lost + (a - e)
    <3>1. source' = [source EXCEPT !.inbox = Push(source.inbox, a, b),
                                   !.next_seq_expected = b + 1,
                                   !.lost_chunks = lost + (a - e)]
      BY <2>1, <1>4 DEF Deliver, Gap
    <3>2. b + 1 \in Nat /\ lost + (a - e) \in Nat
      BY <1>1, <1>4, <1>s, <2>1 DEF Sources
    <3> DEFINE ib == Push(source.inbox, a, b)
               nx == b + 1
               ls == lost + (a - e)
    <3>8. ib \in Seq(Nat) /\ nx \in Nat /\ ls \in Nat
      BY <1>2, <3>2
    <3>9. source' = [source EXCEPT !.inbox = ib, !.next_seq_expected = nx, !.lost_chunks = ls]
      BY <3>1
    <3> HIDE DEF ib, nx, ls
    <3>10. source' \in Sources /\ source'.next_seq_expected = nx /\ source'.lost_chunks = ls
      BY <1>s, <3>8, <3>9 DEF Sources
    <3> QED BY <3>10 DEF nx, ls
  <2>3. source' # None /\ start' = start
    BY <1>4, <2>2, SourceAssumption
  <2>4. Cardinality(Missing') = Cardinality(Missing) + (a - e)
    BY <1>1, <1>4, <1>w, <1>w1, <2>1, <2>2, <2>3, GapCounted DEF Gap
  <2>5. lost <= Cardinality(Missing) /\ Cardinality(Missing) \in Nat /\ lost \in Nat
    BY <1>4, <1>w, <2>1, <1>s, UnheardFinite DEF SInv, LossNeverOverstated, Sources
  <2>6. LossNeverOverstated'
    BY <1>1, <2>1, <2>2, <2>4, <2>5 DEF LossNeverOverstated
  <2>7. Window'
    BY <1>1, <1>4, <2>1, <2>2, <2>3 DEF SInv, Window
  <2>8. LossExact'
    BY <1>m, <1>1, <2>1, <2>2, <2>4, <2>5 DEF LossExact, SInv
  <2> QED BY <2>6, <2>7, <2>8 DEF SInv
<1>5. CASE start # None /\ b < e
  <2>1. start \in Nat /\ e \in Nat /\ start < e /\ e # None
        /\ \A q \in heard : q \in Nat /\ q < e
    BY <1>5, SourceAssumption DEF SInv, Window
  <2>2. /\ source' \in Sources
        /\ source'.next_seq_expected = e
        /\ source'.lost_chunks = Late(lost, b - a + 1)
    <3>1. source' = [source EXCEPT !.inbox = Push(source.inbox, a, b),
                                   !.lost_chunks = Late(lost, b - a + 1)]
      BY <1>1, <2>1, <1>5 DEF Deliver
    <3>2. source' = [source EXCEPT !.inbox = Push(source.inbox, a, b),
                                   !.next_seq_expected = e,
                                   !.lost_chunks = Late(lost, b - a + 1)]
      BY <1>s, <3>1 DEF Sources
    <3>3. e \in Nat /\ Late(lost, b - a + 1) \in Nat
      BY <1>1, <1>s, <2>1 DEF Sources, Late
    <3> DEFINE ib == Push(source.inbox, a, b)
               nx == e
               ls == Late(lost, b - a + 1)
    <3>8. ib \in Seq(Nat) /\ nx \in Nat /\ ls \in Nat
      BY <1>2, <3>3
    <3>9. source' = [source EXCEPT !.inbox = ib, !.next_seq_expected = nx, !.lost_chunks = ls]
      BY <3>2
    <3> HIDE DEF ib, nx, ls
    <3>10. source' \in Sources /\ source'.next_seq_expected = nx /\ source'.lost_chunks = ls
      BY <1>s, <3>8, <3>9 DEF Sources
    <3> QED BY <3>10 DEF nx, ls
  <2>3. source' # None /\ start' = start
    BY <1>5, <2>2, SourceAssumption
  <2>4. Cardinality(Missing) <= Cardinality(Missing') + (b - a + 1)
        /\ Cardinality(Missing') \in Nat
    BY <1>1, <1>5, <1>w, <1>w1, <2>1, <2>2, <2>3, LateCounted, UnheardFinite
  <2>5. lost <= Cardinality(Missing) /\ Cardinality(Missing) \in Nat /\ lost \in Nat
    BY <1>5, <1>w, <2>1, <1>s, UnheardFinite DEF SInv, LossNeverOverstated, Sources
  <2>6. LossNeverOverstated'
    BY <1>1, <2>2, <2>4, <2>5 DEF LossNeverOverstated, Late
  <2>7. Window'
    BY <1>1, <1>5, <2>1, <2>2, <2>3 DEF SInv, Window
  <2>8. LossExact'
    <3> SUFFICES ASSUME ~ambiguous'
                 PROVE  source'.lost_chunks = Cardinality(Missing')
      BY DEF LossExact
    <3>1. ~ambiguous /\ start <= a /\ (a .. b) \cap heard = {}
      BY <1>1, <1>m, <1>5, <2>1
    <3>4. Missing = Unheard(start, e, heard) /\ Missing' = Unheard(start, e, heard \cup (a .. b))
      BY <1>5, <1>w, <1>w1, <2>1, <2>2, <2>3
    <3>5. LateOnce(start, e, a, b, heard)
      BY <1>1, <1>5, <2>1, <3>1 DEF LateOnce
    <3>6. Cardinality(Unheard(start, e, heard))
             = Cardinality(Unheard(start, e, heard \cup (a .. b))) + (b - a + 1)
      BY <3>5, LateCountedOnce
    <3>2. Cardinality(Missing) = Cardinality(Missing') + (b - a + 1)
      BY <3>4, <3>6
    <3>3. lost = Cardinality(Missing)
      BY <3>1 DEF SInv, LossExact
    <3> QED BY <1>1, <2>2, <2>4, <2>5, <3>2, <3>3 DEF Late
  <2> QED BY <2>6, <2>7, <2>8 DEF SInv
<1>6. CASE start # None /\ a < e /\ b >= e
  <2>1. start \in Nat /\ e \in Nat /\ start < e /\ e # None
        /\ \A q \in heard : q \in Nat /\ q < e
    BY <1>6, SourceAssumption DEF SInv, Window
  <2>2. /\ source' \in Sources
        /\ source'.next_seq_expected = b + 1
        /\ source'.lost_chunks = Late(lost, e - a)
    <3>1. source' = [source EXCEPT !.inbox = Push(source.inbox, a, b),
                                   !.next_seq_expected = b + 1,
                                   !.lost_chunks = Late(lost, e - a)]
      BY <1>1, <2>1, <1>6 DEF Deliver
    <3>2. b + 1 \in Nat /\ Late(lost, e - a) \in Nat
      BY <1>1, <1>6, <1>s, <2>1 DEF Sources, Late
    <3> DEFINE ib == Push(source.inbox, a, b)
               nx == b + 1
               ls == Late(lost, e - a)
    <3>8. ib \in Seq(Nat) /\ nx \in Nat /\ ls \in Nat
      BY <1>2, <3>2
    <3>9. source' = [source EXCEPT !.inbox = ib, !.next_seq_expected = nx, !.lost_chunks = ls]
      BY <3>1
    <3> HIDE DEF ib, nx, ls
    <3>10. source' \in Sources /\ source'.next_seq_expected = nx /\ source'.lost_chunks = ls
      BY <1>s, <3>8, <3>9 DEF Sources
    <3> QED BY <3>10 DEF nx, ls
  <2>3. source' # None /\ start' = start
    BY <1>6, <2>2, SourceAssumption
  <2>4. Missing' = Unheard(start, e, heard \cup (a .. (e - 1)))
    BY <1>1, <1>6, <1>w1, <2>1, <2>2, <2>3 DEF Unheard
  <2>5. Cardinality(Missing) <= Cardinality(Missing') + (e - a)
        /\ Cardinality(Missing') \in Nat
    <3>1. e - 1 \in Nat /\ a <= e - 1 /\ e - 1 < e
      BY <1>1, <1>6, <2>1
    <3> DEFINE c == e - 1
    <3>2. c \in Nat /\ a <= c /\ c < e /\ c - a + 1 = e - a
      BY <1>1, <2>1, <3>1
    <3>3. Missing' = Unheard(start, e, heard \cup (a .. c))
      BY <2>4
    <3> HIDE DEF c
    <3>4. Cardinality(Unheard(start, e, heard))
             <= Cardinality(Unheard(start, e, heard \cup (a .. c))) + (c - a + 1)
      BY <1>1, <2>1, <3>2, LateCounted
    <3>5. Cardinality(Missing') \in Nat
      BY <2>1, <3>3, UnheardFinite
    <3> QED BY <1>6, <1>w, <3>2, <3>3, <3>4, <3>5
  <2>6. lost <= Cardinality(Missing) /\ Cardinality(Missing) \in Nat /\ lost \in Nat
    BY <1>6, <1>w, <2>1, <1>s, UnheardFinite DEF SInv, LossNeverOverstated, Sources
  <2>7. LossNeverOverstated'
    BY <1>1, <1>6, <2>1, <2>2, <2>5, <2>6 DEF LossNeverOverstated, Late
  <2>8. Window'
    BY <1>1, <1>6, <2>1, <2>2, <2>3 DEF SInv, Window
  <2>9. LossExact'
    <3> SUFFICES ASSUME ~ambiguous'
                 PROVE  source'.lost_chunks = Cardinality(Missing')
      BY DEF LossExact
    <3>1. ~ambiguous /\ start <= a /\ (a .. b) \cap heard = {}
      BY <1>1, <1>m, <1>6, <2>1
    <3> DEFINE c == e - 1
    <3>2. c \in Nat /\ a <= c /\ c < e /\ c - a + 1 = e - a /\ (a .. c) \cap heard = {}
      BY <1>1, <1>6, <2>1, <3>1
    <3>3. Missing' = Unheard(start, e, heard \cup (a .. c))
      BY <2>4
    <3>7. LateOnce(start, e, a, c, heard)
      BY <1>1, <2>1, <3>1, <3>2 DEF LateOnce
    <3> HIDE DEF c
    <3>4. Cardinality(Unheard(start, e, heard))
             = Cardinality(Unheard(start, e, heard \cup (a .. c))) + (c - a + 1)
      BY <3>7, LateCountedOnce
    <3>5. Cardinality(Missing) = Cardinality(Missing') + (e - a)
      BY <1>6, <1>w, <3>2, <3>3, <3>4
    <3>6. lost = Cardinality(Missing)
      BY <3>1 DEF SInv, LossExact
    <3> QED BY <1>1, <1>6, <2>1, <2>2, <2>5, <2>6, <3>5, <3>6 DEF Late
  <2> QED BY <2>7, <2>8, <2>9 DEF SInv
<1>7. start # None => e \in Nat
  BY DEF SInv, Window
<1> QED BY <1>1, <1>7, <1>3, <1>4, <1>5, <1>6

-----------------------------------------------------------------------------
(* The window and the count hold in every reachable state.                 *)
THEOREM CounterInvariance == Spec => []SInv
<1>1. Init => SInv
  BY DEF Init, SInv, Window, LossNeverOverstated, LossExact
<1>2. SInv /\ [Next]_vars => SInv'
  <2> SUFFICES ASSUME SInv, [Next]_vars
               PROVE  SInv'
    OBVIOUS
  <2>1. CASE Subscribe
    <3>0. <<>> \in Seq(Nat) /\ source' = NewSource
      BY <2>1 DEF Subscribe
    <3>1. source' \in Sources
      BY <3>0 DEF NewSource, Sources
    <3>4. source'.next_seq_expected = None /\ source'.lost_chunks = 0
      BY <3>0 DEF NewSource
    <3>2. start = None /\ heard = {} /\ Missing' = {}
      BY <2>1 DEF Subscribe, SInv, Window, Missing
    <3>3. Cardinality(Missing') = 0
      BY <3>2, FS_EmptySet
    <3>5. LossNeverOverstated' /\ LossExact'
      BY <3>3, <3>4 DEF LossNeverOverstated, LossExact
    <3>6. source' # None
      BY <3>1, SourceAssumption
    <3>7. Window'
      BY <2>1, <3>1, <3>2, <3>4, <3>6 DEF Subscribe, SInv, Window
    <3> QED BY <3>5, <3>7 DEF SInv
  <2>2. CASE Unsubscribe
    BY <2>2 DEF Unsubscribe, SInv, Window, LossNeverOverstated, LossExact
  <2>3. CASE Poll
    <3>1. /\ source' \in Sources
          /\ source'.next_seq_expected = source.next_seq_expected
          /\ source'.lost_chunks = source.lost_chunks
      <4>1. source \in Sources /\ <<>> \in Seq(Nat) /\ source' = [source EXCEPT !.inbox = <<>>]
        BY <2>3 DEF Poll, SInv, Window
      <4> QED BY <4>1 DEF Sources
    <3>2. Missing' = Missing
      BY <2>3, <3>1 DEF Poll, Missing
    <3>3. Window'
      <4>1. source' # None
        BY <3>1, SourceAssumption
      <4> QED BY <2>3, <3>1, <4>1 DEF Poll, SInv, Window
    <3>4. LossNeverOverstated' /\ LossExact'
      BY <2>3, <3>1, <3>2 DEF Poll, SInv, LossNeverOverstated, LossExact
    <3> QED BY <3>3, <3>4 DEF SInv
  <2>4. CASE Sends
    <3>1. Missing' = Missing
      BY <2>4 DEF Sends, Missing
    <3>2. \A d \in sent' : d \in Datagrams /\ d.first <= d.last
      <4>1. PICK n \in 1 .. MaxChunks :
               /\ next_seq + n - 1 <= MaxSeq
               /\ sent' = sent \cup {[first |-> next_seq, last |-> next_seq + n - 1,
                                       session |-> pubSession]}
        BY <2>4 DEF Sends
      <4>2. next_seq \in Nat /\ next_seq >= 1 /\ pubSession \in Sessions
        BY DEF SInv, Window
      <4>3. [first |-> next_seq, last |-> next_seq + n - 1, session |-> pubSession] \in Datagrams
        BY <4>1, <4>2, SourceAssumption DEF Datagrams
      <4> QED BY <4>1, <4>2, <4>3 DEF SInv, Window
    <3>3. Window'
      BY <2>4, <3>2 DEF Sends, SInv, Window
    <3>4. LossNeverOverstated' /\ LossExact'
      BY <2>4, <3>1 DEF Sends, SInv, LossNeverOverstated, LossExact
    <3> QED BY <3>3, <3>4 DEF SInv
  <2>5. CASE Arrives
    <3>1. PICK d \in sent :
             /\ ~Discarded(d)
             /\ source' = Deliver(source, d)
             /\ start' = IF start = None THEN d.first ELSE start
             /\ heard' = heard \cup (d.first .. d.last)
             /\ ambiguous' = (ambiguous \/ Again(d))
             /\ UNCHANGED <<session, pubSession, next_seq, sent>>
      BY <2>5 DEF Arrives
    <3>2. d \in Datagrams /\ d.first <= d.last
      BY <3>1 DEF SInv, Window
    <3> QED BY <3>1, <3>2, DeliverKeeps DEF Discarded
  <2>6. CASE Moves
    <3>1. Missing' = Missing
      BY <2>6 DEF Moves, Missing
    <3> QED BY <2>6, <3>1 DEF Moves, SInv, Window, LossNeverOverstated, LossExact
  <2>7. CASE UNCHANGED vars
    <3>1. Missing' = Missing
      BY <2>7 DEF vars, Missing
    <3> QED BY <2>7, <3>1 DEF vars, SInv, Window, LossNeverOverstated, LossExact
  <2> QED BY <2>1, <2>2, <2>3, <2>4, <2>5, <2>6, <2>7 DEF Next
<1> QED BY <1>1, <1>2, PTL DEF Spec

(* The counter never exceeds the number of chunks really lost, for any      *)
(* number of chunks, any inbox size and any network (deliver).             *)
THEOREM CounterNeverOverstates == Spec => []LossNeverOverstated
BY CounterInvariance, PTL DEF SInv

(* As long as no chunk came twice or from before the first delivered, the   *)
(* counter is exact, late chunks included (deliver, channel_lost_chunks).  *)
THEOREM CounterExact == Spec => []LossExact
BY CounterInvariance, PTL DEF SInv

-----------------------------------------------------------------------------
(* The inbox. *)

(* Chunks a .. b pushed, seen from the back: they are the last ones, and   *)
(* before them is what was last before.                                    *)
LEMMA PushFromBack ==
    ASSUME NEW q \in Seq(Nat), NEW a \in Nat, NEW b \in Nat, a <= b
    PROVE  LET r == Push(q, a, b)
               n == b - a + 1
           IN  /\ r \in Seq(Nat)
               /\ Len(r) = IF Len(q) + n <= InboxLimit THEN Len(q) + n ELSE InboxLimit
               /\ \A x \in 0 .. (Len(r) - 1) :
                     r[Len(r) - x] = IF x < n THEN b - x ELSE q[Len(q) - (x - n)]
<1> DEFINE n == b - a + 1
           new == [i \in 1 .. n |-> a + i - 1]
           all == q \o new
           k == Len(all) - InboxLimit
           r == Push(q, a, b)
<1>1. n \in Nat /\ new \in Seq(Nat) /\ Len(new) = n /\ \A i \in 1 .. n : new[i] = a + i - 1
  <2>1. n \in Nat /\ new \in [1 .. n -> Nat]
    OBVIOUS
  <2> HIDE DEF n
  <2> QED BY <2>1, SeqDef
<1>2. r = IF Len(all) <= InboxLimit THEN all ELSE SubSeq(all, k + 1, Len(all))
  BY DEF Push
<1>n. b - a + 1 = n
  OBVIOUS
<1> HIDE DEF new, n, r
<1>3. /\ all \in Seq(Nat) /\ Len(all) = Len(q) + n
      /\ \A i \in 1 .. Len(all) : all[i] = IF i <= Len(q) THEN q[i] ELSE new[i - Len(q)]
  <2>1. q \in Seq(Nat) /\ new \in Seq(Nat) /\ Len(new) = n
    BY <1>1
  <2>2. /\ q \o new \in Seq(Nat) /\ Len(q \o new) = Len(q) + Len(new)
        /\ \A i \in 1 .. Len(q) + Len(new) :
              (q \o new)[i] = IF i <= Len(q) THEN q[i] ELSE new[i - Len(q)]
    BY ONLY <2>1, ConcatProperties
  <2> QED BY <2>1, <2>2
<1>4. Len(q) \in Nat /\ InboxLimit \in Nat
  BY SourceAssumption
<1> HIDE DEF all
<1>5. \A x \in 0 .. (Len(all) - 1) :
         all[Len(all) - x] = IF x < n THEN b - x ELSE q[Len(q) - (x - n)]
  <2> SUFFICES ASSUME NEW x \in 0 .. (Len(all) - 1)
               PROVE  all[Len(all) - x] = IF x < n THEN b - x ELSE q[Len(q) - (x - n)]
    OBVIOUS
  <2>1. Len(all) - x \in 1 .. Len(all)
    BY <1>1, <1>3, <1>4
  <2>2. CASE x < n
    <3>1. ~(Len(all) - x <= Len(q)) /\ (Len(all) - x) - Len(q) = n - x /\ n - x \in 1 .. n
      BY <1>1, <1>3, <1>4, <2>2
    <3>2. all[Len(all) - x] = new[n - x]
      BY <1>3, <2>1, <3>1
    <3>3. new[n - x] = a + (n - x) - 1
      BY <1>1, <3>1
    <3> QED BY <1>n, <1>1, <2>2, <3>2, <3>3
  <2>3. CASE ~(x < n)
    <3>1. Len(all) - x <= Len(q) /\ Len(all) - x = Len(q) - (x - n)
      BY <1>1, <1>3, <1>4, <2>3
    <3> QED BY <1>3, <2>1, <2>3, <3>1
  <2> QED BY <2>2, <2>3
<1>6. CASE Len(all) <= InboxLimit
  BY <1>n, <1>2, <1>3, <1>5, <1>6 DEF r
<1>7. CASE ~(Len(all) <= InboxLimit)
  <2>1. k \in Nat /\ k <= Len(all) /\ Len(all) - k = InboxLimit /\ Len(all) \in Nat
    BY <1>1, <1>3, <1>4, <1>7
  <2>2. r = SubSeq(all, k + 1, Len(all))
    BY <1>2, <1>7
  <2> HIDE DEF k
  <2>3. /\ r \in Seq(Nat)
        /\ Len(r) = InboxLimit
        /\ \A i \in 1 .. InboxLimit : r[i] = all[i + k]
    <3> DEFINE m == k + 1
               l == Len(all)
    <3>1. m \in Int /\ l \in Int /\ k = m - 1 /\ k <= l /\ l - k = InboxLimit
      BY <2>1
    <3>2. \A i \in m .. l : all[i] \in Nat
      BY <1>3, <2>1
    <3> HIDE DEF m, l
    <3>3. /\ SubSeq(all, m, l) \in Seq(Nat)
          /\ Len(SubSeq(all, m, l)) = IF m <= l THEN (l - m) + 1 ELSE 0
          /\ \A i \in 1 .. ((l - m) + 1) : SubSeq(all, m, l)[i] = all[(m + i) - 1]
      BY <3>1, <3>2, SubSeqProperties
    <3>4. (l - m) + 1 = InboxLimit /\ (~(m <= l) => InboxLimit = 0)
      BY <1>4, <2>1, <3>1
    <3>5. \A i \in 1 .. InboxLimit : (m + i) - 1 = i + k
      BY <1>4, <2>1, <3>1
    <3>6. Len(SubSeq(all, m, l)) = InboxLimit
      BY <3>3, <3>4
    <3>7. \A i \in 1 .. InboxLimit : SubSeq(all, m, l)[i] = all[i + k]
      BY <3>3, <3>4, <3>5
    <3> QED BY <2>2, <3>3, <3>6, <3>7 DEF m, l
  <2>4. \A x \in 0 .. (Len(r) - 1) :
           r[Len(r) - x] = IF x < n THEN b - x ELSE q[Len(q) - (x - n)]
    <3> SUFFICES ASSUME NEW x \in 0 .. (InboxLimit - 1)
                 PROVE  r[InboxLimit - x] = IF x < n THEN b - x ELSE q[Len(q) - (x - n)]
      BY <2>3
    <3>1. /\ InboxLimit - x \in 1 .. InboxLimit
          /\ (InboxLimit - x) + k = Len(all) - x
          /\ x \in 0 .. (Len(all) - 1)
      BY <1>4, <1>7, <2>1
    <3>2. r[InboxLimit - x] = all[Len(all) - x]
      BY <2>3, <3>1
    <3> QED BY <1>5, <3>1, <3>2
  <2> QED BY <1>n, <1>3, <1>7, <2>3, <2>4 DEF r
<1> QED BY <1>6, <1>7

(* The last arrivals, by what came after each, are what q holds.           *)
Recent(q, age) ==
    /\ \A c \in 1 .. MaxSeq : age[c] # None =>
          age[c] \in Nat /\ age[c] < Len(q) /\ q[Len(q) - age[c]] = c
    /\ \A i \in DOMAIN q :
          q[i] \in 1 .. MaxSeq /\ age[q[i]] # None /\ age[q[i]] <= Len(q) - i

OInv == source # None => Recent(source.inbox, since)

LEMMA EmptyRecent == Recent(<<>>, NoArrivals)
BY DEF Recent, NoArrivals

LEMMA ArrivesRecent ==
    ASSUME SInv, OInv, Arrives
    PROVE  OInv'
<1>1. PICK d \in sent :
         /\ ~Discarded(d)
         /\ source' = Deliver(source, d)
         /\ since' = [c \in 1 .. MaxSeq |->
                        IF Later(c, d) < InboxLimit THEN Later(c, d) ELSE None]
  BY DEF Arrives
<1> DEFINE a == d.first
           b == d.last
           n == b - a + 1
           q == source.inbox
           r == Push(q, a, b)
<1>2. /\ a \in 1 .. MaxSeq /\ b \in 1 .. MaxSeq /\ a <= b /\ n \in Nat /\ n >= 1
      /\ a \in Nat /\ b \in Nat /\ MaxSeq \in Nat /\ InboxLimit \in Nat
      /\ \A x \in a .. b : x \in 1 .. MaxSeq
  BY <1>1, SourceAssumption DEF SInv, Window, Datagrams
<1>3. source # None /\ source \in Sources
  BY <1>1 DEF Discarded, SInv, Window
<1>4. q \in Seq(Nat) /\ Len(q) \in Nat /\ DOMAIN q = 1 .. Len(q) /\ Recent(q, since)
  BY <1>3 DEF OInv, Sources
<1>5. source'.inbox = r
  BY <1>1, <1>3 DEF Deliver, Sources
<1>6. /\ r \in Seq(Nat)
      /\ Len(r) = IF Len(q) + n <= InboxLimit THEN Len(q) + n ELSE InboxLimit
      /\ \A x \in 0 .. (Len(r) - 1) :
            r[Len(r) - x] = IF x < n THEN b - x ELSE q[Len(q) - (x - n)]
  BY <1>2, <1>4, PushFromBack
<1>7. \A c : Later(c, d) = IF c \in a .. b THEN b - c
                           ELSE IF since[c] = None THEN InboxLimit ELSE since[c] + n
  BY DEF Later
<1>8. /\ Len(r) \in Nat /\ Len(r) <= InboxLimit /\ Len(r) <= Len(q) + n
      /\ DOMAIN r = 1 .. Len(r)
      /\ Len(q) + n <= InboxLimit => Len(r) = Len(q) + n
      /\ ~(Len(q) + n <= InboxLimit) => Len(r) = InboxLimit
  <2> HIDE DEF n, q, r
  <2> QED BY <1>2, <1>4, <1>6
<1>s. None \notin Nat
  BY SourceAssumption
<1> HIDE DEF a, b, n, q, r
<1> DEFINE lq == Len(q)
           lr == Len(r)
<1>l. /\ lq \in Nat /\ lr \in Nat /\ n \in Nat /\ n >= 1 /\ InboxLimit \in Nat
      /\ lr <= InboxLimit /\ lr <= lq + n
      /\ lr = lq + n \/ lr = InboxLimit
  BY <1>2, <1>4, <1>8
<1>d. DOMAIN q = 1 .. lq /\ DOMAIN r = 1 .. lr
  BY <1>4, <1>8
<1>f. \A x \in 0 .. (lr - 1) : r[lr - x] = IF x < n THEN b - x ELSE q[lq - (x - n)]
  BY <1>6
<1>q. /\ \A c \in 1 .. MaxSeq : since[c] # None =>
            since[c] \in Nat /\ since[c] < lq /\ q[lq - since[c]] = c
      /\ \A i \in 1 .. lq :
            q[i] \in 1 .. MaxSeq /\ since[q[i]] # None /\ since[q[i]] <= lq - i
  BY <1>4 DEF Recent
<1> HIDE DEF lq, lr
<1>9. ASSUME NEW c \in 1 .. MaxSeq, since'[c] # None
      PROVE  since'[c] \in Nat /\ since'[c] < lr /\ r[lr - since'[c]] = c
  <2> DEFINE x == Later(c, d)
  <2>1. since'[c] = x /\ x < InboxLimit
    BY <1>1, <1>9
  <2>2. CASE c \in a .. b
    <3>1. x = b - c
      BY <1>7, <2>2
    <3>2. x \in Nat /\ x < n /\ b - x = c
      BY <1>2, <2>2, <3>1 DEF n
    <3> HIDE DEF x
    <3>3. x \in 0 .. (lr - 1)
      BY <1>2, <1>l, <2>1, <3>2
    <3>4. r[lr - x] = b - x
      BY <1>f, <3>2, <3>3
    <3> QED BY <1>l, <2>1, <3>2, <3>3, <3>4
  <2>3. CASE c \notin a .. b
    <3> DEFINE y == since[c]
    <3>1. y # None /\ x = y + n
      BY <1>2, <1>7, <2>1, <2>3
    <3>2. y \in Nat /\ y < lq /\ q[lq - y] = c
      BY <1>q, <3>1, <1>l
    <3> HIDE DEF x, y
    <3>3. x \in 0 .. (lr - 1) /\ ~(x < n) /\ x - n = y
      BY <1>2, <1>l, <2>1, <3>1, <3>2
    <3>4. r[lr - x] = q[lq - (x - n)]
      BY <1>f, <3>3
    <3> QED BY <1>l, <2>1, <3>2, <3>3, <3>4
  <2> QED BY <2>2, <2>3
<1>10. ASSUME NEW i \in 1 .. lr
       PROVE  r[i] \in 1 .. MaxSeq /\ since'[r[i]] # None /\ since'[r[i]] <= lr - i
  <2> DEFINE x == lr - i
             c == r[i]
             y == Later(c, d)
  <2>1. x \in 0 .. (lr - 1) /\ lr - x = i /\ x < InboxLimit
    BY <1>2, <1>l, <1>10
  <2>2. c = IF x < n THEN b - x ELSE q[lq - (x - n)]
    BY <1>f, <2>1
  <2>3. SUFFICES c \in 1 .. MaxSeq /\ y \in Nat /\ y <= x
    <3> HIDE DEF c, x, y
    <3>1. y < InboxLimit /\ y # None
      BY <1>2, <1>s, <2>1, <2>3
    <3>2. since'[c] = y
      BY <1>1, <2>3, <3>1 DEF y
    <3> QED BY <2>3, <3>1, <3>2 DEF c, x
  <2> HIDE DEF c, x
  <2>4. ASSUME c \in a .. b
        PROVE  c \in 1 .. MaxSeq /\ y = b - c /\ y \in Nat
    BY <1>2, <1>7, <2>4
  <2>5. CASE x < n
    <3>1. c = b - x /\ c \in a .. b
      BY <1>2, <2>1, <2>2, <2>5 DEF n
    <3> QED BY <1>2, <2>1, <2>4, <3>1
  <2>6. CASE ~(x < n)
    <3> DEFINE j == lq - (x - n)
    <3>1. c = q[j] /\ j \in 1 .. lq /\ lq - j = x - n
      BY <1>2, <1>l, <2>1, <2>2, <2>6
    <3> HIDE DEF j
    <3>2. c \in 1 .. MaxSeq /\ since[c] # None /\ since[c] <= x - n
      BY <1>q, <3>1, <1>l
    <3>3. since[c] \in Nat
      BY <1>q, <3>2
    <3>4. CASE c \in a .. b
      <4>1. y = b - c /\ y \in Nat /\ y < n
        BY <1>2, <2>4, <3>4 DEF n
      <4> QED BY <1>2, <2>1, <2>6, <3>2, <4>1
    <3>5. CASE c \notin a .. b
      <4>1. y = since[c] + n
        BY <1>7, <3>2, <3>5
      <4> QED BY <1>2, <2>1, <3>2, <3>3, <4>1
    <3> QED BY <3>4, <3>5
  <2> QED BY <2>5, <2>6
<1>11. Recent(r, since')
  BY <1>9, <1>10, <1>d DEF Recent, lr
<1> QED BY <1>5, <1>11 DEF OInv

(* Whatever the network does to the datagrams, and for any limit of the    *)
(* inbox, it holds what was delivered last since it was drained, in the    *)
(* order of delivery (deliver, poll_channel).                              *)
THEOREM OldestAlwaysDropped == Spec => []OldestDropped
<1> DEFINE Empty == source = None => since = NoArrivals
<1>1. Init => OInv /\ Empty
  BY DEF Init, OInv
<1>2. SInv /\ SInv' /\ OInv /\ Empty /\ [Next]_vars => OInv' /\ Empty'
  <2> SUFFICES ASSUME SInv, SInv', OInv, Empty, [Next]_vars
               PROVE  OInv' /\ Empty'
    OBVIOUS
  <2>1. CASE Subscribe
    <3>1. source'.inbox = <<>> /\ since' = NoArrivals
      BY <2>1 DEF Subscribe, NewSource
    <3> QED BY <3>1, EmptyRecent DEF OInv
  <2>2. CASE Unsubscribe
    BY <2>2 DEF Unsubscribe, OInv
  <2>3. CASE Poll
    <3>1. source \in Sources
      BY <2>3 DEF Poll, SInv, Window
    <3>2. source'.inbox = <<>> /\ since' = NoArrivals
      BY <2>3, <3>1 DEF Poll, Sources
    <3> QED BY <3>2, EmptyRecent DEF OInv
  <2>4. CASE Sends \/ Moves \/ UNCHANGED vars
    BY <2>4 DEF Sends, Moves, vars, OInv
  <2>5. CASE Arrives
    <3>1. OInv'
      BY <2>5, ArrivesRecent
    <3>2. source' # None
      <4>1. start' # None
        BY <2>5, SourceAssumption DEF Arrives, SInv, Window, Datagrams
      <4> QED BY <4>1 DEF SInv, Window
    <3> QED BY <3>1, <3>2
  <2> QED BY <2>1, <2>2, <2>3, <2>4, <2>5 DEF Next
<1>3. SInv /\ OInv => OldestDropped
  <2> SUFFICES ASSUME SInv, OInv, source # None
               PROVE  OldestDropped
    BY DEF OldestDropped
  <2>1. source.inbox \in Seq(Nat) /\ Recent(source.inbox, since)
    BY DEF SInv, Window, Sources, OInv
  <2> DEFINE q == source.inbox
  <2>2. ASSUME NEW c \in 1 .. MaxSeq, since[c] # None
        PROVE  Len(q) - since[c] \in DOMAIN q /\ q[Len(q) - since[c]] = c
    <3>1. since[c] \in Nat /\ since[c] < Len(q) /\ q[Len(q) - since[c]] = c
      BY <2>1, <2>2 DEF Recent
    <3>2. Len(q) \in Nat /\ DOMAIN q = 1 .. Len(q)
      BY <2>1
    <3> HIDE DEF q
    <3> QED BY <3>1, <3>2
  <2>3. \A i \in DOMAIN q : since[q[i]] # None /\ since[q[i]] <= Len(q) - i
    BY <2>1 DEF Recent
  <2> QED BY <2>2, <2>3 DEF OldestDropped
<1> QED BY <1>1, <1>2, <1>3, CounterInvariance, PTL DEF Spec
=============================================================================
