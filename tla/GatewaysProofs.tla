--------------------------- MODULE GatewaysProofs ---------------------------
(***************************************************************************)
(* Proofs about the threads: the invariants of Gateways, for every set of  *)
(* addresses, interface lists and configurations, and any number of        *)
(* epochs and failures.                                                    *)
(***************************************************************************)
EXTENDS Gateways, TLAPS

Numbers ==
    /\ epoch \in Nat /\ next_gateway_id \in Nat /\ node \in Nat
    /\ gateways \subseteq [id : Nat, addr : Addresses, told : Nat]
    /\ config \in Configs /\ interfaces \in HostLists
    /\ shutdown => ~enabled

(* Ids are in use once and below the next one; nothing is open while       *)
(* disabled.                                                               *)
OpenOnce ==
    /\ \A g \in gateways : g.id < next_gateway_id
    /\ \A g, h \in gateways : g.id = h.id => g = h
    /\ ~enabled => gateways = {} /\ heard = {}

(* An epoch has at most one rescan thread, and none has a thread before it *)
(* begins.                                                                 *)
OneScan ==
    /\ \A s \in scans : s.epoch \in Nat /\ s.epoch <= epoch
    /\ \A s, t \in scans : s.epoch = t.epoch => s = t

(* A plan opens only addresses that its snapshot had not.                  *)
PlansFit ==
    \A s \in scans :
        /\ s = [epoch |-> s.epoch, stage |-> s.stage, current |-> s.current, plan |-> s.plan]
        /\ s.stage = "planned" => /\ s.plan.added \subseteq Addresses
                                  /\ s.plan.added \cap s.current = {}

GInv ==
    /\ Numbers /\ OpenOnce /\ OneScan /\ PlansFit
    /\ SnapshotStaysValid /\ OneGatewayPerAddress
    /\ HeardOnOpenGateways /\ ToldOrDue

(* An order of opening that names no address twice.                        *)
Distinct(order) ==
    /\ \E n \in Nat : order \in [1 .. n -> Addresses] /\ Len(order) = n
    /\ \A i, j \in DOMAIN order : order[i] = order[j] => i = j

-----------------------------------------------------------------------------
(* Increasing enumerations of numbers repeat nothing. *)
LEMMA IncreasingDistinct ==
    ASSUME NEW K, K \subseteq Nat, NEW f \in Increasing(K)
    PROVE  /\ \E n \in Nat : f \in [1 .. n -> K]
           /\ \A i, j \in DOMAIN f : f[i] = f[j] => i = j
<1>1. PICK n \in 0 .. Cardinality(K) : f \in [1 .. n -> K]
      BY DEF Increasing
<1>2. n \in Nat
      OBVIOUS
<1>3. \A i, j \in DOMAIN f : i < j => f[i] < f[j]
      BY DEF Increasing
<1>4. ASSUME NEW i \in 1 .. n, NEW j \in 1 .. n, f[i] = f[j]
      PROVE  i = j
  <2>1. f[i] \in Nat
        BY <1>1
  <2>2. DOMAIN f = 1 .. n
        BY <1>1
  <2> DEFINE v == f[i]
             w == f[j]
  <2>3. v \in Nat /\ v = w
        BY <2>1, <1>4
  <2>4. (i < j => v < w) /\ (j < i => w < v)
        BY <1>3, <2>2
  <2> HIDE DEF v, w
  <2>5. ~(i < j) /\ ~(j < i)
        BY <2>3, <2>4
  <2>6. QED
        BY <2>5, <1>2
<1>5. QED
      BY <1>1, <1>2, <1>4

(* What Auto opens. *)
LEMMA AutoDistinct ==
    ASSUME NEW S \in SUBSET Addresses, NEW order \in Increasing(S)
    PROVE  Distinct(order)
<1>1. S \subseteq Nat
      BY GatewaysAssumption
<1>2. /\ \E n \in Nat : order \in [1 .. n -> S]
      /\ \A i, j \in DOMAIN order : order[i] = order[j] => i = j
      BY <1>1, IncreasingDistinct
<1>3. PICK n \in Nat : order \in [1 .. n -> S]
      BY <1>2
<1>4. order \in [1 .. n -> Addresses] /\ Len(order) = n
      BY <1>3
<1>5. QED
      BY <1>2, <1>4 DEF Distinct

(* What an explicit list opens: repeats are dropped. *)
LEMMA ExplicitDistinct ==
    ASSUME NEW c \in Seq(Addresses), NEW S \in SUBSET Kept(c), NEW f \in Increasing(S),
           NEW order, order = [i \in DOMAIN f |-> c[f[i]]]
    PROVE  Distinct(order)
<1>1. S \subseteq DOMAIN c /\ S \subseteq Nat
      BY DEF Kept
<1>2. /\ \E n \in Nat : f \in [1 .. n -> S]
      /\ \A i, j \in DOMAIN f : f[i] = f[j] => i = j
      BY <1>1, IncreasingDistinct
<1>3. PICK n \in Nat : f \in [1 .. n -> S]
      BY <1>2
<1>4. order \in [1 .. n -> Addresses] /\ Len(order) = n
      BY <1>1, <1>3
<1>5. ASSUME NEW i \in DOMAIN order, NEW j \in DOMAIN order, order[i] = order[j]
      PROVE  i = j
  <2>1. f[i] \in S /\ f[j] \in S /\ c[f[i]] = c[f[j]]
        BY <1>3, <1>5
  <2>2. f[i] \in Nat /\ f[j] \in Nat /\ f[i] \in Kept(c) /\ f[j] \in Kept(c)
        BY <2>1, <1>1
  <2>3. f[i] \in DOMAIN c /\ f[j] \in DOMAIN c
        BY <2>1, <1>1
  <2>4. ~(f[i] < f[j])
        BY <2>1, <2>2, <2>3 DEF Kept
  <2>5. ~(f[j] < f[i])
        BY <2>1, <2>2, <2>3 DEF Kept
  <2>6. f[i] = f[j]
        BY <2>2, <2>4, <2>5
  <2>7. QED
        BY <2>6, <1>2, <1>3, <1>5
<1>6. QED
      BY <1>4, <1>5 DEF Distinct

(* What is opened has the next ids, one address each, and is announced.    *)
LEMMA OpenedFacts ==
    ASSUME next_gateway_id \in Nat, NEW order, Distinct(order), NEW id
    PROVE  /\ Len(order) \in Nat
           /\ \A g \in Opened(order, id) :
                /\ g.id \in Nat /\ g.told = id
                /\ next_gateway_id <= g.id /\ g.id < next_gateway_id + Len(order)
                /\ \E i \in DOMAIN order : g.addr = order[i]
           /\ \A g, h \in Opened(order, id) :
                g.addr = h.addr \/ g.id = h.id => g = h
<1>1. PICK n \in Nat : order \in [1 .. n -> Addresses] /\ Len(order) = n
      BY DEF Distinct
<1>2. \A g \in Opened(order, id) :
          \E i \in 1 .. n : g = [id |-> next_gateway_id + i - 1, addr |-> order[i], told |-> id]
      BY <1>1 DEF Opened
<1>3. \A i, j \in 1 .. n : order[i] = order[j] => i = j
      BY <1>1 DEF Distinct
<1>4. ASSUME NEW g \in Opened(order, id)
      PROVE  /\ g.id \in Nat /\ g.told = id
             /\ next_gateway_id <= g.id /\ g.id < next_gateway_id + Len(order)
             /\ \E i \in DOMAIN order : g.addr = order[i]
  <2>1. PICK i \in 1 .. n : g = [id |-> next_gateway_id + i - 1, addr |-> order[i], told |-> id]
        BY <1>2
  <2>2. QED
        BY <2>1, <1>1
<1>5. ASSUME NEW g \in Opened(order, id), NEW h \in Opened(order, id),
             g.addr = h.addr \/ g.id = h.id
      PROVE  g = h
  <2>1. PICK i \in 1 .. n : g = [id |-> next_gateway_id + i - 1, addr |-> order[i], told |-> id]
        BY <1>2
  <2>2. PICK j \in 1 .. n : h = [id |-> next_gateway_id + j - 1, addr |-> order[j], told |-> id]
        BY <1>2
  <2>3. i = j
        BY <1>3, <1>5, <2>1, <2>2
  <2>4. QED
        BY <2>1, <2>2, <2>3
<1>6. QED
      BY <1>1, <1>4, <1>5

(* Announcing changes nothing but what was told. *)
LEMMA ToldFacts ==
    ASSUME NEW G, NEW id, \A g \in G : g = [id |-> g.id, addr |-> g.addr, told |-> g.told]
    PROVE  /\ \A h \in Told(G, id) :
                /\ h.told = id
                /\ \E g \in G : h = [g EXCEPT !.told = id] /\ h.id = g.id /\ h.addr = g.addr
           /\ Addrs(Told(G, id)) = Addrs(G)
           /\ {h.id : h \in Told(G, id)} = {g.id : g \in G}
<1> DEFINE T(g) == [g EXCEPT !.told = id]
<1>1. \A g \in G : T(g).told = id /\ T(g).id = g.id /\ T(g).addr = g.addr
  OBVIOUS
<1>2. Told(G, id) = {T(g) : g \in G}
  BY DEF Told
<1>3. \A h \in Told(G, id) : \E g \in G : h = T(g) /\ h.told = id /\ h.id = g.id /\ h.addr = g.addr
  <2> HIDE DEF T
  <2> QED BY <1>1, <1>2
<1>4. /\ {h.addr : h \in Told(G, id)} = {g.addr : g \in G}
      /\ {h.id : h \in Told(G, id)} = {g.id : g \in G}
  <2> HIDE DEF T
  <2>1. \A g \in G : \E h \in Told(G, id) : h.id = g.id /\ h.addr = g.addr
    BY <1>1, <1>2
  <2>2. {h.addr : h \in Told(G, id)} = {g.addr : g \in G}
    BY <1>3, <2>1
  <2>3. {h.id : h \in Told(G, id)} = {g.id : g \in G}
    BY <1>3, <2>1
  <2> QED BY <2>2, <2>3
<1> QED BY <1>3, <1>4 DEF Addrs

LEMMA AdmitAddresses ==
    ASSUME NEW list, list \in HostLists \/ list = {}
    PROVE  Admit(list) \subseteq Addresses
<1>1. list \subseteq Interface
      BY GatewaysAssumption
<1>2. QED
      BY <1>1, GatewaysAssumption DEF Admit, Interface

-----------------------------------------------------------------------------
LEMMA InitOK == Init => GInv
BY DEF Init, GInv, Numbers, OpenOnce, OneScan, PlansFit, SnapshotStaysValid,
       OneGatewayPerAddress, HeardOnOpenGateways, ToldOrDue, Ids

LEMMA HostChangesOK == GInv /\ HostChanges => GInv'
BY DEF HostChanges, GInv, Numbers, OpenOnce, OneScan, PlansFit, SnapshotStaysValid,
       OneGatewayPerAddress, HeardOnOpenGateways, ToldOrDue, Ids, Addrs, InEpoch

LEMMA EnableOrder ==
    ASSUME GInv, NEW order, IF config = None THEN EnableAuto(order) ELSE EnableExplicit(order)
    PROVE  Distinct(order)
<1>1. CASE config = None
  <2>1. PICK list \in {interfaces, None} : \E S \in SUBSET Initial(list) : order \in Increasing(S)
        BY <1>1 DEF EnableAuto, Openable
  <2>2. Initial(list) \subseteq Addresses
        BY AdmitAddresses DEF Initial, GInv, Numbers
  <2>3. QED
        BY <2>1, <2>2, AutoDistinct
<1>2. CASE config # None
  <2>1. config \in Seq(Addresses)
        BY <1>2, GatewaysAssumption DEF GInv, Numbers
  <2>2. PICK S \in SUBSET Kept(config) :
            \E f \in Increasing(S) : order = [i \in DOMAIN f |-> config[f[i]]]
        BY <1>2 DEF EnableExplicit, Openable
  <2>3. QED
        BY <2>1, <2>2, ExplicitDistinct
<1>3. QED
      BY <1>1, <1>2

LEMMA EnableOK == GInv /\ Enable => GInv'
<1> SUFFICES ASSUME GInv, Enable
             PROVE  GInv'
    OBVIOUS
<1>1. PICK order \in UNION {[1 .. n -> Addresses] : n \in 0 .. Cardinality(Addresses)} :
         /\ IF config = None THEN EnableAuto(order) ELSE EnableExplicit(order)
         /\ gateways' = Opened(order, node + 1)
         /\ next_gateway_id' = next_gateway_id + Len(order)
      BY DEF Enable
<1>2. Distinct(order)
      BY <1>1, EnableOrder
<1> DEFINE G == Opened(order, node + 1)
<1>3. next_gateway_id \in Nat /\ node \in Nat /\ epoch \in Nat
      BY DEF GInv, Numbers
<1>4. /\ Len(order) \in Nat
      /\ \A g \in G : /\ g.id \in Nat /\ g.told = node + 1
                      /\ next_gateway_id <= g.id /\ g.id < next_gateway_id + Len(order)
      /\ \A g, h \in G : g.addr = h.addr \/ g.id = h.id => g = h
      BY <1>2, <1>3, OpenedFacts
<1>5. G \subseteq [id : Nat, addr : Addresses, told : Nat]
  <2>1. \A i \in DOMAIN order : order[i] \in Addresses
        BY <1>2 DEF Distinct
  <2>2. \A g \in G : \E i \in DOMAIN order :
            g = [id |-> next_gateway_id + i - 1, addr |-> order[i], told |-> node + 1]
        BY DEF Opened
  <2> HIDE DEF G
  <2>3. SUFFICES ASSUME NEW g \in G
                 PROVE  g \in [id : Nat, addr : Addresses, told : Nat]
        OBVIOUS
  <2>4. PICK i \in DOMAIN order :
            g = [id |-> next_gateway_id + i - 1, addr |-> order[i], told |-> node + 1]
        BY <2>2
  <2>5. g.id = next_gateway_id + i - 1
        BY <2>4
  <2>6. next_gateway_id + i - 1 \in Nat
        BY <2>5, <1>4
  <2>7. node + 1 \in Nat
        BY <1>3
  <2>8. QED
        BY <2>1, <2>4, <2>6, <2>7
<1> HIDE DEF G
<1>6. /\ gateways' = G /\ next_gateway_id' = next_gateway_id + Len(order)
      /\ enabled' = TRUE /\ epoch' = epoch + 1 /\ node' = node + 1
      /\ heard' = {} /\ UNCHANGED <<config, interfaces, shutdown>> /\ ~shutdown
      BY <1>1 DEF Enable, G
<1> DEFINE new == [epoch |-> epoch + 1, stage |-> "waiting", current |-> {}, plan |-> NoDiff]
<1>7. scans' = scans \/ scans' = scans \cup {new}
      BY <1>6 DEF Enable
<1>new. /\ new.epoch = epoch + 1 /\ new.stage = "waiting"
      /\ new = [epoch |-> new.epoch, stage |-> new.stage, current |-> new.current,
                plan |-> new.plan]
      OBVIOUS
<1> HIDE DEF new
<1>8. Numbers'
      BY <1>3, <1>4, <1>5, <1>6 DEF GInv, Numbers
<1>9. OpenOnce'
      BY <1>4, <1>6 DEF OpenOnce
<1>old. OneScan /\ PlansFit
      BY DEF GInv
<1>earlier. \A s \in scans : s.epoch \in Nat /\ s.epoch <= epoch /\ s.epoch # epoch + 1
      BY <1>3, <1>old DEF OneScan
<1>10. OneScan'
      BY <1>3, <1>6, <1>7, <1>new, <1>old, <1>earlier DEF OneScan
<1>plans. PlansFit'
      BY <1>7, <1>new, <1>old DEF PlansFit
<1>11. SnapshotStaysValid'
      BY <1>6, <1>7, <1>new, <1>earlier DEF SnapshotStaysValid, InEpoch
<1>12. OneGatewayPerAddress' /\ HeardOnOpenGateways' /\ ToldOrDue'
      BY <1>4, <1>6 DEF OneGatewayPerAddress, HeardOnOpenGateways, ToldOrDue
<1>13. QED
      BY <1>8, <1>9, <1>10, <1>plans, <1>11, <1>12 DEF GInv

LEMMA SilentOK == ASSUME GInv, GoSilent, shutdown' \in {shutdown, TRUE} PROVE GInv'
BY DEF GoSilent, GInv, Numbers, OpenOnce, OneScan, PlansFit, SnapshotStaysValid,
       OneGatewayPerAddress, HeardOnOpenGateways, ToldOrDue, Ids, Addrs, InEpoch

LEMMA DropOK == GInv /\ Drop => GInv'
<1> SUFFICES ASSUME GInv, Drop
             PROVE  GInv'
    OBVIOUS
<1>1. CASE enabled
      BY <1>1, SilentOK DEF Drop
<1>2. CASE ~enabled
      BY <1>2 DEF Drop, GInv, Numbers, OpenOnce, OneScan, PlansFit, SnapshotStaysValid,
         OneGatewayPerAddress, HeardOnOpenGateways, ToldOrDue, Ids, Addrs, InEpoch
<1>3. QED
      BY <1>1, <1>2

LEMMA SendAliveOK == GInv /\ SendAlive => GInv'
<1> SUFFICES ASSUME GInv, SendAlive
             PROVE  GInv'
    OBVIOUS
<1>1. gateways \subseteq [id : Nat, addr : Addresses, told : Nat] /\ node \in Nat
      BY DEF GInv, Numbers
<1> DEFINE T == Told(gateways, node)
<1>2. /\ \A h \in T :
           /\ h.told = node
           /\ \E g \in gateways : h = [g EXCEPT !.told = node] /\ h.id = g.id /\ h.addr = g.addr
      /\ Addrs(T) = Addrs(gateways)
      /\ {h.id : h \in T} = {g.id : g \in gateways}
  <2>1. \A g \in gateways : g = [id |-> g.id, addr |-> g.addr, told |-> g.told]
        BY <1>1
  <2>2. QED
        BY <2>1, ToldFacts
<1>3. gateways' = T /\ Ids' = Ids
      BY <1>2 DEF SendAlive, Ids
<1> HIDE DEF T
<1>4. T \subseteq [id : Nat, addr : Addresses, told : Nat]
      BY <1>1, <1>2
<1>5. UNCHANGED <<config, interfaces, enabled, epoch, shutdown, next_gateway_id, heard, node, scans>>
      BY DEF SendAlive
<1>6. Numbers'
      BY <1>3, <1>4, <1>5 DEF GInv, Numbers
<1>7. OpenOnce'
      BY <1>2, <1>3, <1>5 DEF GInv, OpenOnce, SendAlive
<1>8. OneScan' /\ PlansFit'
      BY <1>5 DEF GInv, OneScan, PlansFit
<1>9. SnapshotStaysValid'
      BY <1>2, <1>3, <1>5 DEF GInv, SnapshotStaysValid, InEpoch
<1>10. OneGatewayPerAddress'
      BY <1>2, <1>3 DEF GInv, OneGatewayPerAddress
<1>11. HeardOnOpenGateways' /\ ToldOrDue'
      BY <1>2, <1>3, <1>5 DEF GInv, HeardOnOpenGateways, ToldOrDue
<1>12. QED
      BY <1>6, <1>7, <1>8, <1>9, <1>10, <1>11 DEF GInv

-----------------------------------------------------------------------------
(* A rescan thread that moves on without touching the gateways. *)
LEMMA BecomesOK ==
    ASSUME GInv, NEW s \in scans, NEW t, Becomes(s, t),
           t = [epoch |-> t.epoch, stage |-> t.stage, current |-> t.current, plan |-> t.plan],
           t.epoch = s.epoch,
           t.stage = "planned" => /\ t.plan.added \subseteq Addresses
                                  /\ t.plan.added \cap t.current = {},
           InEpoch(t) /\ t.stage \in {"scanning", "planned"} => t.current = Addrs(gateways)
    PROVE  GInv'
<1>1. /\ scans' = (scans \ {s}) \cup {t}
      /\ UNCHANGED <<config, interfaces, enabled, epoch, shutdown, gateways,
                     next_gateway_id, heard, node, broadcast_due>>
      BY DEF Becomes
<1>2. Numbers /\ OpenOnce /\ OneScan /\ PlansFit /\ SnapshotStaysValid
      BY DEF GInv
<1>3. Numbers' /\ OpenOnce'
      BY <1>1, <1>2 DEF Numbers, OpenOnce
<1>4. OneScan'
      BY <1>1, <1>2 DEF OneScan
<1>5. PlansFit'
      BY <1>1, <1>2 DEF PlansFit
<1>6. SnapshotStaysValid'
      BY <1>1, <1>2 DEF SnapshotStaysValid, InEpoch, Addrs
<1>7. OneGatewayPerAddress' /\ HeardOnOpenGateways' /\ ToldOrDue'
      BY <1>1 DEF GInv, OneGatewayPerAddress, HeardOnOpenGateways, ToldOrDue, Ids
<1>8. QED
      BY <1>3, <1>4, <1>5, <1>6, <1>7 DEF GInv

LEMMA EndsOK == ASSUME GInv, NEW s \in scans, Ends(s) PROVE GInv'
BY DEF Ends, GInv, Numbers, OpenOnce, OneScan, PlansFit, SnapshotStaysValid,
       OneGatewayPerAddress, HeardOnOpenGateways, ToldOrDue, Ids, Addrs, InEpoch

LEMMA WakesOK == ASSUME GInv, NEW s \in scans, Wakes(s) PROVE GInv'
<1>1. CASE InEpoch(s)
  <2> DEFINE t == [s EXCEPT !.stage = "woken"]
  <2>1. s = [epoch |-> s.epoch, stage |-> s.stage, current |-> s.current, plan |-> s.plan]
        BY DEF GInv, PlansFit
  <2>2. /\ t = [epoch |-> t.epoch, stage |-> t.stage, current |-> t.current, plan |-> t.plan]
        /\ t.epoch = s.epoch /\ t.stage = "woken"
        BY <2>1
  <2>3. Becomes(s, t)
        BY <1>1 DEF Wakes
  <2> HIDE DEF t
  <2>4. QED
        BY <2>2, <2>3, BecomesOK
<1>2. CASE ~InEpoch(s)
      BY <1>2, EndsOK DEF Wakes
<1>3. QED
      BY <1>1, <1>2

LEMMA SnapshotsOK == ASSUME GInv, NEW s \in scans, Snapshots(s) PROVE GInv'
<1> DEFINE t == [s EXCEPT !.stage = "scanning", !.current = Addrs(gateways)]
<1>1. s = [epoch |-> s.epoch, stage |-> s.stage, current |-> s.current, plan |-> s.plan]
      BY DEF GInv, PlansFit
<1> DEFINE addrs == Addrs(gateways)
<1>f. t = [epoch |-> s.epoch, stage |-> "scanning", current |-> addrs, plan |-> s.plan]
  <2>1. t = [s EXCEPT !.stage = "scanning", !.current = addrs]
        OBVIOUS
  <2> HIDE DEF addrs, t
  <2>2. QED
        BY <1>1, <2>1
<1>2. /\ t = [epoch |-> t.epoch, stage |-> t.stage, current |-> t.current, plan |-> t.plan]
      /\ t.epoch = s.epoch /\ t.stage = "scanning" /\ t.current = Addrs(gateways)
  <2> HIDE DEF t
  <2>1. QED
        BY <1>f
<1>3. Becomes(s, t)
      BY DEF Snapshots
<1> HIDE DEF t
<1>4. QED
      BY <1>2, <1>3, BecomesOK

LEMMA ScansOK == ASSUME GInv, NEW s \in scans, Scans(s) PROVE GInv'
<1>1. PICK list \in {interfaces, None} :
         Becomes(s, [s EXCEPT !.stage = IF Plan(list, s.current) = NoDiff
                                        THEN "waiting" ELSE "planned",
                              !.plan = Plan(list, s.current)])
      BY DEF Scans
<1> DEFINE plan == Plan(list, s.current)
           t == [s EXCEPT !.stage = IF plan = NoDiff THEN "waiting" ELSE "planned",
                          !.plan = plan]
<1>2. plan.added \subseteq Addresses /\ plan.added \cap s.current = {}
  <2>1. CASE list = None
        BY <2>1 DEF Plan, NoDiff
  <2>2. CASE list # None
    <3>1. list \in HostLists
          BY <1>1, <2>2 DEF GInv, Numbers
    <3>2. plan.added = Admit(list) \ s.current
          BY <2>2 DEF Plan, Diff
    <3>3. QED
          BY <3>1, <3>2, AdmitAddresses
  <2>3. QED
        BY <2>1, <2>2
<1> HIDE DEF plan
<1>3. /\ s = [epoch |-> s.epoch, stage |-> s.stage, current |-> s.current, plan |-> s.plan]
      /\ s.stage = "scanning"
      BY DEF GInv, PlansFit, Scans
<1> DEFINE stage == IF plan = NoDiff THEN "waiting" ELSE "planned"
<1>f. t = [epoch |-> s.epoch, stage |-> stage, current |-> s.current, plan |-> plan]
  <2>1. t = [s EXCEPT !.stage = stage, !.plan = plan]
        OBVIOUS
  <2> HIDE DEF stage, t
  <2>2. QED
        BY <1>3, <2>1
<1>4. /\ t = [epoch |-> t.epoch, stage |-> t.stage, current |-> t.current, plan |-> t.plan]
      /\ t.epoch = s.epoch /\ t.plan = plan /\ t.current = s.current
  <2> HIDE DEF stage, t
  <2>1. QED
        BY <1>f
<1>5. Becomes(s, t)
      BY <1>1 DEF plan
<1> HIDE DEF t
<1>6. InEpoch(t) => t.current = Addrs(gateways)
      BY <1>3, <1>4 DEF GInv, SnapshotStaysValid, InEpoch
<1>7. QED
      BY <1>2, <1>4, <1>5, <1>6, BecomesOK

(* Applying a plan: the snapshot still describes what is open, so what the *)
(* plan opens was not.                                                     *)
LEMMA AppliesOK ==
    ASSUME GInv, NEW s \in scans, s.stage = "planned", StillWanted(s), Applies(s)
    PROVE  GInv'
<1>1. PICK S \in SUBSET s.plan.added, told \in BOOLEAN :
       LET closed == {g \in gateways : g.addr \in s.plan.removed}
           left   == heard \ {g.id : g \in closed}
           reset  == heard # {} /\ left = {}
           now    == IF reset THEN node + 1 ELSE node
           kept   == gateways \ closed
       IN \E order \in Increasing(S) :
            /\ heard' = left
            /\ node' = now
            /\ broadcast_due' = BroadcastDue(reset, told)
            /\ gateways' = (IF reset /\ told THEN Told(kept, now) ELSE kept)
                               \cup Opened(order, now)
            /\ next_gateway_id' = next_gateway_id + Len(order)
            /\ scans' = (scans \ {s}) \cup {[s EXCEPT !.stage = "waiting"]}
            /\ UNCHANGED <<config, interfaces, enabled, epoch, shutdown>>
      BY DEF Applies, Openable
<1> DEFINE closed == {g \in gateways : g.addr \in s.plan.removed}
           left   == heard \ {g.id : g \in closed}
           reset  == heard # {} /\ left = {}
           now    == IF reset THEN node + 1 ELSE node
           kept   == gateways \ closed
           stay   == IF reset /\ told THEN Told(kept, now) ELSE kept
           t      == [s EXCEPT !.stage = "waiting"]
<1>2. PICK order \in Increasing(S) :
            /\ heard' = left
            /\ node' = now
            /\ broadcast_due' = BroadcastDue(reset, told)
            /\ gateways' = stay \cup Opened(order, now)
            /\ next_gateway_id' = next_gateway_id + Len(order)
            /\ scans' = (scans \ {s}) \cup {t}
            /\ UNCHANGED <<config, interfaces, enabled, epoch, shutdown>>
      BY <1>1
<1> DEFINE O == Opened(order, now)
<1>3. /\ Numbers /\ OpenOnce /\ OneScan /\ PlansFit /\ SnapshotStaysValid
      /\ OneGatewayPerAddress /\ HeardOnOpenGateways /\ ToldOrDue
      BY DEF GInv
<1>4. /\ next_gateway_id \in Nat /\ node \in Nat /\ epoch \in Nat /\ now \in Nat
      /\ gateways \subseteq [id : Nat, addr : Addresses, told : Nat]
      BY <1>3 DEF Numbers
<1>5. enabled /\ ~shutdown /\ InEpoch(s)
      BY <1>3 DEF StillWanted, InEpoch, Numbers
<1>6. S \subseteq Addresses /\ S \cap Addrs(gateways) = {}
      BY <1>3, <1>5 DEF PlansFit, SnapshotStaysValid
<1>7. Distinct(order) /\ \A i \in DOMAIN order : order[i] \in S
  <2>1. Distinct(order)
        BY <1>6, AutoDistinct
  <2>2. \A i \in DOMAIN order : order[i] \in S
        BY DEF Increasing
  <2>3. QED
        BY <2>1, <2>2
<1> HIDE DEF now
<1>8. /\ Len(order) \in Nat
      /\ \A g \in O : /\ g.id \in Nat /\ g.told = now
                      /\ next_gateway_id <= g.id /\ g.id < next_gateway_id + Len(order)
                      /\ g.addr \in S
      /\ \A g, h \in O : g.addr = h.addr \/ g.id = h.id => g = h
      BY <1>4, <1>7, OpenedFacts
<1>9. O \subseteq [id : Nat, addr : Addresses, told : Nat]
  <2>1. \A g \in O : \E i \in DOMAIN order :
            g = [id |-> next_gateway_id + i - 1, addr |-> order[i], told |-> now]
        BY DEF Opened
  <2> HIDE DEF O
  <2>2. SUFFICES ASSUME NEW g \in O
                 PROVE  g \in [id : Nat, addr : Addresses, told : Nat]
        OBVIOUS
  <2>3. PICK i \in DOMAIN order :
            g = [id |-> next_gateway_id + i - 1, addr |-> order[i], told |-> now]
        BY <2>1
  <2>4. next_gateway_id + i - 1 \in Nat /\ order[i] \in Addresses
        BY <2>3, <1>6, <1>7, <1>8
  <2>5. QED
        BY <2>3, <2>4, <1>4
<1>10. /\ stay \subseteq [id : Nat, addr : Addresses, told : Nat]
       /\ \A h \in stay : \E g \in kept : h.id = g.id /\ h.addr = g.addr
       /\ \A g \in kept : \E h \in stay : h.id = g.id
       /\ \A g, h \in stay : g.addr = h.addr \/ g.id = h.id => g = h
       /\ ~(reset /\ told) => stay = kept
       /\ reset /\ told => \A h \in stay : h.told = now
  <2>1. \A g, h \in gateways : g.addr = h.addr \/ g.id = h.id => g = h
        BY <1>3 DEF OneGatewayPerAddress, OpenOnce
  <2>2. \A g \in kept : g = [id |-> g.id, addr |-> g.addr, told |-> g.told]
        BY <1>4
  <2>3. CASE reset /\ told
    <3>1. stay = Told(kept, now)
          BY <2>3
    <3>2. kept \subseteq gateways
          OBVIOUS
    <3> HIDE DEF kept, stay, reset
    <3>3. /\ \A h \in stay : /\ h.told = now
                            /\ \E g \in kept : h = [g EXCEPT !.told = now]
                                              /\ h.id = g.id /\ h.addr = g.addr
          /\ {h.id : h \in stay} = {g.id : g \in kept}
          BY <2>2, <3>1, ToldFacts
    <3>4. stay \subseteq [id : Nat, addr : Addresses, told : Nat]
          BY <3>2, <3>3, <1>4
    <3>5. \A g \in kept : \E h \in stay : h.id = g.id
          BY <3>3
    <3>6. \A g, h \in stay : g.addr = h.addr \/ g.id = h.id => g = h
          BY <3>2, <3>3, <2>1
    <3>7. QED
          BY <2>3, <3>3, <3>4, <3>5, <3>6
  <2>4. CASE ~(reset /\ told)
    <3>1. stay = kept
          BY <2>4
    <3>2. QED
          BY <2>1, <2>4, <3>1, <1>4
  <2>5. QED
        BY <2>3, <2>4
<1>11. /\ kept \subseteq gateways
       /\ \A i \in left : i \in Ids => \E g \in kept : g.id = i
       /\ left \subseteq heard
       /\ reset => left = {}
       /\ ~reset => now = node
       BY DEF Ids, now
<1>12. /\ t = [epoch |-> t.epoch, stage |-> t.stage, current |-> t.current, plan |-> t.plan]
       /\ t.epoch = s.epoch /\ t.stage = "waiting"
       BY <1>3 DEF PlansFit
<1>13. broadcast_due' = IF reset THEN ~told ELSE broadcast_due
       BY <1>2 DEF BroadcastDue
<1>14. gateways' = stay \cup O
       BY <1>2
<1> HIDE DEF closed, left, reset, kept, stay, t, O
<1>15. \A g \in stay : g.id < next_gateway_id
       BY <1>3, <1>10, <1>11 DEF OpenOnce
<1>16. \A g \in stay, h \in O : g.id # h.id /\ g.addr # h.addr
  <2>1. SUFFICES ASSUME NEW g \in stay, NEW h \in O
                 PROVE  g.id # h.id /\ g.addr # h.addr
        OBVIOUS
  <2>2. g.id < next_gateway_id /\ next_gateway_id <= h.id /\ g.id \in Nat /\ h.id \in Nat
        BY <1>8, <1>10, <1>15
  <2>3. g.addr \in Addrs(gateways) /\ h.addr \in S
        BY <1>8, <1>10, <1>11 DEF Addrs
  <2>4. QED
        BY <2>2, <2>3, <1>4, <1>6
<1>17. Numbers'
       BY <1>2, <1>3, <1>4, <1>8, <1>9, <1>10, <1>14 DEF Numbers
<1>18. OpenOnce'
  <2>1. \A g \in stay \cup O : g.id < next_gateway_id + Len(order)
    <3>1. \A g \in stay : g.id \in Nat
          BY <1>10
    <3>2. QED
          BY <1>4, <1>8, <1>15, <3>1
  <2>2. \A g, h \in stay \cup O : g.id = h.id => g = h
        BY <1>8, <1>10, <1>16
  <2>3. QED
        BY <1>2, <1>5, <1>14, <2>1, <2>2 DEF OpenOnce
<1>19. OneScan'
       BY <1>2, <1>3, <1>12 DEF OneScan
<1>20. PlansFit'
       BY <1>2, <1>3, <1>12 DEF PlansFit
<1>21. SnapshotStaysValid'
  <2>1. \A r \in scans : r # s => ~InEpoch(r)
        BY <1>3, <1>5 DEF OneScan, InEpoch
  <2>2. QED
        BY <1>2, <1>12, <2>1 DEF SnapshotStaysValid, InEpoch
<1>22. OneGatewayPerAddress'
       BY <1>8, <1>10, <1>14, <1>16 DEF OneGatewayPerAddress
<1>23. HeardOnOpenGateways'
       BY <1>2, <1>3, <1>10, <1>11, <1>14 DEF HeardOnOpenGateways, Ids
<1>24. ToldOrDue'
       BY <1>2, <1>3, <1>8, <1>10, <1>11, <1>13, <1>14 DEF ToldOrDue
<1>25. QED
       BY <1>17, <1>18, <1>19, <1>20, <1>21, <1>22, <1>23, <1>24 DEF GInv

LEMMA ReceiversOK ==
    ASSUME GInv, NEW r \in receivers, Dispatches(r) \/ Exits(r)
    PROVE  GInv'
BY DEF Dispatches, Exits, GatewayLive, GInv, Numbers, OpenOnce, OneScan, PlansFit,
       SnapshotStaysValid, OneGatewayPerAddress, HeardOnOpenGateways, ToldOrDue, Ids,
       Addrs, InEpoch

LEMMA StutterOK == GInv /\ UNCHANGED vars => GInv'
BY DEF vars, GInv, Numbers, OpenOnce, OneScan, PlansFit, SnapshotStaysValid,
       OneGatewayPerAddress, HeardOnOpenGateways, ToldOrDue, Ids, Addrs, InEpoch

LEMMA StepOK == GInv /\ [Next]_vars => GInv'
<1> SUFFICES ASSUME GInv, [Next]_vars
             PROVE  GInv'
    OBVIOUS
<1>1. CASE HostChanges
      BY <1>1, HostChangesOK
<1>2. CASE Enable
      BY <1>2, EnableOK
<1>3. CASE Disable
      BY <1>3, SilentOK DEF Disable
<1>4. CASE Drop
      BY <1>4, DropOK
<1>5. CASE SendAlive
      BY <1>5, SendAliveOK
<1>6. ASSUME NEW s \in scans, Rescan(s)
      PROVE  GInv'
      BY <1>6, WakesOK, SnapshotsOK, ScansOK, AppliesOK, EndsOK DEF Rescan
<1>7. ASSUME NEW r \in receivers, Dispatches(r) \/ Exits(r)
      PROVE  GInv'
      BY <1>7, ReceiversOK
<1>8. CASE UNCHANGED vars
      BY <1>8, StutterOK
<1>9. QED
      BY <1>1, <1>2, <1>3, <1>4, <1>5, <1>6, <1>7, <1>8 DEF Next

(* The strengthened invariant holds always: ids are never reused, an epoch *)
(* has one rescan thread, and a plan fits the gateways it was made for.    *)
THEOREM GatewaysInvariance == Spec => []GInv
BY InitOK, StepOK, PTL DEF Spec

(* No address ever has two gateways, whatever rescans of earlier epochs    *)
(* are still under way (runtime.rs, enable and spawn_rescan).              *)
THEOREM AlwaysOneGatewayPerAddress == Spec => []OneGatewayPerAddress
<1>1. GInv => OneGatewayPerAddress
      BY DEF GInv
<1>2. QED
      BY <1>1, GatewaysInvariance, PTL

(* A rescan's snapshot is valid for as long as its epoch lasts, though the *)
(* lock is released (the comment in spawn_rescan).                         *)
THEOREM SnapshotAlwaysValid == Spec => []SnapshotStaysValid
<1>1. GInv => SnapshotStaysValid
      BY DEF GInv
<1>2. QED
      BY <1>1, GatewaysInvariance, PTL

(* Peers are on record through open gateways only (gateway_live).          *)
THEOREM AlwaysHeardOnOpenGateways == Spec => []HeardOnOpenGateways
<1>1. GInv => HeardOnOpenGateways
      BY DEF GInv
<1>2. QED
      BY <1>1, GatewaysInvariance, PTL

(* A NodeId that a network has not been told is due to be broadcast.       *)
THEOREM AlwaysToldOrDue == Spec => []ToldOrDue
<1>1. GInv => ToldOrDue
      BY DEF GInv
<1>2. QED
      BY <1>1, GatewaysInvariance, PTL

-----------------------------------------------------------------------------
(* The NodeId that is announced first. *)

OldOrCurrent == \A g \in gateways' : g.id \notin Ids => g.told = node'

LEMMA OpenedTold ==
    ASSUME NEW order, NEW id, NEW g \in Opened(order, id)
    PROVE  g.told = id
BY DEF Opened

(* Announcing a NodeId on some of the gateways brings no id about.         *)
LEMMA ToldOld ==
    ASSUME Numbers, NEW G \in SUBSET gateways, NEW id, NEW g \in Told(G, id) \cup G
    PROVE  g.id \in Ids
<1>1. \A h \in G : h = [id |-> h.id, addr |-> h.addr, told |-> h.told]
      BY DEF Numbers
<1>2. g.id \in {h.id : h \in G}
      BY <1>1, ToldFacts
<1>3. QED
      BY <1>2 DEF Ids

LEMMA AppliesCurrent ==
    ASSUME Numbers, NEW s, Applies(s)
    PROVE  OldOrCurrent
<1>1. PICK told \in BOOLEAN :
       LET closed == {g \in gateways : g.addr \in s.plan.removed}
           left   == heard \ {g.id : g \in closed}
           reset  == heard # {} /\ left = {}
           now    == IF reset THEN node + 1 ELSE node
           kept   == gateways \ closed
       IN \E order :
            /\ node' = now
            /\ gateways' = (IF reset /\ told THEN Told(kept, now) ELSE kept)
                               \cup Opened(order, now)
      BY DEF Applies
<1> DEFINE closed == {g \in gateways : g.addr \in s.plan.removed}
           left   == heard \ {g.id : g \in closed}
           reset  == heard # {} /\ left = {}
           now    == IF reset THEN node + 1 ELSE node
           kept   == gateways \ closed
<1>2. PICK order : /\ node' = now
                   /\ gateways' \subseteq Told(kept, now) \cup kept \cup Opened(order, now)
      BY <1>1
<1>3. kept \in SUBSET gateways
      OBVIOUS
<1> HIDE DEF kept, now
<1>4. \A g \in Told(kept, now) \cup kept : g.id \in Ids
      BY <1>3, ToldOld
<1>5. \A g \in Opened(order, now) : g.told = now
      BY OpenedTold
<1>6. QED
      BY <1>2, <1>4, <1>5 DEF OldOrCurrent

(* Elsewhere gateways only stay, go or are told.                           *)
LEMMA StepCurrent ==
    ASSUME GInv, [Next]_vars
    PROVE  OldOrCurrent
<1>1. Numbers
      BY DEF GInv
<1>2. ASSUME gateways' \subseteq gateways
      PROVE  OldOrCurrent
      BY <1>2 DEF OldOrCurrent, Ids
<1>3. CASE Enable
  <2>1. PICK order : gateways' = Opened(order, node + 1)
        BY <1>3 DEF Enable
  <2>2. node' = node + 1
        BY <1>3 DEF Enable
  <2>3. QED
        BY <2>1, <2>2, OpenedTold DEF OldOrCurrent
<1>4. CASE HostChanges \/ Disable \/ Drop
      BY <1>2, <1>4 DEF HostChanges, Disable, Drop, GoSilent
<1>5. CASE SendAlive
      BY <1>1, <1>5, ToldOld DEF SendAlive, OldOrCurrent
<1>6. ASSUME NEW s \in scans, Rescan(s)
      PROVE  OldOrCurrent
  <2>1. CASE Applies(s)
        BY <1>1, <2>1, AppliesCurrent
  <2>2. CASE ~Applies(s)
        BY <1>2, <1>6, <2>2 DEF Rescan, Wakes, Snapshots, Scans, Becomes, Ends
  <2>3. QED
        BY <2>1, <2>2
<1>7. ASSUME NEW r \in receivers, Dispatches(r) \/ Exits(r)
      PROVE  OldOrCurrent
      BY <1>2, <1>7 DEF Dispatches, Exits
<1>8. CASE UNCHANGED vars
      BY <1>2, <1>8 DEF vars
<1>9. QED
      BY <1>3, <1>4, <1>5, <1>6, <1>7, <1>8 DEF Next

(* A gateway opened by enabling or by a rescan announces the NodeId that   *)
(* the peer has after the closures of the same rescan (spawn_rescan closes *)
(* before it opens).                                                       *)
THEOREM FirstAliveAlwaysCurrent == Spec => FirstAliveIsCurrent
<1>1. GInv /\ [Next]_vars =>
          [\A g \in gateways' : g.id \notin Ids => g.told = node']_vars
      BY StepCurrent DEF OldOrCurrent
<1>2. QED
      BY <1>1, GatewaysInvariance, PTL DEF Spec, FirstAliveIsCurrent
=============================================================================
