------------------------------ MODULE Gateways ------------------------------
(***************************************************************************)
(* The threads of a peer and the gateways they share                       *)
(* (src/crates/tactus/src/runtime.rs, iface.rs): enabling and disabling    *)
(* begin and end epochs, each with its own rescan thread and receivers,    *)
(* which learn of the end only when they next hold the engine's lock.      *)
(*                                                                         *)
(* Steps are what runs under one hold of the lock, and the enumeration of  *)
(* the interfaces, which runs under none.  The host's interfaces change,   *)
(* enumerations, openings and sockets fail, MaxUpsets times altogether.    *)
(* Of the engine's state the model keeps what gateways are about: through  *)
(* which gateways session members are heard, the NodeId, and which NodeId  *)
(* each network was last told.  Members leave with their gateway only; a   *)
(* receiver whose socket fails for another reason than a timeout is left   *)
(* out.                                                                    *)
(***************************************************************************)
EXTENDS Integers, Sequences, FiniteSets

CONSTANTS
    None,        \* Gateways::Auto, where an explicit list could be
    Addresses,   \* IPv4 addresses, in their order
    Loopback,    \* 127.0.0.1
    Unspecified, \* 0.0.0.0
    HostLists,   \* interface lists the host may report
    Configs,     \* Config::gateways: explicit lists of addresses, or None
    Roles,       \* the kinds of receiver of a gateway
    MaxEpoch,    \* epochs begun by enabling or disabling
    MaxUpsets

Interface == [addr : Addresses, up : BOOLEAN, loopback : BOOLEAN,
              multicast : BOOLEAN, point_to_point : BOOLEAN]

ASSUME GatewaysAssumption ==
    /\ Addresses \subseteq Nat
    /\ Loopback \in Addresses
    /\ \A list \in HostLists : list \subseteq Interface
    /\ \A c \in Configs : c = None \/ c \in Seq(Addresses)
    /\ MaxEpoch \in Nat

VARIABLES
    config,           \* the configured gateways
    interfaces,       \* what the host would report now
    upsets,           \* changes and failures so far
    enabled, epoch, shutdown,
    gateways,         \* open gateways: id, address, NodeId last announced
    next_gateway_id,
    heard,            \* ids of the gateways with a session member in `peers`
    node,             \* NodeIds are numbered as they are drawn
    broadcast_due,
    scans,            \* rescan threads
    receivers         \* receiver threads

vars == <<config, interfaces, upsets, enabled, epoch, shutdown, gateways,
          next_gateway_id, heard, node, broadcast_due, scans, receivers>>

Ids == {g.id : g \in gateways}
Addrs(G) == {g.addr : g \in G}
NoDiff == [added |-> {}, removed |-> {}]

-----------------------------------------------------------------------------
(* Which gateways there should be. *)

Admit(list) ==
    {Loopback} \cup
    {i.addr : i \in {j \in list : /\ j.up /\ j.multicast
                                  /\ ~j.point_to_point /\ ~j.loopback
                                  /\ j.addr \notin {Loopback, Unspecified}}}

DiffFaultSwapped(current, wanted) ==
    [added |-> current \ wanted, removed |-> wanted \ current]

Diff(current, wanted) == [added |-> wanted \ current, removed |-> current \ wanted]

(* Enumeration: the present list, or None when it fails. *)
Enumerated(list) ==
    \/ list = interfaces /\ upsets' = upsets
    \/ list = None /\ upsets < MaxUpsets /\ upsets' = upsets + 1

(* A failed enumeration changes nothing ... *)
Plan(list, current) == IF list = None THEN NoDiff ELSE Diff(current, Admit(list))

(* ... but when enabling, loopback is opened even then. *)
Initial(list) == Admit(IF list = None THEN {} ELSE list)

-----------------------------------------------------------------------------
(* Opening and closing. *)

(* The members of K in their order. *)
Increasing(K) ==
    {f \in UNION {[1 .. n -> K] : n \in 0 .. Cardinality(K)} :
        /\ \A i, j \in DOMAIN f : i < j => f[i] < f[j]
        /\ \A k \in K : \E i \in DOMAIN f : f[i] = k}

KeptFaultAll(list) == DOMAIN list

(* Repeats in an explicit list are dropped, keeping the first. *)
Kept(list) == {i \in DOMAIN list : \A j \in 1 .. (i - 1) : list[j] # list[i]}

(* Opening the addresses of `order` one after another, under a NodeId that *)
(* is announced at once, starts the receivers of each.                     *)
OpenedFaultEarly(order, id) ==
    {[id |-> next_gateway_id + i - 1, addr |-> order[i], told |-> node] : i \in DOMAIN order}

Opened(order, id) ==
    {[id |-> next_gateway_id + i - 1, addr |-> order[i], told |-> id] : i \in DOMAIN order}

Receivers(G, e) ==
    [gateway : {g.id : g \in G}, epoch : {e}, role : Roles]

Told(G, id) == {[g EXCEPT !.told = id] : g \in G}

(* A gateway that cannot be opened, now and then. *)
Openable(wanted, left) ==
    {S \in SUBSET wanted : Cardinality(wanted \ S) <= left}

-----------------------------------------------------------------------------
Init ==
    /\ config \in Configs
    /\ interfaces \in HostLists
    /\ upsets = 0
    /\ enabled = FALSE /\ epoch = 0 /\ shutdown = FALSE
    /\ gateways = {} /\ next_gateway_id = 0 /\ heard = {}
    /\ node = 0 /\ broadcast_due = FALSE
    /\ scans = {} /\ receivers = {}

HostChanges ==
    /\ upsets < MaxUpsets
    /\ interfaces' \in HostLists \ {interfaces}
    /\ upsets' = upsets + 1
    /\ UNCHANGED <<config, enabled, epoch, shutdown, gateways, next_gateway_id,
                   heard, node, broadcast_due, scans, receivers>>

(* What enabling opens: an order of addresses, of which some may fail. *)
EnableAuto(order) ==
    \E list \in {interfaces, None} :
       \E S \in Openable(Initial(list), MaxUpsets - upsets - (IF list = None THEN 1 ELSE 0)) :
          /\ list = None => upsets < MaxUpsets
          /\ order \in Increasing(S)
          /\ upsets' = upsets + Cardinality(Initial(list) \ S)
                              + (IF list = None THEN 1 ELSE 0)

EnableExplicit(order) ==
    \E S \in Openable(Kept(config), MaxUpsets - upsets) :
       /\ \E f \in Increasing(S) : order = [i \in DOMAIN f |-> config[f[i]]]
       /\ upsets' = upsets + Cardinality(Kept(config) \ S)

Enable ==
    /\ ~shutdown /\ ~enabled /\ epoch < MaxEpoch
    /\ enabled' = TRUE
    /\ epoch' = epoch + 1
    /\ node' = node + 1
    /\ heard' = {}
    /\ broadcast_due' = FALSE
    /\ \E order \in UNION {[1 .. n -> Addresses] : n \in 0 .. Cardinality(Addresses)} :
         /\ IF config = None THEN EnableAuto(order) ELSE EnableExplicit(order)
         /\ gateways' = Opened(order, node + 1)
         /\ next_gateway_id' = next_gateway_id + Len(order)
         /\ receivers' = receivers \cup Receivers(gateways', epoch')
    /\ scans' = IF config # None THEN scans
                ELSE scans \cup {[epoch |-> epoch', stage |-> "waiting",
                                  current |-> {}, plan |-> NoDiff]}
    /\ UNCHANGED <<config, interfaces, shutdown>>

GoSilent ==
    /\ enabled' = FALSE
    /\ epoch' = epoch + 1
    /\ gateways' = {} /\ heard' = {}
    /\ broadcast_due' = FALSE
    /\ UNCHANGED <<config, interfaces, upsets, next_gateway_id, node, scans, receivers>>

Disable == enabled /\ GoSilent /\ UNCHANGED shutdown

(* The handle is dropped. *)
Drop ==
    /\ ~shutdown /\ shutdown' = TRUE
    /\ IF enabled THEN GoSilent
       ELSE UNCHANGED <<config, interfaces, upsets, enabled, epoch, gateways,
                        next_gateway_id, heard, node, broadcast_due, scans, receivers>>

(* A broadcast on every gateway: the periodic one, or the delayed one. *)
SendAlive ==
    /\ enabled
    /\ gateways' = Told(gateways, node)
    /\ broadcast_due' = FALSE
    /\ UNCHANGED <<config, interfaces, upsets, enabled, epoch, shutdown,
                   next_gateway_id, heard, node, scans, receivers>>

-----------------------------------------------------------------------------
(* The rescan threads. *)

InEpoch(s) == ~shutdown /\ enabled /\ epoch = s.epoch

Becomes(s, t) ==
    /\ scans' = (scans \ {s}) \cup {t}
    /\ UNCHANGED <<config, interfaces, enabled, epoch, shutdown, gateways,
                   next_gateway_id, heard, node, broadcast_due, receivers>>

(* The thread returns. *)
Ends(s) ==
    /\ scans' = scans \ {s}
    /\ UNCHANGED <<config, interfaces, upsets, enabled, epoch, shutdown, gateways,
                   next_gateway_id, heard, node, broadcast_due, receivers>>

(* wait_in_epoch returns: the lock is released ... *)
Wakes(s) ==
    /\ s.stage = "waiting"
    /\ IF InEpoch(s) THEN Becomes(s, [s EXCEPT !.stage = "woken"]) /\ UNCHANGED upsets
       ELSE Ends(s)

(* ... taken for the snapshot, released again ... *)
Snapshots(s) ==
    /\ s.stage = "woken"
    /\ Becomes(s, [s EXCEPT !.stage = "scanning", !.current = Addrs(gateways)])
    /\ UNCHANGED upsets

(* ... for the enumeration ... *)
Scans(s) ==
    /\ s.stage = "scanning"
    /\ \E list \in {interfaces, None} :
         /\ Enumerated(list)
         /\ LET plan == Plan(list, s.current)
            IN  Becomes(s, [s EXCEPT !.stage = IF plan = NoDiff THEN "waiting" ELSE "planned",
                                     !.plan = plan])

(* ... and taken to close and open what the plan says, if the epoch still  *)
(* lasts.  Closing the last gateway a session member is heard on founds a  *)
(* session under a new NodeId, announced at once or a little later.        *)
StillWantedFaultEnabled(s) == enabled
StillWanted(s) == enabled /\ epoch = s.epoch

BroadcastDueFaultForgotten(reset, told) == broadcast_due
BroadcastDue(reset, told) == IF reset THEN ~told ELSE broadcast_due

Applies(s) ==
    \E S \in Openable(s.plan.added, MaxUpsets - upsets), told \in BOOLEAN :
       LET closed == {g \in gateways : g.addr \in s.plan.removed}
           left   == heard \ {g.id : g \in closed}
           reset  == heard # {} /\ left = {}
           now    == IF reset THEN node + 1 ELSE node
           kept   == gateways \ closed
       IN \E order \in Increasing(S) :
            /\ heard' = left
            /\ node' = now
            /\ broadcast_due' = BroadcastDue(reset, told)
            /\ gateways' = (IF reset /\ told THEN Told(kept, now) ELSE kept)
                               \cup Opened(order, now)
            /\ next_gateway_id' = next_gateway_id + Len(order)
            /\ receivers' = receivers \cup Receivers(Opened(order, now), s.epoch)
            /\ scans' = (scans \ {s}) \cup {[s EXCEPT !.stage = "waiting"]}
            /\ upsets' = upsets + Cardinality(s.plan.added \ S)
            /\ UNCHANGED <<config, interfaces, enabled, epoch, shutdown>>

Rescan(s) ==
    \/ Wakes(s) \/ Snapshots(s) \/ Scans(s)
    \/ s.stage = "planned" /\ StillWanted(s) /\ Applies(s)
    \/ s.stage = "planned" /\ ~StillWanted(s) /\ Ends(s)

-----------------------------------------------------------------------------
(* The receivers. *)

GatewayLiveFaultEpochOnly(r) == enabled /\ epoch = r.epoch
GatewayLiveFaultEpochBlind(r) == enabled

GatewayLive(r) == enabled /\ epoch = r.epoch /\ r.gateway \in Ids

(* A datagram is dispatched.  It was read off the socket before the lock   *)
(* was won, any time ago; here, it is from a session member.               *)
Dispatches(r) ==
    /\ GatewayLive(r)
    /\ heard' = heard \cup {r.gateway}
    /\ UNCHANGED <<config, interfaces, upsets, enabled, epoch, shutdown, gateways,
                   next_gateway_id, node, broadcast_due, scans, receivers>>

(* With a datagram or after a timeout, the receiver finds itself obsolete. *)
Exits(r) ==
    /\ ~GatewayLive(r)
    /\ receivers' = receivers \ {r}
    /\ UNCHANGED <<config, interfaces, upsets, enabled, epoch, shutdown, gateways,
                   next_gateway_id, heard, node, broadcast_due, scans>>

Next ==
    \/ HostChanges \/ Enable \/ Disable \/ Drop \/ SendAlive
    \/ \E s \in scans : Rescan(s)
    \/ \E r \in receivers : Dispatches(r) \/ Exits(r)

Spec == Init /\ [][Next]_vars

(* Threads run: each rescan gets on, an obsolete receiver wakes up (sockets *)
(* have a read timeout), housekeeping broadcasts.                          *)
FairSpec ==
    /\ Spec
    /\ \A e \in 1 .. MaxEpoch : WF_vars(\E s \in scans : s.epoch = e /\ Rescan(s))
    /\ WF_vars(\E r \in receivers : Exits(r))
    /\ WF_vars(SendAlive)
-----------------------------------------------------------------------------
(* What must hold. *)

(* At most one gateway per address: a second one would send and hear       *)
(* everything twice.  Rescans of an ended epoch, explicit lists with       *)
(* repeats and openings that fail must not bring one about.                *)
OneGatewayPerAddress ==
    \A g, h \in gateways : g.addr = h.addr => g = h

(* While a rescan of the current epoch enumerates without the lock, its    *)
(* snapshot of the gateways stays what they are.                           *)
SnapshotStaysValid ==
    \A s \in scans : InEpoch(s) /\ s.stage \in {"scanning", "planned"}
                        => s.current = Addrs(gateways)

(* No peer is on record through a gateway that is not open, however late   *)
(* its datagram wins the lock: nothing would ever remove it with the       *)
(* gateway.                                                                *)
HeardOnOpenGateways == heard \subseteq Ids

(* The first Alive on a gateway a rescan opens carries the NodeId after    *)
(* the reset that the same rescan's closures may have caused.              *)
FirstAliveIsCurrent ==
    [][\A g \in gateways' : g.id \notin Ids => g.told = node']_vars

(* A network is never left believing in an earlier NodeId with no          *)
(* broadcast on its way.                                                   *)
ToldOrDue == \A g \in gateways : g.told # node => broadcast_due

(* Once the host is stable and nothing fails any more, an enabled peer     *)
(* comes to have exactly the gateways the interfaces admit.                *)
GatewaysFollow ==
    <>[](enabled /\ config = None) => <>[](Addrs(gateways) = Admit(interfaces))

(* Threads of an ended epoch or a closed gateway end, and with the last    *)
(* receiver the gateway's sockets.                                         *)
Obsolete ==
    \/ \E s \in scans : ~InEpoch(s)
    \/ \E r \in receivers : ~InEpoch(r) \/ r.gateway \notin Ids

ThreadsEnd == []<>~Obsolete
=============================================================================
