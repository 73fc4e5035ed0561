------------------------------ MODULE Channels ------------------------------
(***************************************************************************)
(* The control plane of one audio channel between its publisher and a      *)
(* subscriber that share gateways (src/crates/tactus/src/audio.rs):         *)
(* announcements, requests, their expiry, and what departures, closed      *)
(* gateways and changes of identity do to them.                            *)
(*                                                                         *)
(* Time advances by ticks, in each of which the publisher announces;       *)
(* deadlines are kept as the ticks left until them.  The constants scale   *)
(* the code's periods and keep their order: announcements are at least as  *)
(* frequent as the padding is long, the ttl is the period of requests.     *)
(* Datagrams may be lost, repeated and reordered, the application and      *)
(* discovery do what they like, until the environment turns calm: from     *)
(* then on nothing is lost, delivery takes less than a tick, and nobody    *)
(* calls, leaves or resets.                                                *)
(*                                                                         *)
(* Which path the round-trip statistics prefer is left open, so they and   *)
(* the pings that feed them are left out.  Both peers stay in one session. *)
(***************************************************************************)
EXTENDS Integers, FiniteSets

CONSTANTS
    None,          \* no such entry
    Publishers,    \* NodeIds the publisher goes by
    Subscribers,   \* NodeIds the subscriber goes by
    Gateways,      \* networks the two peers share
    Ttl,           \* of announcements and requests
    Padding,       \* PRUNE_PADDING
    RequestPeriod, \* REQUEST_PERIOD
    MaxInFlight,   \* datagrams in flight before the environment is calm
    MaxIdentities  \* NodeIds drawn by the two peers together

ASSUME ChannelsAssumption ==
    /\ None \notin Int
    /\ None \notin [peer : Publishers, left : Int]
    /\ Ttl \in Nat /\ Padding \in Nat /\ RequestPeriod \in Nat
    /\ Publishers \cap Subscribers = {}

VARIABLES
    drawn,   \* NodeIds used so far
    pub,     \* the publisher: node, endpoints learned, announce_due
    stage,   \* the channel: "unborn", "live" (it has a sink), "gone"
    requesters, \* of the sink: ticks left of each NodeId's request, or None
    sub,     \* the subscriber: node, gateways, peers
    known,   \* its entries of the channel, by gateway
    source,  \* its subscription: ticks since the last request, or None
    wire,    \* datagrams in flight
    due,     \* peers whose housekeeping has not run in this tick
    calm

vars == <<drawn, pub, stage, requesters, sub, known, source, wire, due, calm>>

(* What the peer table of the subscriber says of an entry: not there,      *)
(* there without an audio endpoint, or with one.  Of the publisher's table *)
(* only the endpoints matter.                                              *)
Listings == {"absent", "plain", "audio"}
Known == [peer : Publishers, left : Int]
Messages ==
    [type : {"announce", "byes"}, from : Publishers, gw : Gateways]
      \cup [type : {"request", "stop"}, from : Subscribers, gw : Gateways]

-----------------------------------------------------------------------------
(* Deadlines. *)

(* The prune timer waits for the earliest deadline and the padding, then   *)
(* takes all that have expired.                                            *)
PruneFaultNever(lefts) == FALSE
PruneDue(lefts) == \E l \in lefts : l <= -Padding

(* Beyond the padding one deadline is as past as another. *)
Later(left) == IF left < -Padding THEN left ELSE left - 1

Lefts(f) == {f[x] : x \in {y \in DOMAIN f : f[y] # None}}
KnownLefts == {known[g].left : g \in {h \in Gateways : known[h] # None}}

Unexpired(f) == [x \in DOMAIN f |-> IF f[x] # None /\ f[x] > 0 THEN f[x] ELSE None]
Pruned(f) == IF PruneDue(Lefts(f)) THEN Unexpired(f) ELSE f

KnownPruned ==
    [g \in Gateways |->
        IF PruneDue(KnownLefts) /\ known[g] # None /\ known[g].left <= 0
        THEN None ELSE known[g]]

-----------------------------------------------------------------------------
(* Sending. *)

(* In a storm any part of what is sent is lost. *)
Sent(msgs) ==
    IF calm THEN wire' = wire \cup msgs
    ELSE \E m \in SUBSET msgs :
            /\ wire' = wire \cup m
            /\ m # {} => Cardinality(wire \cup m) <= MaxInFlight

Endpoints(node) == {g \in Gateways : sub.peers[<<node, g>>] = "audio"}

(* session_endpoints: one copy to each entry with an endpoint, whatever    *)
(* NodeId it is listed under.                                              *)
ToSubscriber(type) ==
    {[type |-> type, from |-> pub.node, gw |-> e[2]] : e \in pub.endpoints}

(* send_request: the publisher is read off any known entry, and any of its *)
(* paths may be the best one; without either nothing is sent.              *)
Requests(type) ==
    {{[type |-> type, from |-> sub.node, gw |-> h]} :
        h \in UNION {Endpoints(known[g].peer) : g \in {k \in Gateways : known[k] # None}}}

SendRequest(type) ==
    \/ \E r \in Requests(type) : Sent(r)
    \/ (\E g \in Gateways : /\ known[g] # None
                            /\ Endpoints(known[g].peer) = {}) /\ Sent({})
    \/ (\A g \in Gateways : known[g] = None) /\ Sent({})
-----------------------------------------------------------------------------
Init ==
    /\ \E p \in Publishers :
         pub = [node |-> p, endpoints |-> {}, announce_due |-> TRUE]
    /\ stage = "unborn"
    /\ requesters = [s \in Subscribers |-> None]
    /\ \E s \in Subscribers :
         sub = [node |-> s, peers |-> [e \in Publishers \X Gateways |-> "absent"],
                gateways |-> Gateways]
    /\ known = [g \in Gateways |-> None]
    /\ source = None
    /\ drawn = {pub.node, sub.node}
    /\ wire = {} /\ due = {} /\ calm = FALSE

(* The publisher's application. *)
Publish ==
    /\ ~calm /\ stage = "unborn"
    /\ stage' = "live"
    /\ pub' = [pub EXCEPT !.announce_due = TRUE]
    /\ UNCHANGED <<drawn, requesters, sub, known, source, wire, due, calm>>

(* Also disabling LinkAudio, which withdraws what is published. *)
Unpublish ==
    /\ ~calm /\ stage = "live"
    /\ stage' = "gone"
    /\ requesters' = [s \in Subscribers |-> None]
    /\ Sent(ToSubscriber("byes"))
    /\ UNCHANGED <<drawn, pub, sub, known, source, due, calm>>

(* Audio is written: the requests that have expired go, without padding. *)
Write ==
    /\ stage = "live"
    /\ requesters' = Unexpired(requesters)
    /\ UNCHANGED <<drawn, pub, stage, sub, known, source, wire, due, calm>>

(* The subscriber's application. *)
Subscribe ==
    /\ ~calm
    /\ source' = IF source = None THEN 0 ELSE source
    /\ SendRequest("request")
    /\ UNCHANGED <<drawn, pub, stage, requesters, sub, known, due, calm>>

Unsubscribe ==
    /\ ~calm /\ source # None
    /\ source' = None
    /\ SendRequest("stop")
    /\ UNCHANGED <<drawn, pub, stage, requesters, sub, known, due, calm>>

(* Disabling LinkAudio forgets channels and subscriptions; no stop is sent. *)
DisableAudio ==
    /\ ~calm
    /\ source' = None
    /\ known' = [g \in Gateways |-> None]
    /\ UNCHANGED <<drawn, pub, stage, requesters, sub, wire, due, calm>>

-----------------------------------------------------------------------------
(* Housekeeping. *)

PublisherPass ==
    /\ requesters' = Pruned(requesters)
    /\ pub' = [pub EXCEPT !.announce_due = FALSE]
    /\ Sent(IF pub.announce_due /\ stage = "live" THEN ToSubscriber("announce") ELSE {})
    /\ due' = due \ {"publisher"}
    /\ UNCHANGED <<drawn, stage, sub, known, source, calm>>

RequestDueFaultNever == FALSE
RequestDue == source # None /\ source >= RequestPeriod

SubscriberPass ==
    /\ IF RequestDue THEN source' = 0 /\ SendRequest("request")
       ELSE source' = source /\ Sent({})
    /\ known' = KnownPruned
    /\ due' = due \ {"subscriber"}
    /\ UNCHANGED <<drawn, pub, stage, requesters, sub, calm>>

(* The housekeeping threads are never a whole tick late. *)
Tick ==
    /\ due = {}
    /\ calm => wire = {}
    /\ due' = {"publisher", "subscriber"}
    /\ pub' = [pub EXCEPT !.announce_due = TRUE]
    /\ requesters' = [s \in Subscribers |->
                        IF requesters[s] = None THEN None ELSE Later(requesters[s])]
    /\ known' = [g \in Gateways |->
                   IF known[g] = None THEN None ELSE [known[g] EXCEPT !.left = Later(@)]]
    /\ source' = IF source = None \/ source >= RequestPeriod THEN source ELSE source + 1
    /\ UNCHANGED <<drawn, stage, sub, wire, calm>>

-----------------------------------------------------------------------------
(* Datagrams. *)

(* The channel content counts only from an endpoint learned in discovery. *)
Announced(m) ==
    known' = IF m.gw \in sub.gateways /\ sub.peers[<<m.from, m.gw>>] = "audio"
             THEN [known EXCEPT ![m.gw] = [peer |-> m.from, left |-> Ttl]]
             ELSE known

Withdrawn(m) ==
    known' = IF /\ m.gw \in sub.gateways
                /\ known[m.gw] # None /\ known[m.gw].peer = m.from
             THEN [known EXCEPT ![m.gw] = None]
             ELSE known

Requested(m) ==
    requesters' = IF stage # "live" THEN requesters
                  ELSE [requesters EXCEPT ![m.from] = Ttl]

Stopped(m) == requesters' = [requesters EXCEPT ![m.from] = None]

(* handle_datagram; in a storm the network may deliver it again. *)
Arrives ==
    \E m \in wire :
       /\ wire' \in IF calm THEN {wire \ {m}} ELSE {wire, wire \ {m}}
       /\ \/ m.type = "announce" /\ Announced(m) /\ UNCHANGED requesters
          \/ m.type = "byes" /\ Withdrawn(m) /\ UNCHANGED requesters
          \/ m.type = "request" /\ Requested(m) /\ UNCHANGED known
          \/ m.type = "stop" /\ Stopped(m) /\ UNCHANGED known
       /\ UNCHANGED <<drawn, pub, stage, sub, source, due, calm>>

-----------------------------------------------------------------------------
(* Discovery, as far as the peer tables and the channel feel it. *)

PeerLeftFaultKeeps(node) == known

(* peer_left: the channels of a publisher that has gone, on all gateways. *)
PeerLeft(node) ==
    [g \in Gateways |->
        IF known[g] # None /\ known[g].peer = node THEN None ELSE known[g]]

(* An Alive or a Response of the publisher, under its present NodeId. *)
PublisherSeen ==
    /\ \E g \in sub.gateways, l \in Listings \ {"absent"} :
         sub' = [sub EXCEPT !.peers[<<pub.node, g>>] = l]
    /\ ~calm
    /\ UNCHANGED <<drawn, pub, stage, requesters, known, source, wire, due, calm>>

SubscriberSeen ==
    /\ \E g \in sub.gateways : pub' = [pub EXCEPT !.endpoints = @ \cup {<<sub.node, g>>}]
    /\ ~calm
    /\ UNCHANGED <<drawn, stage, requesters, sub, known, source, wire, due, calm>>

(* A ByeBye on one gateway, from the publisher or late from before a reset. *)
PublisherByeBye ==
    /\ ~calm
    /\ \E g \in sub.gateways, n \in Publishers :
         /\ sub' = [sub EXCEPT !.peers[<<n, g>>] = "absent"]
         /\ known' = PeerLeft(n)
    /\ UNCHANGED <<drawn, pub, stage, requesters, source, wire, due, calm>>

ListedAfter(node, g) == \E h \in Gateways \ {g} : sub.peers[<<node, h>>] # "absent"

(* An entry expires: only the last one of a node takes the channels. *)
PublisherExpires ==
    /\ ~calm
    /\ \E g \in Gateways, n \in Publishers :
         /\ sub.peers[<<n, g>>] # "absent"
         /\ sub' = [sub EXCEPT !.peers[<<n, g>>] = "absent"]
         /\ known' = IF ListedAfter(n, g) THEN known ELSE PeerLeft(n)
    /\ UNCHANGED <<drawn, pub, stage, requesters, source, wire, due, calm>>

SubscriberGone ==
    /\ ~calm
    /\ \E e \in pub.endpoints : pub' = [pub EXCEPT !.endpoints = @ \ {e}]
    /\ UNCHANGED <<drawn, stage, requesters, sub, known, source, wire, due, calm>>

(* close_gateway at the subscriber, with gateway_closed and, for those it  *)
(* was the last entry of, peer_left.                                       *)
GatewayCloses ==
    /\ ~calm
    /\ \E g \in sub.gateways :
         /\ sub' = [sub EXCEPT !.gateways = @ \ {g},
                      !.peers = [e \in DOMAIN @ |-> IF e[2] = g THEN "absent" ELSE @[e]]]
         /\ known' = [h \in Gateways |->
                        IF \/ h = g
                           \/ /\ known[h] # None
                              /\ sub.peers[<<known[h].peer, g>>] # "absent"
                              /\ ~ListedAfter(known[h].peer, g)
                        THEN None ELSE known[h]]
    /\ UNCHANGED <<drawn, pub, stage, requesters, source, wire, due, calm>>

(* A session reset draws a fresh NodeId and changes nothing else here. *)
Resets ==
    /\ ~calm /\ Cardinality(drawn) < MaxIdentities
    /\ \E n \in (Publishers \cup Subscribers) \ drawn :
         /\ drawn' = drawn \cup {n}
         /\ \/ n \in Publishers /\ pub' = [pub EXCEPT !.node = n] /\ UNCHANGED sub
            \/ n \in Subscribers /\ sub' = [sub EXCEPT !.node = n] /\ UNCHANGED pub
    /\ UNCHANGED <<stage, requesters, known, source, wire, due, calm>>

Calms ==
    /\ ~calm /\ calm' = TRUE
    /\ UNCHANGED <<drawn, pub, stage, requesters, sub, known, source, wire, due>>

Next ==
    \/ Publish \/ Unpublish \/ Write
    \/ Subscribe \/ Unsubscribe \/ DisableAudio
    \/ PublisherPass \/ SubscriberPass \/ Tick \/ Arrives
    \/ PublisherSeen \/ SubscriberSeen \/ PublisherByeBye \/ PublisherExpires
    \/ SubscriberGone \/ GatewayCloses \/ Resets \/ Calms

Spec == Init /\ [][Next]_vars

(* Time passes, housekeeping runs in it, and what is in flight arrives. *)
FairSpec ==
    /\ Spec
    /\ WF_vars(Tick)
    /\ WF_vars("publisher" \in due /\ PublisherPass)
    /\ WF_vars("subscriber" \in due /\ SubscriberPass)
    /\ WF_vars(Arrives)
-----------------------------------------------------------------------------
(* What must hold. *)

(* A channel is known only through an open gateway, and only while its     *)
(* publisher is listed on some gateway: the entries, kept by gateway, go   *)
(* with the last trace of the peer, however it goes.                       *)
KnownHasPeer ==
    \A g \in Gateways :
        known[g] # None =>
            /\ g \in sub.gateways
            /\ \E h \in sub.gateways : sub.peers[<<known[g].peer, h>>] # "absent"

(* The peers list each other, under their present NodeIds and with their   *)
(* endpoints, on some gateway.                                             *)
Connected ==
    \E g \in Gateways : /\ <<sub.node, g>> \in pub.endpoints
                        /\ sub.peers[<<pub.node, g>>] = "audio"

(* Whatever was lost, repeated or forgotten before, a subscription to a    *)
(* published channel comes to be served under the present NodeId once the  *)
(* network is calm and the peers are connected: the announcements and the  *)
(* re-sent requests repair it.                                             *)
SubscriptionServed ==
    (calm /\ source # None /\ stage = "live" /\ Connected)
        ~> requesters[sub.node] # None

(* What nobody refreshes goes: the requests of a subscriber that has       *)
(* unsubscribed unheard or goes by another NodeId, and the entries of a    *)
(* channel whose withdrawal was not heard.                                 *)
Quiesces ==
    /\ \A s \in Subscribers :
         (calm /\ (source = None \/ s # sub.node)) ~> requesters[s] = None
    /\ (calm /\ stage = "gone") ~> \A g \in Gateways : known[g] = None

(* A request leaves a published channel by a stop, or when the padding     *)
(* after its ttl has passed.                                               *)
RequestsLastThroughPadding ==
    [][\A s \in Subscribers :
          requesters[s] # None /\ requesters'[s] = None =>
              \/ requesters[s] <= -Padding
              \/ stage' # "live"
              \/ \E m \in wire : m.type = "stop" /\ m.from = s]_vars
=============================================================================
