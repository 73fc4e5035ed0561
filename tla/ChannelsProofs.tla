--------------------------- MODULE ChannelsProofs ---------------------------
(***************************************************************************)
(* A channel is known only while its publisher is: for any number of       *)
(* gateways and identities, whatever is lost, repeated or reordered.       *)
(***************************************************************************)
EXTENDS Channels, TLAPS

TypeInv ==
    /\ sub \in [node : Subscribers, gateways : SUBSET Gateways,
                peers : [Publishers \X Gateways -> Listings]]
    /\ pub \in [node : Publishers, endpoints : SUBSET (Subscribers \X Gateways),
                announce_due : BOOLEAN]
    /\ known \in [Gateways -> Known \cup {None}]
    /\ wire \subseteq Messages

(* What makes KnownHasPeer inductive: a closed gateway lists nobody, so    *)
(* the entry that is left when another goes is on an open one.             *)
ListedWhereOpen ==
    \A p \in Publishers, g \in Gateways :
        sub.peers[<<p, g>>] # "absent" => g \in sub.gateways

Inv == TypeInv /\ ListedWhereOpen /\ KnownHasPeer

LEMMA KnownFields ==
    ASSUME NEW k \in Known \cup {None}, k # None
    PROVE  k.peer \in Publishers /\ k.left \in Int
BY DEF Known

(* Whatever is sent is well formed, and the wire gains nothing else. *)
LEMMA SendsMessages ==
    ASSUME NEW msgs, msgs \subseteq Messages, wire \subseteq Messages, Sent(msgs)
    PROVE  wire' \subseteq Messages
BY DEF Sent

LEMMA ToSubscriberType ==
    ASSUME TypeInv, NEW type \in {"announce", "byes"}
    PROVE  ToSubscriber(type) \subseteq Messages
<1>1. pub.node \in Publishers /\ pub.endpoints \subseteq Subscribers \X Gateways
  BY DEF TypeInv
<1>2. \A e \in pub.endpoints : e[2] \in Gateways
  BY <1>1
<1> QED BY <1>1, <1>2 DEF ToSubscriber, Messages

LEMMA SendRequestType ==
    ASSUME TypeInv, NEW type \in {"request", "stop"}, SendRequest(type)
    PROVE  wire' \subseteq Messages
<1>1. sub.node \in Subscribers /\ wire \subseteq Messages
  BY DEF TypeInv
<1>2. ASSUME NEW r \in Requests(type) PROVE r \subseteq Messages
  <2>1. \E h \in UNION {Endpoints(known[g].peer) : g \in {k \in Gateways : known[k] # None}} :
           r = {[type |-> type, from |-> sub.node, gw |-> h]}
    BY <1>2 DEF Requests
  <2>2. PICK h \in UNION {Endpoints(known[g].peer) : g \in {k \in Gateways : known[k] # None}} :
           r = {[type |-> type, from |-> sub.node, gw |-> h]}
    BY <2>1
  <2>3. h \in Gateways
    BY DEF Endpoints
  <2> QED BY <1>1, <2>2, <2>3 DEF Messages
<1>3. {} \subseteq Messages
  OBVIOUS
<1> QED BY <1>1, <1>2, <1>3, SendsMessages DEF SendRequest

(* An entry that is None, or the same publisher's as before, keeps the     *)
(* relation as long as the peer table does not change.                     *)
LEMMA KnownShrinks ==
    ASSUME Inv, UNCHANGED sub, known' \in [Gateways -> Known \cup {None}],
           \A g \in Gateways : known'[g] # None =>
               known[g] # None /\ known'[g].peer = known[g].peer
    PROVE  KnownHasPeer'
BY DEF Inv, KnownHasPeer

THEOREM InitInv == Init => Inv
BY DEF Init, Inv, TypeInv, ListedWhereOpen, KnownHasPeer, Listings, Messages

(* The publisher's steps and the calls of the subscriber that leave its    *)
(* tables alone.                                                           *)
LEMMA TablesUntouched ==
    ASSUME Inv, UNCHANGED <<sub, known>>,
           wire' \subseteq Messages,
           pub' \in [node : Publishers, endpoints : SUBSET (Subscribers \X Gateways),
                     announce_due : BOOLEAN]
    PROVE  Inv'
BY DEF Inv, TypeInv, ListedWhereOpen, KnownHasPeer

LEMMA DropsKnown ==
    ASSUME Inv, UNCHANGED <<sub, pub>>, wire' \subseteq Messages,
           known' \in [Gateways -> Known \cup {None}],
           \A g \in Gateways : known'[g] # None =>
               known[g] # None /\ known'[g].peer = known[g].peer
    PROVE  Inv'
<1>1. KnownHasPeer'
  BY KnownShrinks
<1> QED BY <1>1 DEF Inv, TypeInv, ListedWhereOpen

LEMMA ArrivesInv == Inv /\ Arrives => Inv'
<1> SUFFICES ASSUME Inv, Arrives PROVE Inv'
  OBVIOUS
<1>0. PICK m \in wire :
        /\ wire' \in IF calm THEN {wire \ {m}} ELSE {wire, wire \ {m}}
        /\ \/ m.type = "announce" /\ Announced(m)
           \/ m.type = "byes" /\ Withdrawn(m)
           \/ UNCHANGED known
        /\ UNCHANGED <<pub, sub>>
  BY DEF Arrives
<1>1. wire' \subseteq Messages
  BY <1>0 DEF Inv, TypeInv
<1>2. m \in Messages /\ m.gw \in Gateways
  BY DEF Inv, TypeInv, Messages
<1>3. CASE m.type = "announce" /\ Announced(m)
  <2>0. m.from \in Publishers
    BY <1>2, <1>3 DEF Messages
  <2>1. CASE m.gw \in sub.gateways /\ sub.peers[<<m.from, m.gw>>] = "audio"
    <3> DEFINE entry == [peer |-> m.from, left |-> Ttl]
    <3>1. entry \in Known /\ entry.peer = m.from
      BY <2>0, ChannelsAssumption DEF Known
    <3>2. known' = [known EXCEPT ![m.gw] = entry]
      BY <1>3, <2>1 DEF Announced
    <3> HIDE DEF entry
    <3>3. known' \in [Gateways -> Known \cup {None}]
      BY <3>1, <3>2, <1>2 DEF Inv, TypeInv
    <3>4. ASSUME NEW g \in Gateways, known'[g] # None
          PROVE  /\ g \in sub.gateways
                 /\ \E h \in sub.gateways : sub.peers[<<known'[g].peer, h>>] # "absent"
      <4>1. CASE g = m.gw
        BY <4>1, <2>1, <3>1, <3>2, <1>2 DEF Inv, TypeInv
      <4>2. CASE g # m.gw
        BY <4>2, <3>2, <3>4 DEF Inv, TypeInv, KnownHasPeer
      <4> QED BY <4>1, <4>2
    <3>5. KnownHasPeer'
      BY <3>4, <1>0 DEF KnownHasPeer
    <3> QED BY <3>3, <3>5, <1>0, <1>1 DEF Inv, TypeInv, ListedWhereOpen
  <2>2. CASE ~(m.gw \in sub.gateways /\ sub.peers[<<m.from, m.gw>>] = "audio")
    <3>1. UNCHANGED known
      BY <1>3, <2>2 DEF Announced
    <3> QED BY <3>1, <1>0, <1>1, DropsKnown DEF Inv, TypeInv
  <2> QED BY <2>1, <2>2
<1>4. CASE m.type = "byes" /\ Withdrawn(m)
  <2>1. known' = known \/ known' = [known EXCEPT ![m.gw] = None]
    BY <1>4 DEF Withdrawn
  <2>2. /\ known' \in [Gateways -> Known \cup {None}]
        /\ \A g \in Gateways : known'[g] # None => known'[g] = known[g]
    BY <2>1, <1>2 DEF Inv, TypeInv
  <2> QED BY <2>2, <1>0, <1>1, DropsKnown
<1>5. CASE UNCHANGED known
  BY <1>5, <1>0, <1>1, DropsKnown DEF Inv, TypeInv
<1> QED BY <1>0, <1>3, <1>4, <1>5

LEMMA PeerLeftForgets ==
    ASSUME TypeInv, NEW n \in Publishers
    PROVE  /\ PeerLeft(n) \in [Gateways -> Known \cup {None}]
           /\ \A g \in Gateways : PeerLeft(n)[g] # None =>
                 PeerLeft(n)[g] = known[g] /\ known[g].peer # n
BY DEF TypeInv, PeerLeft

(* One entry leaves the table: if it was the last of its node, or the      *)
(* channels go anyway, nothing known is left without a peer.               *)
LEMMA EntryGoes ==
    ASSUME Inv, NEW n \in Publishers, NEW g0 \in Gateways,
           sub' = [sub EXCEPT !.peers[<<n, g0>>] = "absent"],
           known' = PeerLeft(n) \/ (known' = known /\ ListedAfter(n, g0)),
           UNCHANGED <<pub, wire>>
    PROVE  Inv'
<1>1. /\ sub' \in [node : Subscribers, gateways : SUBSET Gateways,
                   peers : [Publishers \X Gateways -> Listings]]
      /\ sub'.gateways = sub.gateways
      /\ \A p \in Publishers, g \in Gateways :
            sub'.peers[<<p, g>>] = IF p = n /\ g = g0 THEN "absent" ELSE sub.peers[<<p, g>>]
  <2>1. <<n, g0>> \in Publishers \X Gateways /\ "absent" \in Listings
    BY DEF Listings
  <2> QED BY <2>1 DEF Inv, TypeInv
<1>2. known' \in [Gateways -> Known \cup {None}]
  BY PeerLeftForgets DEF Inv, TypeInv
<1>3. ListedWhereOpen'
  BY <1>1 DEF Inv, ListedWhereOpen
<1>4. ASSUME NEW g \in Gateways, known'[g] # None
      PROVE  /\ g \in sub'.gateways
             /\ \E h \in sub'.gateways : sub'.peers[<<known'[g].peer, h>>] # "absent"
  <2>1. known'[g] = known[g] /\ (known[g].peer # n \/ ListedAfter(n, g0))
    BY <1>4, PeerLeftForgets DEF Inv
  <2>2. PICK h \in sub.gateways : sub.peers[<<known[g].peer, h>>] # "absent"
    BY <2>1, <1>4 DEF Inv, KnownHasPeer
  <2>3. known[g].peer \in Publishers /\ h \in Gateways /\ g \in sub.gateways
    BY <2>1, <1>4, <2>2, KnownFields DEF Inv, TypeInv, KnownHasPeer
  <2>4. CASE known[g].peer # n
    BY <2>1, <2>2, <2>3, <2>4, <1>1
  <2>5. CASE known[g].peer = n /\ ListedAfter(n, g0)
    <3>1. PICK h1 \in Gateways \ {g0} : sub.peers[<<n, h1>>] # "absent"
      BY <2>5 DEF ListedAfter
    <3>2. h1 \in sub.gateways
      BY <3>1 DEF Inv, ListedWhereOpen
    <3> QED BY <2>1, <2>3, <2>5, <3>1, <3>2, <1>1
  <2> QED BY <2>1, <2>4, <2>5
<1>5. KnownHasPeer'
  BY <1>4 DEF KnownHasPeer
<1> QED BY <1>1, <1>2, <1>3, <1>5 DEF Inv, TypeInv

LEMMA GatewayClosesInv == Inv /\ GatewayCloses => Inv'
<1> SUFFICES ASSUME Inv, GatewayCloses PROVE Inv'
  OBVIOUS
<1>0. PICK g0 \in sub.gateways :
        /\ sub' = [sub EXCEPT !.gateways = @ \ {g0},
                     !.peers = [e \in DOMAIN @ |-> IF e[2] = g0 THEN "absent" ELSE @[e]]]
        /\ known' = [h \in Gateways |->
                       IF \/ h = g0
                          \/ /\ known[h] # None
                             /\ sub.peers[<<known[h].peer, g0>>] # "absent"
                             /\ ~ListedAfter(known[h].peer, g0)
                       THEN None ELSE known[h]]
        /\ UNCHANGED <<pub, wire>>
  BY DEF GatewayCloses
<1>1. /\ sub' \in [node : Subscribers, gateways : SUBSET Gateways,
                   peers : [Publishers \X Gateways -> Listings]]
      /\ sub'.gateways = sub.gateways \ {g0}
      /\ \A p \in Publishers, g \in Gateways :
            sub'.peers[<<p, g>>] = IF g = g0 THEN "absent" ELSE sub.peers[<<p, g>>]
  <2> DEFINE P == [e \in DOMAIN sub.peers |-> IF e[2] = g0 THEN "absent" ELSE sub.peers[e]]
  <2>1. DOMAIN sub.peers = Publishers \X Gateways
    BY DEF Inv, TypeInv
  <2>2. P \in [Publishers \X Gateways -> Listings]
    BY <2>1 DEF Inv, TypeInv, Listings
  <2>3. \A p \in Publishers, g \in Gateways :
           P[<<p, g>>] = IF g = g0 THEN "absent" ELSE sub.peers[<<p, g>>]
    BY <2>1
  <2>4. sub' = [sub EXCEPT !.gateways = sub.gateways \ {g0}, !.peers = P]
    BY <1>0
  <2> HIDE DEF P
  <2> QED BY <2>2, <2>3, <2>4 DEF Inv, TypeInv
<1>2. g0 \in Gateways
  BY DEF Inv, TypeInv
<1>3. known' \in [Gateways -> Known \cup {None}]
  BY <1>0 DEF Inv, TypeInv
<1>4. ListedWhereOpen'
  BY <1>1 DEF Inv, ListedWhereOpen
<1>5. ASSUME NEW g \in Gateways, known'[g] # None
      PROVE  /\ g \in sub'.gateways
             /\ \E h \in sub'.gateways : sub'.peers[<<known'[g].peer, h>>] # "absent"
  <2>1. /\ known'[g] = known[g] /\ g # g0
        /\ sub.peers[<<known[g].peer, g0>>] = "absent" \/ ListedAfter(known[g].peer, g0)
    BY <1>0, <1>5
  <2>2. known[g].peer \in Publishers /\ g \in sub.gateways
    BY <2>1, <1>5, KnownFields DEF Inv, TypeInv, KnownHasPeer
  <2>3. PICK h \in sub.gateways : sub.peers[<<known[g].peer, h>>] # "absent"
    BY <2>1, <1>5 DEF Inv, KnownHasPeer
  <2>4. \E h1 \in Gateways \ {g0} : sub.peers[<<known[g].peer, h1>>] # "absent"
    BY <2>1, <2>3 DEF ListedAfter, Inv, TypeInv
  <2>5. PICK h1 \in Gateways \ {g0} : sub.peers[<<known[g].peer, h1>>] # "absent"
    BY <2>4
  <2>6. h1 \in sub.gateways \ {g0}
    BY <2>2, <2>5 DEF Inv, ListedWhereOpen
  <2> QED BY <2>1, <2>2, <2>5, <2>6, <1>1
<1>6. KnownHasPeer'
  BY <1>5 DEF KnownHasPeer
<1> QED BY <1>0, <1>1, <1>3, <1>4, <1>6 DEF Inv, TypeInv

LEMMA PublisherSeenInv == Inv /\ PublisherSeen => Inv'
<1> SUFFICES ASSUME Inv, PublisherSeen PROVE Inv'
  OBVIOUS
<1>0. PICK g0 \in sub.gateways, l \in Listings \ {"absent"} :
        sub' = [sub EXCEPT !.peers[<<pub.node, g0>>] = l]
  BY DEF PublisherSeen
<1>1. /\ sub' \in [node : Subscribers, gateways : SUBSET Gateways,
                   peers : [Publishers \X Gateways -> Listings]]
      /\ sub'.gateways = sub.gateways
      /\ \A p \in Publishers, g \in Gateways :
            sub'.peers[<<p, g>>] = IF p = pub.node /\ g = g0 THEN l ELSE sub.peers[<<p, g>>]
  <2>1. <<pub.node, g0>> \in Publishers \X Gateways
    BY DEF Inv, TypeInv
  <2> QED BY <1>0, <2>1 DEF Inv, TypeInv
<1>2. ListedWhereOpen'
  BY <1>0, <1>1 DEF Inv, ListedWhereOpen
<1>3. UNCHANGED <<pub, known, wire>>
  BY DEF PublisherSeen
<1>4. ASSUME NEW g \in Gateways, known'[g] # None
      PROVE  /\ g \in sub'.gateways
             /\ \E h \in sub'.gateways : sub'.peers[<<known'[g].peer, h>>] # "absent"
  <2>1. PICK h \in sub.gateways : sub.peers[<<known[g].peer, h>>] # "absent"
    BY <1>3, <1>4 DEF Inv, KnownHasPeer
  <2>2. known[g].peer \in Publishers /\ h \in Gateways /\ g \in sub.gateways
    BY <1>3, <1>4, KnownFields DEF Inv, TypeInv, KnownHasPeer
  <2> QED BY <2>1, <2>2, <1>0, <1>1, <1>3
<1>5. KnownHasPeer'
  BY <1>4 DEF KnownHasPeer
<1> QED BY <1>1, <1>2, <1>3, <1>5 DEF Inv, TypeInv

LEMMA NextInv == Inv /\ [Next]_vars => Inv'
<1> SUFFICES ASSUME Inv, [Next]_vars PROVE Inv'
  OBVIOUS
<1> DEFINE PubType == pub' \in [node : Publishers, announce_due : BOOLEAN,
                                endpoints : SUBSET (Subscribers \X Gateways)]
<1>0. TypeInv
  BY DEF Inv
<1>1. CASE Publish
  <2>1. PubType /\ UNCHANGED <<sub, known, wire>>
    BY <1>0, <1>1 DEF Publish, TypeInv
  <2> QED BY <2>1, TablesUntouched DEF Inv, TypeInv
<1>2. CASE Unpublish
  <2>1. wire' \subseteq Messages
    BY <1>0, <1>2, SendsMessages, ToSubscriberType DEF Unpublish, TypeInv
  <2> QED BY <2>1, <1>0, <1>2, TablesUntouched DEF Unpublish, TypeInv
<1>3. CASE Write
  BY <1>0, <1>3, TablesUntouched DEF Write, TypeInv
<1>4. CASE Subscribe
  <2>1. wire' \subseteq Messages
    BY <1>0, <1>4, SendRequestType DEF Subscribe
  <2> QED BY <2>1, <1>0, <1>4, TablesUntouched DEF Subscribe, TypeInv
<1>5. CASE Unsubscribe
  <2>1. wire' \subseteq Messages
    BY <1>0, <1>5, SendRequestType DEF Unsubscribe
  <2> QED BY <2>1, <1>0, <1>5, TablesUntouched DEF Unsubscribe, TypeInv
<1>6. CASE DisableAudio
  <2>1. known' \in [Gateways -> Known \cup {None}] /\ \A g \in Gateways : known'[g] = None
    BY <1>6 DEF DisableAudio
  <2> QED BY <2>1, <1>0, <1>6, DropsKnown DEF DisableAudio, TypeInv
<1>7. CASE PublisherPass
  <2>1. PubType /\ UNCHANGED <<sub, known>>
    BY <1>0, <1>7 DEF PublisherPass, TypeInv
  <2>2. wire' \subseteq Messages
    BY <1>0, <1>7, SendsMessages, ToSubscriberType DEF PublisherPass, TypeInv
  <2> QED BY <2>1, <2>2, TablesUntouched
<1>8. CASE SubscriberPass
  <2>1. wire' \subseteq Messages
    BY <1>0, <1>8, SendRequestType, SendsMessages DEF SubscriberPass, TypeInv
  <2>2. /\ known' \in [Gateways -> Known \cup {None}]
        /\ \A g \in Gateways : known'[g] # None => known'[g] = known[g]
    BY <1>0, <1>8 DEF SubscriberPass, KnownPruned, TypeInv
  <2> QED BY <2>1, <2>2, <1>8, DropsKnown DEF SubscriberPass
<1>9. CASE Tick
  <2>1. PubType
    BY <1>0, <1>9 DEF Tick, TypeInv
  <2>2. ASSUME NEW g \in Gateways
        PROVE  /\ known'[g] \in Known \cup {None}
               /\ known'[g] # None => known[g] # None /\ known'[g].peer = known[g].peer
    <3>1. CASE known[g] = None
      BY <3>1, <1>9 DEF Tick
    <3>2. CASE known[g] # None
      <4>1. known[g] \in Known
        BY <1>0, <3>2 DEF TypeInv
      <4>2. known'[g] = [known[g] EXCEPT !.left = Later(@)]
        BY <3>2, <1>9 DEF Tick
      <4> QED BY <4>1, <4>2, <3>2, ChannelsAssumption DEF Known, Later, ChannelsAssumption
    <3> QED BY <3>1, <3>2
  <2>3. known' \in [Gateways -> Known \cup {None}]
    BY <2>2, <1>9 DEF Tick
  <2>4. KnownHasPeer'
    BY <2>2, <2>3, <1>9, KnownShrinks DEF Tick
  <2> QED BY <2>1, <2>3, <2>4, <1>9 DEF Tick, Inv, TypeInv, ListedWhereOpen
<1>10. CASE Arrives
  BY <1>10, ArrivesInv
<1>11. CASE PublisherSeen
  BY <1>11, PublisherSeenInv
<1>12. CASE SubscriberSeen
  <2>1. PubType /\ UNCHANGED <<sub, known, wire>>
    BY <1>0, <1>12 DEF SubscriberSeen, TypeInv
  <2> QED BY <2>1, TablesUntouched DEF Inv, TypeInv
<1>13. CASE PublisherByeBye
  <2>1. PICK g \in Gateways, n \in Publishers :
           sub' = [sub EXCEPT !.peers[<<n, g>>] = "absent"] /\ known' = PeerLeft(n)
    BY <1>0, <1>13 DEF PublisherByeBye, TypeInv
  <2> QED BY <2>1, <1>13, EntryGoes DEF PublisherByeBye
<1>14. CASE PublisherExpires
  <2>1. PICK g \in Gateways, n \in Publishers :
           /\ sub' = [sub EXCEPT !.peers[<<n, g>>] = "absent"]
           /\ known' = IF ListedAfter(n, g) THEN known ELSE PeerLeft(n)
    BY <1>14 DEF PublisherExpires
  <2> QED BY <2>1, <1>14, EntryGoes DEF PublisherExpires
<1>15. CASE SubscriberGone
  <2>1. PubType /\ UNCHANGED <<sub, known, wire>>
    BY <1>0, <1>15 DEF SubscriberGone, TypeInv
  <2> QED BY <2>1, TablesUntouched DEF Inv, TypeInv
<1>16. CASE GatewayCloses
  BY <1>16, GatewayClosesInv
<1>17. CASE Resets
  <2>1. UNCHANGED <<known, wire>>
    BY <1>17 DEF Resets
  <2>2. CASE UNCHANGED sub
    <3>1. PubType
      BY <1>0, <1>17 DEF Resets, TypeInv
    <3> QED BY <2>1, <2>2, <3>1, TablesUntouched DEF Inv, TypeInv
  <2>3. CASE UNCHANGED pub /\ \E n \in Subscribers : sub' = [sub EXCEPT !.node = n]
    BY <2>1, <2>3 DEF Inv, TypeInv, ListedWhereOpen, KnownHasPeer
  <2> QED BY <2>2, <2>3, <1>17 DEF Resets
<1>18. CASE Calms
  BY <1>18 DEF Calms, Inv, TypeInv, ListedWhereOpen, KnownHasPeer
<1>19. CASE UNCHANGED vars
  BY <1>19 DEF vars, Inv, TypeInv, ListedWhereOpen, KnownHasPeer
<1> QED BY <1>1, <1>2, <1>3, <1>4, <1>5, <1>6, <1>7, <1>8, <1>9, <1>10, <1>11,
           <1>12, <1>13, <1>14, <1>15, <1>16, <1>17, <1>18, <1>19 DEF Next

(* A channel is known only through open gateways and while its publisher   *)
(* is listed: close_gateway, the pruning of peers and ByeBye together      *)
(* leave no channel behind, for any number of gateways and NodeIds.        *)
THEOREM ChannelsKeepTheirPeer == Spec => []KnownHasPeer
<1>1. Inv => KnownHasPeer
  BY DEF Inv
<1> QED BY InitInv, NextInv, <1>1, PTL DEF Spec
=============================================================================
