-------------------------------- MODULE Wire --------------------------------
(***************************************************************************)
(* What the peers write to each other and read (src/crates/tactus-wire),   *)
(* and what they answer on the strength of it: one exchange after another  *)
(* on the discovery, measurement and audio sockets, with this sender or    *)
(* another implementation's, which may order, add or spoil entries.        *)
(*                                                                         *)
(* A datagram is a sequence of cells, each a primitive with its width in   *)
(* bytes and its value, so sizes are the real ones.  Bytes are never read  *)
(* across the boundary of a cell; a name is stood for by its length.       *)
(***************************************************************************)
EXTENDS Integers, SequencesExt

CONSTANTS
    None, Error,   \* no value; a datagram discarded
    Own, Others,   \* NodeIds of the receiver, of senders
    OwnSession,
    States,        \* what discovery says of peers
    Times,         \* clock readings
    Buffers,       \* audio buffers
    BadBuffers,    \* and such as no sender makes
    NameSizes,     \* lengths of peer and channel names
    MaxSinks,      \* channels published
    ByeCounts      \* channels withdrawn at once

MaxPingPayload == 32
MaxPayload == 1176

VARIABLES
    port,      \* the socket the exchange is on
    meant,     \* ghost: the messages
    total,     \* ghost: how many channels they announce or withdraw
    style,     \* ghost: whose encoder it is
    wire,      \* the datagrams under way
    heard,     \* what the receiver has made of those that arrived
    replies    \* and has answered

vars == <<port, meant, total, style, wire, heard, replies>>

-----------------------------------------------------------------------------
(* Primitives: written back-to-back, read with a bounds check.             *)

Written(shape, vals) == [i \in DOMAIN shape |-> [w |-> shape[i], v |-> vals[i]]]
Shape(cells) == [i \in DOMAIN cells |-> cells[i].w]
Values(cells) == [i \in DOMAIN cells |-> cells[i].v]

(* The bytes of the cells from i to j; by halves, since a list of channel  *)
(* ids is long and a fold as deep as its list.                             *)
RECURSIVE Bytes(_, _, _)
Bytes(cells, i, j) ==
    IF i >= j THEN IF i = j THEN cells[i].w ELSE 0
    ELSE LET m == (i + j) \div 2 IN Bytes(cells, i, m) + Bytes(cells, m + 1, j)

Size(cells) == Bytes(cells, 1, Len(cells))
From(cells, i) == SubSeq(cells, i, Len(cells))

(* How many cells make `n` bytes. *)
Taken(cells, n) == CHOOSE k \in 0 .. Len(cells) : Bytes(cells, 1, k) = n

(* The payload container: key, size, value. *)
Entry(key, cells) == Written(<<4, 4>>, <<key, Size(cells)>>) \o cells

EntryIf(key, shape, vals) ==
    IF vals = None THEN <<>> ELSE Entry(key, Written(shape, vals))

FirstEntry(payload) ==
    LET rest == From(payload, 3)
    IN  IF Size(payload) < 8 \/ payload[2].v > Size(rest) THEN Error
        ELSE LET k == Taken(rest, payload[2].v)
             IN  [key |-> payload[1].v, value |-> SubSeq(rest, 1, k), rest |-> From(rest, k + 1)]

(* Iteration stops at an entry that does not fit. *)
RECURSIVE Entries(_)
Entries(payload) ==
    IF payload = <<>> THEN <<>>
    ELSE LET e == FirstEntry(payload)
         IN  IF e = Error THEN <<Error>> ELSE <<e>> \o Entries(e.rest)

(* A decoder must consume an entry's value exactly, but a vector may hold  *)
(* fewer elements than it counts.  An endpoint's family goes by its size.  *)
V4 == <<4, 2>>
V6 == <<16, 2>>
IsName(cells) == Len(cells) = 2 /\ cells[1].w = 4 /\ cells[1].v = cells[2].w

Elements(cells, width) == (Len(cells) - 1) \div width

IsVector(cells, width) ==
    /\ cells # <<>> /\ cells[1].w = 4
    /\ (Len(cells) - 1) % width = 0
    /\ Elements(cells, width) <= cells[1].v

ConsumedFaultPrefix(key, cells) ==
    CASE key = "tmln" -> Len(cells) >= 3
      [] key \in {"sess", "__ht", "_pgt", "chid"} -> cells # <<>>
      [] key = "stst" -> Len(cells) >= 3
      [] key \in {"mep4", "mep6", "aep4", "aep6"} -> Len(cells) >= 2
      [] OTHER -> TRUE

Consumed(key, cells) ==
    CASE key = "tmln" -> Shape(cells) = <<8, 8, 8>>
      [] key \in {"sess", "__ht", "_pgt", "chid"} -> Shape(cells) = <<8>>
      [] key = "stst" -> Shape(cells) = <<1, 8, 8>>
      [] key \in {"mep4", "mep6", "aep4", "aep6"} -> Shape(cells) \in {V4, V6}
      [] key = "__pi" -> IsName(cells)
      [] key = "auca" ->
           IsVector(cells, 3) /\ \A i \in 1 .. Elements(cells, 3) :
                                     IsName(SubSeq(cells, 3 * i - 1, 3 * i))
      [] key = "aucb" -> IsVector(cells, 1)

FieldsFaultStrict(es, fields) ==
    LET Of(f) == {i \in DOMAIN es : es[i].key \in fields[f]}
        known == UNION {fields[f] : f \in DOMAIN fields}
    IN  IF \E i \in DOMAIN es : \/ es[i] = Error
                                \/ es[i].key \notin known
                                \/ ~Consumed(es[i].key, es[i].value)
        THEN Error
        ELSE [f \in DOMAIN fields |-> IF Of(f) = {} THEN None ELSE Values(es[Max(Of(f))].value)]

(* The fields of a payload, each under its keys, the last of several       *)
(* counting; unknown keys are skipped.                                     *)
Fields(es, fields) ==
    LET Of(f) == {i \in DOMAIN es : es[i].key \in fields[f]}
        known == UNION {fields[f] : f \in DOMAIN fields}
    IN  IF \E i \in DOMAIN es : \/ es[i] = Error
                                \/ es[i].key \in known /\ ~Consumed(es[i].key, es[i].value)
        THEN Error
        ELSE [f \in DOMAIN fields |-> IF Of(f) = {} THEN None ELSE Values(es[Max(Of(f))].value)]

Read(payload, fields) == Fields(Entries(payload), fields)

-----------------------------------------------------------------------------
(* Frames of the discovery and audio protocols share their prefix.         *)

Prefix(magic, type, ttl, group, node) ==
    Written(<<8, 1, 1, 2, 8>>, <<magic, type, ttl, group, node>>)

DecodeHeader(d, magic) ==
    IF Size(d) < 20 \/ d[1].v # magic THEN Error
    ELSE [type |-> d[2].v, ttl |-> d[3].v, group |-> d[4].v, node |-> d[5].v]

(* Discovery. *)
Endpoint(key4, key6, ep) ==
    IF ep = None THEN <<>>
    ELSE IF ep[1] = "v4" THEN Entry(key4, Written(V4, ep)) ELSE Entry(key6, Written(V6, ep))

EncodeDiscovery(f) ==
    Prefix("_asdp_v1", f.type, IF f.type = "byebye" THEN 0 ELSE 5, 0, f.node)
      \o IF f.type = "byebye" THEN <<>>
         ELSE EntryIf("tmln", <<8, 8, 8>>, f.state.timeline)
              \o EntryIf("sess", <<8>>, f.state.session)
              \o EntryIf("stst", <<1, 8, 8>>, f.state.start_stop)
              \o Endpoint("mep4", "mep6", f.state.mep)
              \o Endpoint("aep4", "aep6", f.state.aep)

ReadPeerState(payload) ==
    Read(payload, [timeline |-> {"tmln"}, session |-> {"sess"}, start_stop |-> {"stst"},
                   mep |-> {"mep4", "mep6"}, aep |-> {"aep4", "aep6"}])

DecodeDiscovery(d) ==
    LET header == DecodeHeader(d, "_asdp_v1")
        state == IF header.type = "byebye" THEN None ELSE ReadPeerState(From(d, 6))
    IN  IF header = Error THEN Error
        ELSE IF header.type \notin {"alive", "response", "byebye"} \/ state = Error THEN Error
        ELSE [type |-> header.type, node |-> header.node, state |-> state]

OwnState == CHOOSE s \in States : s.session # None /\ s.mep # None

(* An Alive is answered before its payload is read.                        *)
HandleDiscovery(d) ==
    LET header == DecodeHeader(d, "_asdp_v1")
    IN  IF header = Error THEN [heard |-> Error, replies |-> <<>>]
        ELSE IF header.node = Own \/ header.group # 0
        THEN [heard |-> Error, replies |-> <<>>]
        ELSE [heard |-> DecodeDiscovery(d),
              replies |-> IF header.type = "alive"
                          THEN <<EncodeDiscovery([type |-> "response", node |-> Own,
                                                  state |-> OwnState])>>
                          ELSE <<>>]

-----------------------------------------------------------------------------
(* Measurement: a pong is the responder's session and ghost time, then the *)
(* ping's payload as it came.                                              *)

SyncPrefix(type) == Written(<<8, 1>>, <<"_link_v1", type>>)

EncodePing(ping) ==
    SyncPrefix("ping") \o EntryIf("__ht", <<8>>, ping.ht) \o EntryIf("_pgt", <<8>>, ping.pgt)

EncodePong(session, ghost, echo) ==
    SyncPrefix("pong") \o Entry("sess", Written(<<8>>, <<session>>))
                       \o Entry("__gt", Written(<<8>>, <<ghost>>)) \o echo

ParseEcho(echo) == Read(echo, [ht |-> {"__ht"}, pgt |-> {"_pgt"}])

DecodePongFaultAnywhere(payload) ==
    LET es == Entries(payload)
        Of(key) == {i \in DOMAIN es : es[i].key = key}
    IN  IF Error \in ToSet(es) \/ Of("sess") = {} \/ Of("__gt") = {} THEN Error
        ELSE [type |-> "pong", session |-> es[Max(Of("sess"))].value[1].v,
              ghost |-> es[Max(Of("__gt"))].value[1].v,
              echo |-> es[Max(Of("__gt"))].rest]

(* The leading two entries, in either order; the rest is not interpreted.  *)
DecodePong(payload) ==
    LET a == FirstEntry(payload)
        b == FirstEntry(a.rest)
        Of(key) == IF a.key = key THEN a ELSE b
    IN  IF a = Error THEN Error
        ELSE IF b = Error THEN Error
        ELSE IF {a.key, b.key} # {"sess", "__gt"} \/ {Shape(a.value), Shape(b.value)} # {<<8>>}
        THEN Error
        ELSE [type |-> "pong", session |-> Of("sess").value[1].v,
              ghost |-> Of("__gt").value[1].v, echo |-> b.rest]

DecodeSync(d) ==
    IF Size(d) < 9 \/ d[1].v # "_link_v1" THEN Error
    ELSE LET fields == ParseEcho(From(d, 3))
         IN  CASE d[2].v = "ping" ->
                    IF fields = Error THEN Error
                    ELSE [type |-> "ping", ht |-> fields.ht, pgt |-> fields.pgt]
               [] d[2].v = "pong" -> DecodePong(From(d, 3))
               [] OTHER -> Error

Answers(ping) == Size(From(ping, 3)) <= MaxPingPayload

PongTo(msg, ping, ghost) ==
    IF msg = Error THEN <<>>
    ELSE IF msg.type = "ping" /\ Answers(ping)
         THEN <<EncodePong(OwnSession, ghost, From(ping, 3))>> ELSE <<>>

HandleMeasurement(d, ghost) ==
    [heard |-> DecodeSync(d), replies |-> PongTo(DecodeSync(d), d, ghost)]

-----------------------------------------------------------------------------
(* Audio: announcements of channels, requests for them, and buffers.       *)

AudioTtl(type) == IF type \in {"stop", "buffer"} THEN 0 ELSE 5

Name(n) == Written(<<4, n>>, <<n, n>>)
Count(s) == Written(<<4>>, <<Len(s)>>)

Chunks(b) == FlattenSeq([i \in DOMAIN b.chunks |-> Written(<<8, 2, 8, 8>>, b.chunks[i])])

Content(m) ==
    CASE m.type = "announcement" ->
           EntryIf("sess", <<8>>, m.session) \o Entry("__pi", Name(m.peer_name))
             \o Entry("auca", Count(m.channels)
                  \o FlattenSeq([i \in DOMAIN m.channels |->
                        Name(m.channels[i].name) \o Written(<<8>>, <<m.channels[i].id>>)]))
             \o EntryIf("__ht", <<8>>, m.ping)
      [] m.type = "byes" ->
           Entry("aucb", Count(m.channels) \o
                         [i \in DOMAIN m.channels |-> [w |-> 8, v |-> m.channels[i]]])
      [] m.type = "pong" -> EntryIf("__ht", <<8>>, m.ping)
      [] m.type \in {"request", "stop"} -> EntryIf("chid", <<8>>, m.channel)
      [] m.type = "buffer" ->
           Written(<<8, 8>>, <<m.channel, m.session>>) \o Count(m.chunks) \o Chunks(m)
             \o Written(<<1, 4, 1, 2, m.bytes>>, <<m.codec, m.rate, m.num_channels, m.bytes, "samples">>)

EncodeAudio(node, m) == Prefix("chnnlsv1", m.type, AudioTtl(m.type), 0, node) \o Content(m)

DecodeAnnouncement(payload) ==
    LET f == Read(payload, [session |-> {"sess"}, name |-> {"__pi"}, list |-> {"auca"},
                            ping |-> {"__ht"}])
    IN  IF f = Error THEN Error
        ELSE IF f.session = None THEN Error
        ELSE [type |-> "announcement", session |-> f.session, ping |-> f.ping,
              peer_name |-> IF f.name = None THEN 0 ELSE f.name[1],
              channels |-> IF f.list = None THEN <<>>
                           ELSE [i \in 1 .. (Len(f.list) \div 3) |->
                                    [name |-> f.list[3 * i], id |-> f.list[3 * i + 1]]]]

DecodeByes(payload) ==
    LET f == Read(payload, [list |-> {"aucb"}])
    IN  IF f = Error THEN Error
        ELSE [type |-> "byes", channels |-> IF f.list = None THEN <<>> ELSE From(f.list, 2)]

DecodeField(type, field, payload, key) ==
    LET f == Read(payload, [value |-> {key}])
    IN  IF f = Error THEN Error
        ELSE IF f.value = None THEN Error
        ELSE [type |-> type] @@ (field :> f.value)

TotalFrames(chunks) == FoldLeft(LAMBDA n, c : n + c[2], 0, chunks)

(* What a buffer must be: chunks, the one codec, and as many samples as    *)
(* the chunks have frames.                                                 *)
Sound(b) ==
    /\ b.chunks # <<>>
    /\ b.codec = 1
    /\ TotalFrames(b.chunks) * b.num_channels * 2 = b.bytes

DecodeBuffer(payload) ==
    LET n == payload[3].v
        at == 4 + 4 * n
        b == [type |-> "buffer", channel |-> payload[1].v, session |-> payload[2].v,
              chunks |-> [i \in 1 .. n |-> Values(SubSeq(payload, 4 * i, 4 * i + 3))],
              codec |-> payload[at].v, rate |-> payload[at + 1].v,
              num_channels |-> payload[at + 2].v, bytes |-> payload[at + 3].v]
    IN  IF Size(payload) < 20 THEN Error
        ELSE IF Size(payload) < 28 + 26 * n THEN Error
        ELSE IF Size(From(payload, at + 4)) # b.bytes \/ ~Sound(b) THEN Error
        ELSE b

DecodeAudio(d) ==
    LET payload == From(d, 6)
    IN  CASE d[2].v = "announcement" -> DecodeAnnouncement(payload)
          [] d[2].v = "byes" -> DecodeByes(payload)
          [] d[2].v = "pong" -> DecodeField("pong", "ping", payload, "__ht")
          [] d[2].v \in {"request", "stop"} -> DecodeField(d[2].v, "channel", payload, "chid")
          [] d[2].v = "buffer" -> DecodeBuffer(payload)
          [] OTHER -> Error

(* A ping is answered whatever becomes of the announcement.                *)
TakenUp(header, msg) ==
    IF header = Error \/ msg = Error THEN [heard |-> Error, replies |-> <<>>]
    ELSE IF header.node = Own \/ header.group # 0
    THEN [heard |-> Error, replies |-> <<>>]
    ELSE [heard |-> msg,
          replies |-> IF msg.type = "announcement" /\ msg.ping # None
                      THEN <<EncodeAudio(Own, [type |-> "pong", ping |-> msg.ping])>>
                      ELSE <<>>]

HandleAudio(d) == TakenUp(DecodeHeader(d, "chnnlsv1"), DecodeAudio(d))

-----------------------------------------------------------------------------
(* A round announces the whole list of channels in as many messages as the *)
(* budget requires, of which the first carries the ping.                   *)

Announcement(channels, name, ping) ==
    [type |-> "announcement", session |-> <<OwnSession>>, peer_name |-> name,
     channels |-> channels, ping |-> ping]

Fits(channels, name, ping) ==
    Size(EncodeAudio(Own, Announcement(channels, name, ping))) <= 20 + MaxPayload

(* At least one of the remaining channels, if there are any. *)
TakenOf(remaining, name, ping) ==
    Max({k \in 0 .. Len(remaining) :
           \A j \in 1 .. k : j = 1 \/ Fits(SubSeq(remaining, 1, j), name, ping)})

RestFaultDropped(remaining, k) == From(remaining, k + 2)

Rest(remaining, k) == From(remaining, k + 1)

RECURSIVE Round(_, _, _)
Round(remaining, name, ping) ==
    LET k == TakenOf(remaining, name, ping)
        first == Announcement(SubSeq(remaining, 1, k), name, ping)
        rest == Rest(remaining, k)
    IN  <<first>> \o IF rest = <<>> THEN <<>> ELSE Round(rest, name, None)

PerByes == (MaxPayload - 12) \div 8

RECURSIVE Byes(_)
Byes(ids) ==
    IF ids = <<>> THEN <<>>
    ELSE <<[type |-> "byes", channels |-> SubSeq(ids, 1, IF Len(ids) < PerByes
                                                         THEN Len(ids) ELSE PerByes)]>>
           \o Byes(From(ids, PerByes + 1))

-----------------------------------------------------------------------------
(* Exchanges. *)

Quiet == wire = <<>> /\ heard = <<>>

Init ==
    /\ port = None /\ meant = <<>> /\ total = None /\ style = "own"
    /\ wire = <<>> /\ heard = <<>> /\ replies = <<>>

Says(where, how, what, count, datagrams) ==
    /\ Quiet
    /\ port' = where /\ meant' = what /\ total' = count /\ style' = how /\ wire' = datagrams
    /\ UNCHANGED <<heard, replies>>

SpeaksDiscovery ==
    \E node \in Others \cup {Own}, type \in {"alive", "response", "byebye"}, s \in States :
       LET f == [type |-> type, node |-> node,
                 state |-> IF type = "byebye" THEN None ELSE s]
       IN  Says("discovery", "own", <<f>>, None, <<EncodeDiscovery(f)>>)

Pings ==
    \E ht \in Times : LET ping == [type |-> "ping", ht |-> <<ht>>, pgt |-> None]
                      IN  Says("measurement", "own", <<ping>>, None, <<EncodePing(ping)>>)

SpeaksAudio ==
    \E node \in Others \cup {Own}, t \in Times :
       \E m \in {[type |-> "pong", ping |-> <<t>>], [type |-> "request", channel |-> <<t>>],
                 [type |-> "stop", channel |-> <<t>>]} :
          Says("audio", IF node = Own THEN "echoed" ELSE "own", <<m>>, None, <<EncodeAudio(node, m)>>)

Streams ==
    \E n \in Others, b \in Buffers \cup BadBuffers :
       Says("audio", IF b \in Buffers THEN "own" ELSE "spoiled", <<b>>, None, <<EncodeAudio(n, b)>>)

Announces ==
    \E n \in Others, name \in NameSizes, ht \in Times, count \in 0 .. MaxSinks :
       \E names \in [1 .. count -> NameSizes] :
          LET round == Round([i \in 1 .. count |-> [name |-> names[i], id |-> i]], name, <<ht>>)
          IN  Says("audio", "own", round, count, [i \in DOMAIN round |-> EncodeAudio(n, round[i])])

Withdraws ==
    \E n \in Others, count \in ByeCounts :
       LET byes == Byes([i \in 1 .. count |-> i])
       IN  Says("audio", "own", byes, count, [i \in DOMAIN byes |-> EncodeAudio(n, byes[i])])

(* What another implementation, or the network, makes of a datagram.       *)
PrefixLen == IF port = "measurement" THEN 2 ELSE 5

Restyled(d, how) ==
    LET head == SubSeq(d, 1, PrefixLen)
        payload == From(d, PrefixLen + 1)
        es == Entries(payload)
        again == [i \in DOMAIN es |-> Entry(es[i].key, es[i].value)]
    IN  CASE how = "own" -> d
          [] how = "reordered" -> head \o FlattenSeq(Reverse(again))
          [] how = "extended" ->
               head \o Entry(IF port = "measurement" THEN "sess" ELSE "zzzz",
                             Written(<<8>>, <<"other">>)) \o payload
          [] how = "spoiled" ->
               head \o Entry(es[1].key, es[1].value \o Written(<<8>>, <<0>>)) \o es[1].rest
          [] how = "cut" -> Front(d)
          [] how = "newer" -> [d EXCEPT ![2].v = "newer"]
          [] how = "version" -> [d EXCEPT ![1].v = "other"]
          [] how = "foreign" -> [d EXCEPT ![4].v = 1]

Restyles(how) ==
    /\ Len(wire) = 1 /\ heard = <<>> /\ style = "own"
    /\ meant[1].type # "buffer" \/ how \in {"cut", "newer", "version", "foreign"}
    /\ how \in {"spoiled", "cut"} => Len(wire[1]) > PrefixLen
    /\ how = "foreign" => port # "measurement"
    /\ style' = how /\ wire' = <<Restyled(wire[1], how)>>
    /\ UNCHANGED <<port, meant, total, heard, replies>>

Received(d) ==
    CASE port = "discovery" -> {HandleDiscovery(d)}
      [] port = "audio" -> {HandleAudio(d)}
      [] port = "measurement" -> {HandleMeasurement(d, <<gt>>) : gt \in Times}

Arrives ==
    /\ wire # <<>>
    /\ \E r \in Received(Head(wire)) :
          heard' = Append(heard, r.heard) /\ replies' = replies \o r.replies
    /\ wire' = Tail(wire)
    /\ UNCHANGED <<port, meant, total, style>>

(* The pong reaches the pinging peer, which goes on with the next ping.    *)
PongArrives ==
    /\ port = "measurement" /\ wire = <<>> /\ Len(heard) = 1 /\ replies # <<>>
    /\ heard' = Append(heard, DecodeSync(replies[1]))
    /\ UNCHANGED <<port, meant, total, style, wire, replies>>

ChainPings ==
    /\ port = "measurement" /\ Len(heard) = 2
    /\ \E ht \in Times :
          LET ping == [type |-> "ping", ht |-> <<ht>>, pgt |-> heard[2].ghost]
          IN  meant' = <<ping>> /\ wire' = <<EncodePing(ping)>>
    /\ style' = "own" /\ heard' = <<>> /\ replies' = <<>>
    /\ UNCHANGED <<port, total>>

Ends ==
    /\ wire = <<>> /\ heard # <<>>
    /\ port' = None /\ meant' = <<>> /\ total' = None /\ style' = "own" /\ wire' = <<>>
    /\ heard' = <<>> /\ replies' = <<>>

Styles == {"reordered", "extended", "spoiled", "cut", "newer", "version", "foreign"}

Next ==
    \/ SpeaksDiscovery \/ Pings \/ SpeaksAudio \/ Streams \/ Announces \/ Withdraws
    \/ \E how \in Styles : Restyles(how)
    \/ Arrives \/ PongArrives \/ ChainPings \/ Ends

Spec == Init /\ [][Next]_vars
-----------------------------------------------------------------------------
(* What must hold. *)

Harmless == style \in {"own", "reordered", "extended"}
FromOwn == style = "echoed" \/ (port = "discovery" /\ meant[1].node = Own)

(* What is read is what was said, on every socket, whatever the order of   *)
(* the entries and whatever entries of a newer version come with them      *)
(* (PeerState::read, sync::decode, decode_announcement).                   *)
Understood ==
    Harmless => \A i \in DOMAIN heard \cap DOMAIN meant :
                   heard[i] = IF FromOwn THEN Error ELSE meant[i]

(* A datagram with an entry of the wrong size, cut short, of another       *)
(* version or group, a buffer whose frames and samples disagree, or a      *)
(* peer's own comes to nothing: no part of it is taken up (Entry::decode,  *)
(* decode_audio_buffer, the admission rules).                              *)
SpoiledDiscarded ==
    ~Harmless => \A i \in DOMAIN heard : heard[i] = Error

(* Every ping of this implementation, the longest of a chain included, is  *)
(* answered, and the pinging peer gets its payload back as it was, entries *)
(* the responder does not know and entries named like the responder's own  *)
(* included (MAX_PING_PAYLOAD, encode_pong, decode, parse_echo).           *)
EchoVerbatim ==
    port = "measurement" /\ heard # <<>> =>
        /\ style = "own" => replies # <<>>
        /\ Len(heard) = 2 =>
             /\ heard[2].session = OwnSession
             /\ heard[2].echo = From(Restyled(EncodePing(meant[1]), style), 3)
             /\ ParseEcho(heard[2].echo) = [ht |-> meant[1].ht, pgt |-> meant[1].pgt]

(* However the list of channels is split, every channel is announced once, *)
(* in order, and the round has one ping, which is answered once; so with   *)
(* the withdrawal of channels.  No datagram exceeds the payload budget     *)
(* (build_announcement_round, send_byes, MAX_PAYLOAD).                     *)
RoundComplete ==
    total # None /\ style = "own" =>
        /\ \A i \in DOMAIN wire : Size(wire[i]) <= 20 + MaxPayload
        /\ wire = <<>> =>
             LET list == FlattenSeq([i \in DOMAIN heard |-> heard[i].channels])
             IN  IF heard[1].type = "byes" THEN list = [i \in 1 .. total |-> i]
                 ELSE /\ [i \in DOMAIN list |-> list[i].id] = [i \in 1 .. total |-> i]
                      /\ {i \in DOMAIN heard : heard[i].ping # None} = {1}
                      /\ Len(replies) = 1
=============================================================================
