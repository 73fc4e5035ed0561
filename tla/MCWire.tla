------------------------------- MODULE MCWire -------------------------------
EXTENDS Wire

PeerStates ==
    [timeline : {None, <<5, 6, 7>>}, session : {None, <<"s">>},
     start_stop : {None, <<TRUE, 6, 7>>},
     mep : {None, <<"v4", 1>>, <<"v6", 1>>}, aep : {None, <<"v4", 2>>}]

Buffer(chunks, codec, channels, bytes) ==
    [type |-> "buffer", channel |-> 1, session |-> "s", chunks |-> chunks, codec |-> codec,
     rate |-> 48000, num_channels |-> channels, bytes |-> bytes]

One == <<<<1, 251, 0, 5>>>>
Two == <<<<1, 100, 0, 5>>, <<2, 25, 40, 5>>>>

(* Mono and stereo, one chunk and two. *)
AudioBuffers == {Buffer(One, 1, 1, 502), Buffer(Two, 1, 2, 500)}

(* No chunks, no codec, frames for other samples than come with them.      *)
SpoiledBuffers ==
    {Buffer(<<>>, 1, 1, 2), Buffer(One, 0, 1, 502), Buffer(One, 1, 2, 502),
     Buffer(Two, 1, 2, 498)}
=============================================================================
