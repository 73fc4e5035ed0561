----------------------------- MODULE MCGateways -----------------------------
EXTENDS Gateways

(* Loopback is 1; the host moves from address 2 to address 3. *)
Lo == [addr |-> 1, up |-> TRUE, loopback |-> TRUE, multicast |-> FALSE,
       point_to_point |-> FALSE]
Eth(a, up) == [addr |-> a, up |-> up, loopback |-> FALSE, multicast |-> TRUE,
               point_to_point |-> FALSE]
Tunnel(a) == [addr |-> a, up |-> TRUE, loopback |-> FALSE, multicast |-> TRUE,
              point_to_point |-> TRUE]

Lists == {{Lo, Eth(2, TRUE), Tunnel(3)}, {Lo, Eth(2, FALSE), Eth(3, TRUE)}}
AutoOrRepeats == {None, <<3, 1, 3>>}
=============================================================================
