------------------------------ MODULE Election ------------------------------
(***************************************************************************)
(* Several peers on one network, each an engine with its own state         *)
(* (src/crates/tactus/src/engine.rs): their Alives reach each other, they  *)
(* measure each other's sessions, elect one, and change and relay its      *)
(* timeline and transport.                                                 *)
(*                                                                         *)
(* Host clocks are in step and measurements exact, so a session's ghost    *)
(* clock is given by its founder's offset.  An Alive carries the state of  *)
(* the moment it is handled, but for one that is delayed and repeated at   *)
(* will; a lost one is one that is not handled.  Not everybody need reach  *)
(* everybody.  Peers neither leave nor fall silent (Session has that), and *)
(* an application acts a bounded number of times.                          *)
(***************************************************************************)
EXTENDS Engine, FiniteSets

CONSTANTS
    Ghosts,    \* the ghost offset each peer starts with
    Links,     \* the pairs of peers whose datagrams reach each other
    Musicians, \* peers whose application changes tempo and transport
    Tempos,    \* what they may set it to
    MaxChanges \* beat origins and timestamps they reach, together

VARIABLES
    peer,  \* the peers' states; peer n starts with NodeId n
    late,  \* an Alive delayed in the network, or None
    said   \* ghost: of each session, the timeline and transport set last in it

vars == <<peer, late, said>>

Gateway == 0

(* Of two founders' sessions, whether s is the one whose peers stay.       *)
Wins(s, t) == JoinRule(Ghosts[s] - Ghosts[t], s, t)

(* The join rule orders the sessions: no two are exactly the tolerance     *)
(* apart, and no three follow each other in a circle.  The code does not   *)
(* see to that, and nothing but EverybodyAgrees is stated under it.        *)
Ordered ==
    /\ \A s, t \in Id : s # t => Wins(s, t) \/ Wins(t, s)
    /\ \A s, t, u \in Id : Wins(s, t) /\ Wins(t, u) => ~Wins(u, s)

ASSUME ElectionAssumption ==
    /\ Ghosts \in [Id -> Int]
    /\ Links \subseteq SUBSET Id
    /\ Musicians \subseteq Id /\ Tempos \subseteq Int
    /\ MaxChanges \in Nat

Enabled(n) ==
    [Enable(NewPeer(n, TempoMin), [node |-> n, now |-> -Ghosts[n], beats |-> 0], 1)
        EXCEPT !.sst_sync = TRUE]

Init ==
    /\ peer = [n \in Id |-> Enabled(n)]
    /\ late = None
    /\ said = [s \in Id |-> [timeline |-> Enabled(s).timeline, stst |-> DefaultStartStop]]

(* build_state: what an Alive says.  The endpoint of peer n is n.          *)
BuildState(n) ==
    [session |-> peer[n].session, timeline |-> peer[n].timeline,
     stst |-> peer[n].held_stst, mep |-> n]

(* Peer n handles an Alive of peer m. *)
Takes(n, m, state) ==
    /\ {n, m} \in Links
    /\ \E s \in HandlePeerState(peer[n], Gateway, m, state) : peer' = [peer EXCEPT ![n] = s]
    /\ UNCHANGED <<late, said>>

Hears(n, m) == Takes(n, m, BuildState(m))

(* One Alive of all stays behind, and then comes at any time, and again.   *)
Delays(m) ==
    /\ late = None
    /\ late' = [node |-> m, state |-> BuildState(m)]
    /\ UNCHANGED <<peer, said>>

HearsLate(n) ==
    /\ late # None
    /\ n # late.node
    /\ Takes(n, late.node, late.state)

(* The peer that n measures answers, until n has its samples; should it    *)
(* have gone over to another session, its pong says so.                    *)
Measures(n) ==
    /\ peer[n].measurement # None
    /\ LET m == peer[n].measurement.task.target
       IN  peer' = [peer EXCEPT ![n] =
                      HandlePong(@, Gateway, m, peer[m].session, SamplesRequired + 1,
                                 peer[m].ghost_offset)]
    /\ UNCHANGED <<late, said>>

(* The application of peer n. *)
MayAct(n) ==
    /\ n \in Musicians
    /\ peer[n].timeline.beat_origin + peer[n].held_stst.timestamp < MaxChanges

SetsTempo(n) ==
    /\ MayAct(n)
    /\ \E t \in Tempos : peer' = [peer EXCEPT ![n] = SetTempo(@, t, 0)]
    /\ said' = [said EXCEPT ![peer[n].session].timeline = peer'[n].timeline]
    /\ UNCHANGED late

SetsPlaying(n) ==
    /\ MayAct(n)
    /\ peer' = [peer EXCEPT ![n] = SetIsPlaying(@, ~@.app_playing, 0, 0)]
    /\ said' = [said EXCEPT ![peer[n].session].stst = peer'[n].held_stst]
    /\ UNCHANGED late

Next ==
    \E n \in Id :
        \/ \E m \in Id \ {n} : Hears(n, m)
        \/ Delays(n) \/ HearsLate(n)
        \/ Measures(n) \/ SetsTempo(n) \/ SetsPlaying(n)

(* Alives are repeated for ever, and some get through where there is a     *)
(* link; so do pongs.  The late one need never come.                       *)
Spec ==
    /\ Init /\ [][Next]_vars
    /\ \A n \in Id : WF_vars(Measures(n))
    /\ \A n, m \in Id : n # m => WF_vars(Hears(n, m))
-----------------------------------------------------------------------------
(* What must hold. *)

(* All peers come to be in one session, whatever the order in which they   *)
(* hear of, measure and join each other's, and hold the timeline and the   *)
(* transport that were set last in it: also those that hear of them from   *)
(* another peer only, those that join with an older copy of the timeline,  *)
(* with the transport that joining resets, and whatever older Alive comes  *)
(* late or again (process_peer_state, evaluate_join).  The sets of one     *)
(* musician have increasing beat origins and timestamps; the sessions are  *)
(* assumed to be in an order.                                              *)
EverybodyAgrees ==
    Ordered =>
      <>[](\E s \in Id : \A n \in Id :
              /\ peer[n].session = s
              /\ peer[n].timeline = said[s].timeline
              /\ peer[n].held_stst = said[s].stst)

(* Peers that are in the same session share its ghost clock, also when the *)
(* peer they measured had gone over to another session meanwhile.          *)
OneClockPerSession ==
    \A n, m \in Id : peer[n].session = peer[m].session
                        => peer[n].ghost_offset = peer[m].ghost_offset
=============================================================================
