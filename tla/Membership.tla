----------------------------- MODULE Membership -----------------------------
(***************************************************************************)
(* What a peer promises about the session it is in, free of peers, timers, *)
(* gateways and measurements: it founds sessions under fresh identifiers,  *)
(* joins only sessions whose ghost transform it knows and which beat its   *)
(* own under the join rule, never loses the transform of a session it      *)
(* leaves, and re-measures only a session it did not found.                *)
(* Session implements this specification (SessionProofs).                  *)
(***************************************************************************)
EXTENDS Integers

CONSTANTS
    None,       \* no transform
    Id,         \* session identifiers, ordered as numbers
    Epsilon     \* JOIN_EPSILON

VARIABLES
    enabled, node, session, offset,
    known     \* the transforms of the sessions met since enabling, or None

vars == <<enabled, node, session, offset, known>>

Nothing == [s \in Id |-> None]

Wins(s, o) ==
    \/ o - offset > Epsilon
    \/ o - offset < Epsilon /\ offset - o < Epsilon /\ s < session

Fresh(n) == n \in Id /\ n # node /\ n # session /\ known[n] = None

Init ==
    /\ enabled = FALSE
    /\ node \in Id
    /\ session = node
    /\ offset = 0
    /\ known = Nothing

Enter ==
    /\ ~enabled
    /\ enabled' = TRUE
    /\ Fresh(node')
    /\ session' = node'
    /\ offset' \in Int
    /\ known' = Nothing

Leave ==
    /\ enabled
    /\ enabled' = FALSE
    /\ UNCHANGED <<node, session, offset, known>>

(* A session other than the current one is measured, for the first time or *)
(* again.                                                                  *)
Learn ==
    /\ enabled
    /\ \E s \in Id \ {session} :
          known'[s] \in Int /\ known' = [known EXCEPT ![s] = known'[s]]
    /\ UNCHANGED <<enabled, node, session, offset>>

(* A known session wins, or a new one whose measurement has just ended; the *)
(* session left stays known under its own transform.                       *)
Join ==
    /\ enabled
    /\ session' \in Id \ {session}
    /\ offset' \in Int
    /\ Wins(session', offset')
    /\ known[session'] \in {None, offset'}
    /\ known' = [known EXCEPT ![session'] = offset', ![session] = offset]
    /\ UNCHANGED <<enabled, node>>

(* The session joined is measured again. *)
Refine ==
    /\ enabled
    /\ session # node
    /\ offset' \in Int
    /\ known' = [known EXCEPT ![session] = offset']
    /\ UNCHANGED <<enabled, node, session>>

(* The session has no members left. *)
Found ==
    /\ enabled
    /\ Fresh(node')
    /\ session' = node'
    /\ offset' \in Int
    /\ known' = [known EXCEPT ![session] = offset]
    /\ UNCHANGED enabled

Next == Enter \/ Leave \/ Learn \/ Join \/ Refine \/ Found

Spec == Init /\ [][Next]_vars
=============================================================================
