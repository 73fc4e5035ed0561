------------------------------- MODULE Source -------------------------------
(***************************************************************************)
(* The receiving end of one audio channel (src/crates/tactus/src/audio.rs, *)
(* `Source` and `deliver`): the inbox, and the counter of chunks lost that *)
(* it derives from gaps in their sequence numbers.                         *)
(*                                                                         *)
(* The publisher numbers the chunks of the channel 1, 2, ... and packs     *)
(* consecutive ones into datagrams.  The network may lose, repeat and       *)
(* reorder them.  Publisher and receiver move between sessions; a buffer   *)
(* of another session is not delivered.                                    *)
(* The samples, their beats and the time of the last buffer are left out.  *)
(***************************************************************************)
EXTENDS Integers, Sequences, FiniteSets

CONSTANTS
    None,          \* no subscription; no chunk yet
    Sessions,
    InboxLimit,    \* INBOX_LIMIT
    MaxSeq,        \* chunks the publisher ever sends
    MaxChunks      \* chunks in a datagram

Sources == [inbox : Seq(Nat), next_seq_expected : Nat \cup {None}, lost_chunks : Nat]

ASSUME SourceAssumption ==
    /\ None \notin Nat
    /\ None \notin Sources
    /\ InboxLimit \in Nat
    /\ MaxSeq \in Nat
    /\ MaxChunks \in Nat

VARIABLES
    source,        \* the Source of the subscription, or None
    session,       \* the receiver's session
    pubSession,    \* the publisher's session
    next_seq,      \* the publisher's next chunk
    sent,          \* the datagrams sent
    start,         \* the first chunk delivered on this subscription, or None
    heard,         \* the chunks delivered on it
    ambiguous,     \* whether some came twice, or from before the first one
    since          \* how many chunks came after each chunk's last arrival;
                   \* None if it has not come since the inbox was drained, or
                   \* InboxLimit others have come after it

vars == <<source, session, pubSession, next_seq, sent, start, heard, ambiguous, since>>

NoArrivals == [c \in 1 .. MaxSeq |-> None]

Datagrams == [first : 1 .. MaxSeq, last : 1 .. MaxSeq, session : Sessions]

-----------------------------------------------------------------------------
NewSource == [inbox |-> <<>>, next_seq_expected |-> None, lost_chunks |-> 0]

PushFaultNewest(inbox, lo, hi) ==
    LET all == inbox \o [i \in 1 .. (hi - lo + 1) |-> lo + i - 1]
    IN  IF Len(all) <= InboxLimit THEN all ELSE SubSeq(all, 1, InboxLimit)

(* Chunks lo .. hi at the back, the oldest out at the front.               *)
Push(inbox, lo, hi) ==
    LET all == inbox \o [i \in 1 .. (hi - lo + 1) |-> lo + i - 1]
    IN  IF Len(all) <= InboxLimit THEN all
        ELSE SubSeq(all, Len(all) - InboxLimit + 1, Len(all))

LateFaultKept(lost, late) == lost
(* Late chunks come off the count, which saturates at 0.                    *)
Late(lost, late) == IF late > lost THEN 0 ELSE lost - late

GapFaultExclusive(expected, seq) == seq - expected + 1

(* What the arrival of chunk `seq` in place of `expected` says was lost.   *)
Gap(expected, seq) == seq - expected

(* `deliver` on consecutive chunks d.first .. d.last: those below the      *)
(* expected one are late; the rest follow it after a gap, if any.          *)
Deliver(s, d) ==
    LET e == s.next_seq_expected
        inbox == Push(s.inbox, d.first, d.last)
    IN  IF e = None
        THEN [s EXCEPT !.inbox = inbox, !.next_seq_expected = d.last + 1]
        ELSE IF d.first >= e
        THEN [s EXCEPT !.inbox = inbox, !.next_seq_expected = d.last + 1,
                       !.lost_chunks = @ + Gap(e, d.first)]
        ELSE IF d.last < e
        THEN [s EXCEPT !.inbox = inbox,
                       !.lost_chunks = Late(@, d.last - d.first + 1)]
        ELSE [s EXCEPT !.inbox = inbox, !.next_seq_expected = d.last + 1,
                       !.lost_chunks = Late(@, e - d.first)]

-----------------------------------------------------------------------------
Init ==
    /\ source = None
    /\ session \in Sessions
    /\ pubSession \in Sessions
    /\ next_seq = 1 /\ sent = {}
    /\ start = None /\ heard = {} /\ ambiguous = FALSE
    /\ since = NoArrivals

(* A subscription that exists is kept as it is. *)
Subscribe ==
    /\ source = None
    /\ source' = NewSource
    /\ UNCHANGED <<session, pubSession, next_seq, sent, start, heard, ambiguous, since>>

(* Also what disabling LinkAudio or the peer does to it. *)
Unsubscribe ==
    /\ source # None
    /\ source' = None
    /\ start' = None /\ heard' = {} /\ ambiguous' = FALSE
    /\ since' = NoArrivals
    /\ UNCHANGED <<session, pubSession, next_seq, sent>>

Poll ==
    /\ source # None
    /\ source' = [source EXCEPT !.inbox = <<>>]
    /\ since' = NoArrivals
    /\ UNCHANGED <<session, pubSession, next_seq, sent, start, heard, ambiguous>>

Sends ==
    /\ \E n \in 1 .. MaxChunks :
         /\ next_seq + n - 1 <= MaxSeq
         /\ sent' = sent \cup {[first |-> next_seq, last |-> next_seq + n - 1,
                                 session |-> pubSession]}
         /\ next_seq' = next_seq + n
    /\ UNCHANGED <<source, session, pubSession, start, heard, ambiguous, since>>

(* Whether some chunk of d came before, or lies before the first one.      *)
Again(d) == start # None /\ (d.first < start \/ (d.first .. d.last) \cap heard # {})

(* d's chunks come one by one, so the last of them is the latest.           *)
Later(c, d) ==
    IF c \in d.first .. d.last THEN d.last - c
    ELSE IF since[c] = None THEN InboxLimit
    ELSE since[c] + (d.last - d.first + 1)

(* A buffer of another session, or of a channel with no source, is dropped. *)
Discarded(d) == source = None \/ d.session # session

(* A datagram sent may arrive at any time, any number of times, or never. *)
Arrives ==
    \E d \in sent :
       /\ ~Discarded(d)
       /\ source' = Deliver(source, d)
       /\ start' = IF start = None THEN d.first ELSE start
       /\ heard' = heard \cup (d.first .. d.last)
       /\ ambiguous' = (ambiguous \/ Again(d))
       /\ since' = [c \in 1 .. MaxSeq |->
                      IF Later(c, d) < InboxLimit THEN Later(c, d) ELSE None]
       /\ UNCHANGED <<session, pubSession, next_seq, sent>>

Moves ==
    /\ session' \in Sessions
    /\ pubSession' \in Sessions
    /\ UNCHANGED <<source, next_seq, sent, start, heard, ambiguous, since>>

Next == Subscribe \/ Unsubscribe \/ Poll \/ Sends \/ Arrives \/ Moves

Spec == Init /\ [][Next]_vars

-----------------------------------------------------------------------------
(* Types, and the bound of the inbox. *)
TypeOK ==
    /\ source # None =>
         /\ source.inbox \in Seq(1 .. MaxSeq)
         /\ Len(source.inbox) <= InboxLimit
         /\ source.next_seq_expected \in (2 .. MaxSeq + 1) \cup {None}
         /\ source.lost_chunks \in 0 .. MaxSeq
    /\ session \in Sessions /\ pubSession \in Sessions
    /\ next_seq \in 1 .. MaxSeq + 1
    /\ sent \subseteq Datagrams
    /\ ambiguous \in BOOLEAN
    /\ since \in [1 .. MaxSeq -> Nat \cup {None}]
    /\ heard \subseteq 1 .. MaxSeq

(* The chunks between the first one delivered and the next one expected     *)
(* that were not delivered.                                                *)
Missing ==
    IF start = None THEN {} ELSE (start .. (source.next_seq_expected - 1)) \ heard

(* The counter never reports a loss that did not happen, in any order and   *)
(* with any repetition of the datagrams, across session changes            *)
(* (deliver's gap and its saturating decrement).                           *)
LossNeverOverstated ==
    source # None => source.lost_chunks <= Cardinality(Missing)

(* The counter is the number of chunks lost (channel_lost_chunks: "Chunks   *)
(* detected lost on a subscription so far, from gaps"), late chunks taken  *)
(* back, as long as none was repeated or older than the first delivered.   *)
LossExact ==
    source # None /\ ~ambiguous => source.lost_chunks = Cardinality(Missing)

(* The inbox holds what was delivered last, in the order of delivery,      *)
(* whatever the network makes of the datagrams: a chunk that came since    *)
(* the inbox was drained is at the place its arrival gives it, as long as  *)
(* fewer than the limit came after, and nothing else is there.  Overflow,  *)
(* also by a datagram of several chunks, takes the oldest only (deliver's  *)
(* push_back and pop_front, poll_channel).                                 *)
OldestDropped ==
    source # None =>
      /\ \A c \in 1 .. MaxSeq : since[c] # None =>
            LET at == Len(source.inbox) - since[c]
            IN  at \in DOMAIN source.inbox /\ source.inbox[at] = c
      /\ \A i \in DOMAIN source.inbox :
            /\ since[source.inbox[i]] # None
            /\ since[source.inbox[i]] <= Len(source.inbox) - i
=============================================================================
