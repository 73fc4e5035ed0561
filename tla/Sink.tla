-------------------------------- MODULE Sink --------------------------------
(***************************************************************************)
(* The transmitting end of one audio channel (src/crates/tactus/src/       *)
(* audio.rs, `Sink`, `write_sink`, `drain_datagrams`): beat-stamped        *)
(* material is collected in segments and packed into datagrams.            *)
(*                                                                         *)
(* A sample is the number of its place in all that was ever written, so    *)
(* what becomes of it can be followed.  Sizes are in samples of two bytes. *)
(* Who requests the channel is modelled elsewhere; here somebody does, or  *)
(* nobody.                                                                 *)
(***************************************************************************)
EXTENDS BeatMath, Sequences, FiniteSetsExt

CONSTANTS
    Sizings,       \* of datagrams, [budget, record_cost, chunk_cap]: the reference's, filling
    Formats,       \* [rate, channels] the application writes in
    Scale,         \* beats of a unit of rate and tempo
    Tempos,
    WriteSizes,    \* samples in one write
    Jumps,         \* how far off the end of the last write the next one begins
    MaxSamples     \* samples ever written

ASSUME SinkAssumption ==
    /\ Sizings \subseteq [budget : Nat, record_cost : Nat, chunk_cap : Nat \ {0}]
    /\ Formats \subseteq [rate : Nat \ {0}, channels : Nat \ {0}]
    /\ Tempos \subseteq Nat \ {0}
    /\ Scale \in Nat /\ WriteSizes \subseteq Nat /\ Jumps \subseteq Int

VARIABLES
    sizing,        \* config.fill_audio_datagrams decides it
    segments,      \* pending runs of material
    format,        \* of the pending material
    requested,     \* some requester has not expired
    tempo,         \* of the timeline
    cursor,        \* where the application's last write ended: [at, frames, begin]
    next_seq,      \* of the next chunk
    stamps,        \* ghost: of each sample written, its tempo, beat, the chunks
                   \* before it and whether it came in a write of whole frames
    out,           \* the datagrams of the last write
    panicked       \* the consumer found no planned frame

vars == <<sizing, segments, format, requested, tempo, cursor, next_seq, stamps, out, panicked>>

-----------------------------------------------------------------------------
FrameBeats(frames, rate, period) == RoundDiv(frames * Scale, rate * period)

Frames(seg, ch) == Len(seg.data) \div ch

(* Drawing frames from the segments in order: `at` of them are entered,    *)
(* `rest` frames of the last are not planned yet, `left` is the room.  A   *)
(* segment longer than the chunk cap splits.                               *)
PlanStep(p, segs, ch) ==
    IF p.exhausted \/ (p.rest = 0 /\ p.at = Len(segs)) THEN p
    ELSE IF p.rest = 0 THEN [p EXCEPT !.at = @ + 1, !.rest = Frames(segs[p.at + 1], ch)]
    ELSE IF p.left < sizing.record_cost + ch THEN [p EXCEPT !.exhausted = TRUE]
    ELSE LET take == Min({p.rest, sizing.chunk_cap, (p.left - sizing.record_cost) \div ch})
         IN  [p EXCEPT !.rest = @ - take,
                       !.left = @ - sizing.record_cost - take * ch,
                       !.takes = Append(@, take)]

(* The plan of one datagram: frames per chunk.  Every step but the last    *)
(* enters a segment or spends room.                                        *)
Plan(segs, ch) ==
    LET steps == Len(segs) + sizing.budget + 1
        run[n \in 0 .. steps] ==
            IF n = 0 THEN [at |-> 0, rest |-> 0, left |-> sizing.budget,
                           takes |-> <<>>, exhausted |-> FALSE]
            ELSE PlanStep(run[n - 1], segs, ch)
    IN  run[steps]

FullFault(plan, ch) == plan.takes # <<>>

(* Only a full datagram is emitted. *)
Full(plan, ch) ==
    plan.takes # <<>> /\ (plan.exhausted \/ plan.left < sizing.record_cost + ch)

SkipResidueFault(segs, ch) == segs

(* Segments shorter than a frame at the front are dropped. *)
SkipResidue(segs, ch) ==
    LET whole == {k \in DOMAIN segs : Len(segs[k].data) >= ch}
    IN  IF whole = {} THEN <<>> ELSE SubSeq(segs, Min(whole), Len(segs))

AdvanceFault(seg, take, fmt) == seg.begin

(* The beat of what is left of a segment after `take` frames. *)
Advance(seg, take, fmt) == seg.begin + FrameBeats(take, fmt.rate, seg.tempo)

(* A segment that is used up is popped. *)
Remaining(seg, segs) == IF seg.data = <<>> THEN segs ELSE <<seg>> \o segs

(* One chunk drawn from the segments as planned; without the frames for it *)
(* the code panics.                                                        *)
Consume(c, take, fmt) ==
    LET s == SkipResidue(c.segs, fmt.channels)
        n == take * fmt.channels
        seg == s[1]
        left == [seg EXCEPT !.data = SubSeq(@, n + 1, Len(@)), !.begin = Advance(seg, take, fmt)]
    IN  IF c.panic \/ s = <<>> \/ Len(seg.data) < n THEN [c EXCEPT !.panic = TRUE]
        ELSE [c EXCEPT
                !.chunks = Append(@, [begin |-> seg.begin, tempo |-> seg.tempo,
                                      data |-> SubSeq(seg.data, 1, n)]),
                !.segs = Remaining(left, Tail(s))]

(* One datagram's chunks, and what they leave. *)
Chunks(segs, takes, fmt) ==
    LET run[n \in 0 .. Len(takes)] ==
            IF n = 0 THEN [chunks |-> <<>>, segs |-> segs, panic |-> FALSE]
            ELSE Consume(run[n - 1], takes[n], fmt)
    IN  run[Len(takes)]

DrainStep(d, fmt) ==
    LET plan == Plan(d.segs, fmt.channels)
        made == Chunks(d.segs, plan.takes, fmt)
    IN  IF d.panic \/ ~Full(plan, fmt.channels) THEN d
        ELSE IF made.panic THEN [d EXCEPT !.panic = TRUE]
        ELSE [d EXCEPT !.out = Append(@, made.chunks), !.segs = made.segs,
                       !.seq = @ + Len(made.chunks)]

Members(seq) == {seq[i] : i \in DOMAIN seq}
Samples(segs) == UNION {Members(segs[k].data) : k \in DOMAIN segs}

(* drain_datagrams: full datagrams as long as there are; each takes some   *)
(* sample.                                                                 *)
Drain(segs, fmt) ==
    LET steps == Cardinality(Samples(segs))
        run[n \in 0 .. steps] ==
            IF n = 0 THEN [out |-> <<>>, segs |-> segs, seq |-> next_seq, panic |-> FALSE]
            ELSE DrainStep(run[n - 1], fmt)
    IN  run[steps]

-----------------------------------------------------------------------------
(* New material extends a segment of its tempo that ends where it begins.  *)
Contiguous(seg, fmt, begin) ==
    /\ seg.tempo = tempo
    /\ seg.begin + FrameBeats(Frames(seg, fmt.channels), fmt.rate, tempo) - begin \in -1 .. 1

Appended(segs, fmt, begin, data) ==
    IF segs # <<>> /\ Contiguous(segs[Len(segs)], fmt, begin)
    THEN [segs EXCEPT ![Len(segs)].data = @ \o data]
    ELSE Append(segs, [begin |-> begin, tempo |-> tempo, data |-> data])

KeptFormatFault(fmt) == IF format # fmt THEN segments ELSE <<>>

(* A format change drops the pending material. *)
KeptFormat(fmt) == IF format = fmt THEN segments ELSE <<>>

Init ==
    /\ sizing \in Sizings
    /\ segments = <<>>
    /\ format \in Formats
    /\ requested = FALSE
    /\ tempo \in Tempos
    /\ cursor = [begin |-> 0, frames |-> 0]
    /\ next_seq = 1
    /\ stamps = <<>>
    /\ out = <<>>
    /\ panicked = FALSE

(* write_sink: n samples at beat `begin` of the session. *)
WriteSink(n, fmt, begin) ==
    LET data == [i \in 1 .. n |-> Len(stamps) + i]
        written == Appended(KeptFormat(fmt), fmt, begin, data)
        drained == Drain(written, fmt)
    IN  /\ format' = fmt
        /\ stamps' = stamps \o [i \in 1 .. n |->
               [tempo |-> tempo, whole |-> n % fmt.channels = 0, seq |-> next_seq,
                beat |-> begin + FrameBeats((i - 1) \div fmt.channels, fmt.rate, tempo)]]
        /\ IF requested
           THEN /\ segments' = drained.segs
                /\ out' = drained.out
                /\ next_seq' = drained.seq
                /\ panicked' = drained.panic
           ELSE segments' = <<>> /\ out' = <<>> /\ UNCHANGED <<next_seq, panicked>>

(* The application goes on where it stopped, or `jump` beats off.          *)
Writes ==
    \E n \in WriteSizes, fmt \in Formats, jump \in Jumps :
       LET same == jump = 0 /\ fmt = format
           end == cursor.begin + FrameBeats(cursor.frames, format.rate, tempo)
       IN  /\ ~panicked
           /\ Len(stamps) + n <= MaxSamples
           /\ WriteSink(n, fmt, end + jump)
           /\ cursor' = [begin |-> IF same THEN cursor.begin ELSE end + jump,
                         frames |-> (IF same THEN cursor.frames ELSE 0) + n \div fmt.channels]
           /\ UNCHANGED <<sizing, requested, tempo>>

RequesterComes == ~requested /\ requested' = TRUE
                  /\ UNCHANGED <<sizing, segments, format, tempo, cursor, next_seq, stamps, out, panicked>>

RequestersGone == requested /\ requested' = FALSE
                  /\ UNCHANGED <<sizing, segments, format, tempo, cursor, next_seq, stamps, out, panicked>>

(* The tempo changes, with a timeline set or heard, or a session joined.   *)
TempoChanges ==
    /\ tempo' \in Tempos \ {tempo}
    /\ cursor' = [begin |-> cursor.begin + FrameBeats(cursor.frames, format.rate, tempo),
                  frames |-> 0]
    /\ UNCHANGED <<sizing, segments, format, requested, next_seq, stamps, out, panicked>>

Next == Writes \/ RequesterComes \/ RequestersGone \/ TempoChanges

Spec == Init /\ [][Next]_vars
-----------------------------------------------------------------------------
Sent == UNION {Samples(d) : d \in Members(out)}
Pending == Samples(segments)

(* Each sample of a comes before each sample of b, and those of a sequence *)
(* of samples, chunks or segments in its order.                            *)
Before(A, B) == \A x \in A, y \in B : x < y
Increasing(data) == \A i, j \in DOMAIN data : i < j => data[i] < data[j]
Sorted(segs) ==
    /\ \A k \in DOMAIN segs : Increasing(segs[k].data)
    /\ \A k, l \in DOMAIN segs : k < l => Before(Members(segs[k].data), Members(segs[l].data))

(* Material is sent once and in the order it was written, and what is      *)
(* pending comes after what was sent; the planner and the consumer agree   *)
(* on the frames there are, whatever the lengths written, so the latter's  *)
(* expect("planned frames") holds (drain_datagrams).                       *)
InOrder ==
    /\ ~panicked
    /\ Sorted(segments) /\ \A d \in DOMAIN out : Sorted(out[d])
    /\ \A d, e \in DOMAIN out : d < e => Before(Samples(out[d]), Samples(out[e]))
    /\ Before(Sent, Pending)

(* Samples past the last whole frame of a segment. *)
Odd(seg, ch) == {seg.data[i] : i \in Frames(seg, ch) * ch + 1 .. Len(seg.data)}
Residue == UNION {Odd(segments[k], format.channels) : k \in DOMAIN segments}

(* While somebody requests the channel and the format stays, a write loses *)
(* nothing but residue: every other sample that was pending or is written  *)
(* is sent or stays pending (drain_datagrams).                             *)
NothingDropped ==
    [][stamps' # stamps /\ requested /\ format' = format =>
         (Pending \ Residue) \cup (Len(stamps) + 1 .. Len(stamps')) \subseteq Sent' \cup Pending']_vars

(* Of an application that writes whole frames, every frame of a chunk is   *)
(* where it was put, at the tempo it was written in, but for what rounding *)
(* can do: two beats, and half of one for each chunk drawn since it was    *)
(* written.  Extending a segment by material that is a beat off does not   *)
(* add up from write to write (contiguity); a split moves the rest by its  *)
(* rounded duration (drain_datagrams), which may.                          *)
ChunksOnBeat ==
    (\A s \in DOMAIN stamps : stamps[s].whole) =>
    \A d \in DOMAIN out : \A k \in DOMAIN out[d] : \A i \in DOMAIN out[d][k].data :
       LET c == out[d][k]
           stamp == stamps[c.data[i]]
           at == c.begin + FrameBeats((i - 1) \div format.channels, format.rate, c.tempo)
           off == 4 + (next_seq - stamp.seq)
       IN  c.tempo = stamp.tempo /\ 2 * (at - stamp.beat) \in -off .. off

(* What chunks, or segments as one chunk each, take of a datagram's room.  *)
Cost(segs, ch) ==
    LET sum[n \in 0 .. Len(segs)] ==
            IF n = 0 THEN 0
            ELSE sum[n - 1] + (IF Frames(segs[n], ch) = 0 THEN 0
                               ELSE sizing.record_cost + Frames(segs[n], ch) * ch)
    IN  sum[Len(segs)]

(* A datagram keeps within its room and is full: not one frame more fits,  *)
(* and no chunk exceeds its cap.  The frames left pending, a record for    *)
(* each segment included, fit in one (the two sizings of drain_datagrams). *)
DatagramsFull ==
    LET ch == format.channels
    IN  /\ \A d \in Members(out) :
              /\ Cost(d, ch) <= sizing.budget
              /\ Cost(d, ch) + sizing.record_cost + ch > sizing.budget
              /\ \A c \in Members(d) : Len(c.data) <= sizing.chunk_cap * ch
        /\ Cost(segments, ch) <= sizing.budget
=============================================================================
