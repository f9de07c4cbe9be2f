----------------------------- MODULE MCRecorder -----------------------------
(* Small instances of Recorder, and KrpCodec over bounded inputs.           *)
EXTENDS Recorder, TLC

CONSTANTS p1, p2, p3

Symmetry == Permutations(Slots)

\* One player moves between the slots, with an event, while the queue overflows;
\* two players use one slot in turn; a banned one stays over a map change.
SceneSet ==
  {[slots |-> Slots, players |-> {p1}, queueCap |-> 2, frames |-> 2,
    events |-> 1, joins |-> 2, parks |-> 1, maps |-> 0]} \cup
  {[slots |-> {s}, players |-> {p1, p2}, queueCap |-> 1, frames |-> 3,
    events |-> 0, joins |-> 3, parks |-> 1, maps |-> 0] : s \in Slots} \cup
  {[slots |-> {s}, players |-> {p1, p3}, queueCap |-> 1, frames |-> 1,
    events |-> 0, joins |-> 2, parks |-> 0, maps |-> 1] : s \in Slots}

SmallFrames == [Columns -> {{}, {0}}]

SmallRecords(prev) ==
  {EventCells({0})} \cup {DeltaCells(f, prev) : f \in SmallFrames}
                    \cup {KeyFrameCells(f) : f \in SmallFrames}

\* A cell that is no type of record, an odd mask, a byte.
SmallCells == {EVENT, DELTA, KEYFRAME, {0, 1}}

(* docs/replay-format.md: "The transform is lossless".  Every file that is   *)
(* compressed and not refused by the reader is restored to the last cell;    *)
(* one that is cut in the middle of a record, or holds an unknown type, is   *)
(* not compressed.                                                           *)
ASSUME Lossless ==
  \A f \in SmallFrames : \A a \in SmallRecords(f) : \A n \in 0..Len(a) :
    LET krpr == [header |-> "ok", cells |-> KeyFrameCells(f) \o SubSeq(a, 1, n)]
        krpz == Compress(krpr)
    IN  IF n \in {0, Len(a)}
        THEN /\ krpz.err = "ok"
             /\ Decompress(krpz.krpz) = [err |-> "ok", krpr |-> krpr]
        ELSE krpz.err = "truncated"

(* Whatever a server gets as a body, and its header says of it: the reader   *)
(* refuses it, or finds a byte for every bit of every mask, an event for     *)
(* every event and no section too long: the body is the compressed form of   *)
(* the file it is restored to.                                               *)
ASSUME BodiesRoundTrip ==
  \A n \in 0..6, ts \in 0..3, fs \in 0..4, ds \in 0..3, es \in 0..2 :
    ts + fs + ds + es \in {n, n + 1} =>
      \A cells \in [1..n -> SmallCells] :
        LET body == [zstd |-> "frame", header |-> "ok", types |-> ts,
                     flags |-> fs, data |-> ds, events |-> es,
                     cells |-> cells]
            krpr == Decompress(body)
        IN  krpr.err = "ok" => Compress(krpr.krpr).krpz = body
=============================================================================
