------------------------------ MODULE KrpCodec ------------------------------
(***************************************************************************)
(* The two forms of a replay: krp_format.cpp, krp_codec.h, and the record  *)
(* writers of kz_replay.cpp.                                               *)
(*                                                                         *)
(* A .krpr file is a header and a row of records: an event, a key frame (a *)
(* mask and the whole frame) or a delta (a mask and the bytes that changed,*)
(* xor-ed with what they were).  A .krpz file is a header with the lengths *)
(* of four sections and the sections: the types, the masks transposed into *)
(* blocks, the data bytes transposed into one column for each byte of a    *)
(* frame, the events; the whole compressed by zstd.                        *)
(*                                                                         *)
(* A file is cut into cells: a type, an event, a block of a mask, a byte.  *)
(* Every cell is the set of its bits that are 1.  zstd, which gives back   *)
(* what it was given, is left out but for the limit on its output.         *)
(***************************************************************************)
EXTENDS Naturals, Sequences, FiniteSets, SequencesExt, FiniteSetsExt

CONSTANTS
  FrameSize,   \* sizeof(krp_frame), 112
  MaskBlocks,  \* KRP_MASK_BLOCKS, 2
  BlockBits,   \* the bits of a block, 64
  MaxBody      \* KRP_MAX_DECOMPRESSED_BYTES, in cells

ASSUME CodecAssumption ==
  /\ FrameSize \in Nat \ {0}
  /\ MaskBlocks \in Nat \ {0}
  /\ BlockBits \in Nat \ {0}
  /\ FrameSize <= MaskBlocks * BlockBits
  /\ MaxBody \in Nat

EVENT    == {}
DELTA    == {0}
KEYFRAME == {1}
Types    == {EVENT, DELTA, KEYFRAME}

\* How many numbers of S are not above n, and the i-th number of S.
Rank(S, n) == Cardinality({m \in S : m <= n})

Nth(S, i) == CHOOSE n \in S : Rank(S, n) = i

Xor(a, b) == SymDiff(a, b)

Columns == 1..FrameSize

\* Byte c of a frame is bit BitOf(c) of block BlockOf(c) of its mask; the bits
\* beyond the frame, set in a key frame, stand for nothing.
BlockOf(c) == ((c - 1) \div BlockBits) + 1

BitOf(c) == (c - 1) % BlockBits

ColumnsOf(mask) == {c \in Columns : BitOf(c) \in mask[BlockOf(c)]}

MaskOf(cols) ==
  [b \in 1..MaskBlocks |-> {BitOf(c) : c \in {d \in cols : BlockOf(d) = b}}]

\* The bytes of f in the columns cols, in their order.
Pick(f, cols) == [i \in 1..Cardinality(cols) |-> f[Nth(cols, i)]]

\* kz_rp_write_event, kz_rp_write_keyframe, kz_rp_write_delta.
EventCells(ev) == <<EVENT, ev>>

KeyFrameCells(f) ==
  <<KEYFRAME>> \o [b \in 1..MaskBlocks |-> 0..(BlockBits - 1)] \o f

DeltaCells(f, base) ==
  LET diff == [c \in Columns |-> Xor(f[c], base[c])]
      cols == {c \in Columns : diff[c] # {}}
  IN  <<DELTA>> \o MaskOf(cols) \o Pick(diff, cols)

-----------------------------------------------------------------------------
(***************************************************************************)
(* build_krpz_body.  The records are taken apart one by one: into types,   *)
(* one stream for each block of the masks, one column for each byte of the *)
(* frame, and events.                                                      *)
(***************************************************************************)
NoRecords == [types |-> <<>>, flags |-> [b \in 1..MaskBlocks |-> <<>>],
              data |-> [c \in Columns |-> <<>>], events |-> <<>>]

Fails(err) == [err |-> err]

AddEvent(recs, ev) ==
  [types |-> Append(recs.types, EVENT), flags |-> recs.flags, data |-> recs.data,
   events |-> Append(recs.events, ev)]

\* bytes[c]: the byte the record has for column c.
AddFrame(recs, type, mask, bytes) ==
  [types  |-> Append(recs.types, type),
   flags  |-> [b \in 1..MaskBlocks |-> Append(recs.flags[b], mask[b])],
   data   |-> [c \in Columns |-> IF c \in DOMAIN bytes
                                 THEN Append(recs.data[c], bytes[c])
                                 ELSE recs.data[c]],
   events |-> recs.events]

\* The record that begins after w.at cells.
Take(cells, w) ==
  LET at    == w.at + 1
      type  == cells[at]
      mask  == [b \in 1..MaskBlocks |-> cells[at + b]]
      cols  == ColumnsOf(mask)
      bytes == [c \in cols |-> cells[at + MaskBlocks + Rank(cols, c)]]
      ends  == at + MaskBlocks + Cardinality(cols)
  IN
  IF type \notin Types THEN [w EXCEPT !.err = "corrupt_sections"]
  ELSE IF \/ at + (IF type = EVENT THEN 1 ELSE MaskBlocks) > Len(cells)
          \/ type # EVENT /\ ends > Len(cells)
  THEN [w EXCEPT !.err = "truncated"]
  ELSE IF type = EVENT
  THEN [w EXCEPT !.at = at + 1, !.records = AddEvent(@, cells[at + 1])]
  ELSE [w EXCEPT !.at = ends, !.records = AddFrame(@, type, mask, bytes)]

\* As long as there are cells: walk[n] is what n records have given.
Split(cells) ==
  LET walk[n \in 0..Len(cells)] ==
        IF n = 0 THEN [err |-> "ok", at |-> 0, records |-> NoRecords]
        ELSE LET w == walk[n - 1]
             IN  IF w.err # "ok" \/ w.at = Len(cells) THEN w ELSE Take(cells, w)
  IN  walk[Len(cells)]

(***************************************************************************)
(* compress.  The header of a file is what validate_header says of its     *)
(* first 256 bytes: "ok", "truncated", "bad_magic" or "bad_version".       *)
(***************************************************************************)
Compress(krpr) ==
  LET split == Split(krpr.cells)
      recs  == split.records
      flags == FlattenSeq(recs.flags)
      data  == FlattenSeq(recs.data)
  IN
  IF krpr.header # "ok" THEN Fails(krpr.header)
  ELSE IF split.err # "ok" THEN Fails(split.err)
  ELSE [err |-> "ok",
        krpz |-> [zstd   |-> "frame",
                  header |-> krpr.header,
                  types  |-> Len(recs.types),
                  flags  |-> Len(flags),
                  data   |-> Len(data),
                  events |-> Len(recs.events),
                  cells  |-> recs.types \o flags \o data \o recs.events]]

-----------------------------------------------------------------------------
(***************************************************************************)
(* zstd_decompress, of no bytes, of bytes that are no zstd frame, and of a *)
(* frame: the header counts as one cell.                                   *)
(***************************************************************************)
ZstdError(krpz) ==
  CASE krpz.zstd = "empty" -> "truncated"
    [] krpz.zstd = "frame" /\ Len(krpz.cells) < MaxBody -> "ok"
    [] OTHER -> "zstd_error"

\* Row r of the masks: its block from each of the streams.
RowMask(s, r) == [b \in 1..MaskBlocks |-> s.flags[(b - 1) * s.rows + r]]

\* The rows that have a byte for column c.
RowsWith(masks, c) == {r \in DOMAIN masks : c \in ColumnsOf(masks[r])}

Sections(body) ==
  LET from == body.types + body.flags + body.data
      s == [types  |-> SubSeq(body.cells, 1, body.types),
            flags  |-> SubSeq(body.cells, body.types + 1, body.types + body.flags),
            data   |-> SubSeq(body.cells, body.types + body.flags + 1, from),
            events |-> SubSeq(body.cells, from + 1, from + body.events),
            rows   |-> body.flags \div MaskBlocks]
      masks == [r \in 1..s.rows |-> RowMask(s, r)]
      sizes == [c \in Columns |-> Cardinality(RowsWith(masks, c))]
  IN [types |-> s.types, data |-> s.data, events |-> s.events, rows |-> s.rows,
      masks |-> masks, sizes |-> sizes]

\* The bytes of the columns up to c.
SumTo(sizes, c) ==
  LET sum[d \in 0..FrameSize] == IF d = 0 THEN 0 ELSE sum[d - 1] + sizes[d]
  IN  sum[c]

\* The rows of the types: the records that are frames.
FrameRecords(types) == {t \in DOMAIN types : types[t] # EVENT}

\* map_sections: the lengths in the header must agree with the sections.
SectionsError(body) ==
  LET s == Sections(body) IN
  IF body.header # "ok" THEN body.header
  ELSE IF body.types + body.flags + body.data + body.events > Len(body.cells)
  THEN "truncated"
  ELSE IF body.flags % MaskBlocks # 0 THEN "corrupt_sections"
  ELSE IF body.types = 0 \/ s.types[1] # KEYFRAME THEN "first_frame_not_keyframe"
  ELSE IF /\ ToSet(s.types) \subseteq Types
          /\ Cardinality(FrameRecords(s.types)) = s.rows
          /\ body.types - s.rows = body.events
          /\ SumTo(s.sizes, FrameSize) = body.data
       THEN "ok"
  ELSE "corrupt_sections"

\* The next byte of column c in row r: col[c] has moved once in each row with c.
ByteAt(s, c, r) == s.data[SumTo(s.sizes, c - 1) + Rank(RowsWith(s.masks, c), r)]

NoFrame == [c \in Columns |-> {}]

\* Mutant: a key frame is xor-ed with the frame before, like a delta.
FramesOf_XorsKeys(s) ==
  LET frame[r \in 0..s.rows] ==
        IF r = 0 THEN NoFrame
        ELSE LET prev == frame[r - 1]
             IN  [c \in Columns |->
                    IF c \notin ColumnsOf(s.masks[r]) THEN prev[c]
                    ELSE Xor(prev[c], ByteAt(s, c, r))]
  IN  [r \in 1..s.rows |-> frame[r]]

(***************************************************************************)
(* for_each_record: a key frame gives its bytes, a delta the bytes that    *)
(* changed; the other bytes are those of the frame before.                 *)
(***************************************************************************)
FramesOf(s) ==
  LET type(r) == s.types[Nth(FrameRecords(s.types), r)]
      frame[r \in 0..s.rows] ==
        IF r = 0 THEN NoFrame
        ELSE LET prev == frame[r - 1]
             IN  [c \in Columns |->
                    IF c \notin ColumnsOf(s.masks[r]) THEN prev[c]
                    ELSE IF type(r) = KEYFRAME THEN ByteAt(s, c, r)
                    ELSE Xor(prev[c], ByteAt(s, c, r))]
  IN  [r \in 1..s.rows |-> frame[r]]

\* parse_playback: what the bot gets of a .krpz file, which is nothing when the
\* file is refused.
Parse(krpz) ==
  IF ZstdError(krpz) # "ok" THEN Fails(ZstdError(krpz))
  ELSE IF SectionsError(krpz) # "ok" THEN Fails(SectionsError(krpz))
  ELSE LET s == Sections(krpz)
       IN  [err |-> "ok", frames |-> FramesOf(s), events |-> s.events]

(***************************************************************************)
(* decompress: build_krpr writes the records again, one for each type.     *)
(***************************************************************************)
Decompress(krpz) ==
  LET s == Sections(krpz)
      row(t) == Rank(FrameRecords(s.types), t)
      bytes(r) == LET cols == ColumnsOf(s.masks[r])
                  IN  Pick([c \in cols |-> ByteAt(s, c, r)], cols)
      record(t) == IF s.types[t] # EVENT
                   THEN <<s.types[t]>> \o s.masks[row(t)] \o bytes(row(t))
                   ELSE EventCells(s.events[t - row(t)])
  IN
  IF ZstdError(krpz) # "ok" THEN Fails(ZstdError(krpz))
  ELSE IF SectionsError(krpz) # "ok" THEN Fails(SectionsError(krpz))
  ELSE [err |-> "ok",
        krpr |-> [header |-> krpz.header,
                  cells  |-> FlattenSeq([t \in DOMAIN s.types |-> record(t)])]]
=============================================================================
