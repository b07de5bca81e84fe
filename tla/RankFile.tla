------------------------------ MODULE RankFile ------------------------------
(***************************************************************************)
(* The rank file container (glm-format/src/container.rs, stream.rs,        *)
(* native_reader.rs, exl3.rs, nvfp4.rs): how a file is laid out, by the    *)
(* builder in memory and by the streaming writer's layout; what the two    *)
(* readers accept; and the native reader at work on a file that may be     *)
(* rewritten or replaced under it.                                         *)
(*                                                                         *)
(* A file is its header and the cells behind it; offsets count cells.  A   *)
(* cell is <<v>> for data, <<"d", descriptor>> for a tensor descriptor and *)
(* <<"m", metadata, 0>> for a codec's metadata.  A digest is the cells     *)
(* hashed, a header's checksum the rest of the header.                     *)
(***************************************************************************)
EXTENDS Integers, Sequences, FiniteSets, FiniteSetsExt, SequencesExt

CONSTANTS
    ALIGNMENT,              \* of the regions; the header fills the first
    PAYLOAD_ALIGNMENT,      \* of the planes in the payload
    STREAM_BUFFER,          \* cells the native reader holds at a time
    SCALE_N0, SCALE_N1, SCALE_GROUPS,   \* the scale tile: 32, 4 and 4
    SCALE_ROWS,             \* rows that share a scale in the 2D codec: 16
    Contents,               \* the tensor lists files are made of
    MaxRewrites             \* how often a file changes under its reader

VARIABLES
    tensors,                \* what the file was made of
    image,                  \* the file the descriptor reads
    inode, opened,          \* of the path, and of the descriptor (-1: none)
    stamp, seen,            \* of the descriptor's inode, now and when opened
    rewrites,
    stage,                  \* where the native reader is
    session                 \* what it holds: header, descriptors, planes streamed

rankFileVars == <<tensors, image, inode, opened, stamp, seen, rewrites, stage, session>>

ZERO == <<0>>
Zeros(n) == [i \in 1 .. n |-> ZERO]
align_up(n, a) == ((n + a - 1) \div a) * a
shape_elements(s) == FoldLeft(LAMBDA a, b : a * b, 1, s)
Concat(s) == FoldLeft(LAMBDA a, b : a \o b, <<>>, s)
PlainCodecs == {"BF16", "FP32"}
Nvfp4Codecs == {"NVFP4_1D", "NVFP4_2D"}
element_bytes(codec) == IF codec = "FP32" THEN 2 ELSE 1
aux_required(codec) == codec \notin PlainCodecs

(***************************************************************************)
(* The codecs.  An NVFP4 value cell is a group of sixteen values, with one *)
(* scale cell per group.                                                   *)
(***************************************************************************)

scale_offset(n, group, padded_k) ==
    LET rows == SCALE_N0 * SCALE_N1
        blocks == padded_k \div SCALE_GROUPS
    IN  rows * SCALE_GROUPS * ((n \div rows) * blocks + group \div SCALE_GROUPS)
          + SCALE_N1 * SCALE_GROUPS * (n % SCALE_N0)
          + SCALE_GROUPS * ((n % rows) \div SCALE_N0) + (group % SCALE_GROUPS)

Nvfp4Metadata_validate(m) ==
    /\ m.logical_n > 0 /\ m.logical_k > 0 /\ m.padded_n >= m.logical_n /\ m.padded_k >= m.logical_k
    /\ m.padded_n % (SCALE_N0 * SCALE_N1) = 0 /\ m.padded_k % SCALE_GROUPS = 0
    /\ m.value_plane = m.padded_n * m.padded_k /\ m.scale_plane = m.padded_n * m.padded_k

\* quantize_scale: a scale may underflow to zero, and then so do its values.
quantize_scale(amax) == IF amax > 1 THEN amax - 1 ELSE 0

TileRow(codec, n) == IF codec = "NVFP4_2D" THEN (n \div SCALE_ROWS) * SCALE_ROWS ELSE n
SharedRows(codec, n) ==
    IF codec = "NVFP4_2D" THEN TileRow(codec, n) .. TileRow(codec, n) + SCALE_ROWS - 1 ELSE {n}

\* PackedNvfp4::pack of the largest magnitudes of the groups, input[n][group].
pack(codec, input) ==
    LET n == Len(input)
        k == Len(input[1])
        padded_n == align_up(n, SCALE_N0 * SCALE_N1)
        padded_k == align_up(k, SCALE_GROUPS)
        amax(row, group) == IF row < n /\ group < k THEN input[row + 1][group + 1] ELSE 0
        scale(row, group) == quantize_scale(Max({amax(r, group) : r \in SharedRows(codec, row)}))
        value(row, group) == IF scale(row, group) = 0 THEN 0 ELSE amax(row, group)
        all == {<<r, g>> : r \in 0 .. padded_n - 1, g \in 0 .. padded_k - 1}
        at(o) == CHOOSE c \in all : scale_offset(c[1], c[2], padded_k) = o
    IN  [metadata |-> [kind |-> "NVFP4", rank |-> 0, codec |-> codec, logical_n |-> n, logical_k |-> k, padded_n |-> padded_n,
                       padded_k |-> padded_k, value_plane |-> padded_n * padded_k,
                       scale_plane |-> padded_n * padded_k],
         values |-> [i \in 1 .. padded_n * padded_k |->
                       <<value((i - 1) \div padded_k, (i - 1) % padded_k)>>],
         scales |-> [i \in 1 .. padded_n * padded_k |-> <<scale(at(i - 1)[1], at(i - 1)[2])>>]]

validate_nvfp4_planes(m, values, scales) ==
    /\ Nvfp4Metadata_validate(m)
    /\ Len(values) = m.value_plane /\ Len(scales) = m.scale_plane
    /\ \A row \in 0 .. m.padded_n - 1, group \in 0 .. m.padded_k - 1 :
         LET value == values[row * m.padded_k + group + 1]
             scale == scales[scale_offset(row, group, m.padded_k) + 1]
         IN  /\ row >= m.logical_n \/ group >= m.logical_k => value = ZERO
             /\ scale = ZERO => value = ZERO
             /\ TileRow(m.codec, row) >= m.logical_n \/ group >= m.logical_k => scale = ZERO
             /\ scale = scales[scale_offset(TileRow(m.codec, row), group, m.padded_k) + 1]

MARKER == <<7>>                 \* EXL3_MCG_MULTIPLIER

from_container_planes(m, primary, aux) ==
    /\ Len(primary) = m.trellis_words /\ Len(aux) = m.rotation_words + 2
    /\ m.rotation_words = m.logical_k + m.logical_n
    /\ aux[1] = MARKER /\ aux[2] = MARKER

\* validate_plain_padding_chunk: the elements outside the logical shape are 0.
Coordinate(linear, shape, axis) ==
    (linear \div shape_elements(SubSeq(shape, axis + 1, Len(shape)))) % shape[axis]

validate_plain_padding_chunk(d, chunk, offset) ==
    LET e == element_bytes(d.codec_id)
    IN  /\ offset % e = 0 /\ Len(chunk) % e = 0
        /\ offset + Len(chunk) <= shape_elements(d.padded_shape) * e
        /\ \A i \in DOMAIN chunk :
             (\E axis \in DOMAIN d.padded_shape :
                Coordinate((offset + i - 1) \div e, d.padded_shape, axis) >= d.logical_shape[axis])
             => chunk[i] = ZERO

validate_plain_geometry(d) ==
    /\ Len(d.logical_shape) = Len(d.padded_shape)
    /\ \A i \in DOMAIN d.logical_shape :
         d.logical_shape[i] > 0 /\ d.logical_shape[i] <= d.padded_shape[i]
    /\ shape_elements(d.padded_shape) * element_bytes(d.codec_id) = d.payload_bytes

(***************************************************************************)
(* The layout.  RankFileBuilder::prepare grows the payload plane by plane  *)
(* and aligns inside it; StreamLayout aligns absolute offsets and leaves   *)
(* the planes to be written in place.                                      *)
(***************************************************************************)

Descriptor(i, t, name_offset, payload, aux, metadata) ==
    [tensor_id |-> i - 1, name_offset |-> name_offset, name_bytes |-> Len(t.name),
     layer_id |-> t.layer_id, codec_id |-> t.codec_id,
     flags |-> t.flags \cup (IF aux_required(t.codec_id) THEN {"AUX_REQUIRED"} ELSE {}),
     logical_shape |-> t.logical_shape, padded_shape |-> t.padded_shape,
     payload_offset |-> payload, payload_bytes |-> Len(t.primary),
     aux_offset |-> aux, aux_bytes |-> Len(t.aux),
     codec_metadata_offset |-> metadata, codec_metadata_bytes |-> Len(t.metadata),
     payload_sha256 |-> t.primary, aux_sha256 |-> t.aux, codec_metadata_sha256 |-> t.metadata]

Names(ts) == Concat([i \in DOMAIN ts |-> ts[i].name])
Metadata(ts) == Concat([i \in DOMAIN ts |-> ts[i].metadata])
LengthOf(s) == Len(Concat(s))
NameOffset(ts, i) == LengthOf([j \in 1 .. i - 1 |-> ts[j].name])
MetadataLocal(ts, i) == LengthOf([j \in 1 .. i - 1 |-> ts[j].metadata])

MANIFEST == <<<<1>>>>           \* its contents are RankManifest's
descriptor_offset == align_up(ALIGNMENT + Len(MANIFEST), ALIGNMENT)
string_offset(ts) == align_up(descriptor_offset + Len(ts), ALIGNMENT)
metadata_offset(ts) == align_up(string_offset(ts) + Len(Names(ts)), ALIGNMENT)
payload_offset(ts) == align_up(metadata_offset(ts) + Len(Metadata(ts)), ALIGNMENT)

PadTo(s, a) == s \o Zeros(align_up(Len(s), a) - Len(s))

\* The aligned payload as it grows, with the descriptors made so far.
prepare(ts) ==
    FoldLeft(LAMBDA p, i :
               LET primary == PadTo(p.payload, PAYLOAD_ALIGNMENT)
                   aux == PadTo(primary \o ts[i].primary, PAYLOAD_ALIGNMENT)
               IN  [payload |-> aux \o ts[i].aux,
                    descriptors |-> Append(p.descriptors,
                      Descriptor(i, ts[i], NameOffset(ts, i), payload_offset(ts) + Len(primary),
                                 payload_offset(ts) + Len(aux),
                                 metadata_offset(ts) + MetadataLocal(ts, i)))],
             [payload |-> <<>>, descriptors |-> <<>>], [i \in DOMAIN ts |-> i])

StreamLayout(ts) ==
    FoldLeft(LAMBDA l, i :
               LET primary == align_up(l.cursor, PAYLOAD_ALIGNMENT)
                   aux == align_up(primary + Len(ts[i].primary), PAYLOAD_ALIGNMENT)
               IN  [cursor |-> aux + Len(ts[i].aux),
                    descriptors |-> Append(l.descriptors,
                      Descriptor(i, ts[i], NameOffset(ts, i), primary, aux,
                                 metadata_offset(ts) + MetadataLocal(ts, i)))],
             [cursor |-> payload_offset(ts), descriptors |-> <<>>], [i \in DOMAIN ts |-> i])

derive_header_flags(ds) ==
    LET saw(codecs) == \E i \in DOMAIN ds : ds[i].codec_id \in codecs
    IN  (IF ~saw({"EXL3"}) THEN {"DIRECT_KERNEL"} ELSE {})
          \cup (IF saw(Nvfp4Codecs) THEN {"NVFP4"} ELSE {})
          \cup (IF saw({"EXL3"}) THEN {"EXL3"} ELSE {})
          \cup (IF saw(Nvfp4Codecs) /\ saw({"EXL3"}) THEN {"HYBRID"} ELSE {})

Region(start, cells) == [start |-> start, end |-> start + cells]
FileUuid(h) ==
    <<h.conversion_uuid, h.rank, h.manifest_hash, h.descriptor_hash, h.payload_hash>>
Crc(h) == [f \in DOMAIN h \ {"crc"} |-> h[f]]

DescriptorCells(ds) == [i \in DOMAIN ds |-> <<"d", ds[i]>>]

encode_rank_header(ts, ds, payload, rank, manifest) ==
    LET hashed == [rank |-> rank, tensor_count |-> Len(ts), flags |-> derive_header_flags(ds),
                   manifest |-> Region(ALIGNMENT, Len(manifest)),
                   descriptor |-> Region(descriptor_offset, Len(ts)),
                   strings |-> Region(string_offset(ts), Len(Names(ts))),
                   metadata |-> Region(metadata_offset(ts), Len(Metadata(ts))),
                   payload |-> Region(payload_offset(ts), Len(payload)),
                   manifest_hash |-> manifest, descriptor_hash |-> DescriptorCells(ds),
                   payload_hash |-> payload, string_hash |-> Names(ts),
                   metadata_hash |-> Metadata(ts), conversion_uuid |-> "c"]
        sealed == [f \in DOMAIN hashed \cup {"file_uuid"} |->
                     IF f = "file_uuid" THEN FileUuid(hashed) ELSE hashed[f]]
    IN  [f \in DOMAIN sealed \cup {"crc"} |-> IF f = "crc" THEN sealed ELSE sealed[f]]

\* RankFileBuilder::build.
build(ts, rank, manifest) ==
    LET p == prepare(ts)
    IN  [header |-> encode_rank_header(ts, p.descriptors, p.payload, rank, manifest),
         body |-> PadTo(manifest, ALIGNMENT) \o PadTo(DescriptorCells(p.descriptors), ALIGNMENT)
                    \o PadTo(Names(ts), ALIGNMENT) \o PadTo(Metadata(ts), ALIGNMENT) \o p.payload]

\* What the streaming writer leaves: a zeroed file with every region and
\* plane written at its offset, audited and sealed.
write_at(body, offset, cells) ==
    [i \in DOMAIN body |->
       LET k == i - (offset - ALIGNMENT)
       IN  IF k \in DOMAIN cells THEN cells[k] ELSE body[i]]

streamed(ts, rank, manifest) ==
    LET l == StreamLayout(ts)
        control == write_at(write_at(write_at(write_at(Zeros(l.cursor - ALIGNMENT), ALIGNMENT, manifest),
                     descriptor_offset, DescriptorCells(l.descriptors)),
                     string_offset(ts), Names(ts)), metadata_offset(ts), Metadata(ts))
        body == FoldLeft(LAMBDA b, i : write_at(write_at(b, l.descriptors[i].payload_offset, ts[i].primary),
                                                l.descriptors[i].aux_offset, ts[i].aux),
                         control, [i \in DOMAIN ts |-> i])
        payload == SubSeq(body, payload_offset(ts) - ALIGNMENT + 1, Len(body))
    IN  [header |-> encode_rank_header(ts, l.descriptors, payload, rank, manifest), body |-> body]

(***************************************************************************)
(* What a reader checks before the payload: the header, the regions, the   *)
(* descriptors.  A descriptor's region starts where the one before ends.   *)
(***************************************************************************)

Bytes(f) == ALIGNMENT + Len(f.body)
Cells(f, r) == SubSeq(f.body, r.start - ALIGNMENT + 1, r.end - ALIGNMENT)
IsZero(cells) == \A i \in DOMAIN cells : cells[i] = ZERO
Inside(r, parent, f) == parent.start <= r.start /\ r.start <= r.end /\ r.end <= parent.end /\ r.end <= Bytes(f)

ordered_regions(f) ==
    LET h == f.header
        follows(next, previous) == next.start = align_up(previous.end, ALIGNMENT)
    IN  /\ h.tensor_count > 0
        /\ h.manifest.start = ALIGNMENT /\ follows(h.descriptor, h.manifest)
        /\ h.descriptor.end = h.descriptor.start + h.tensor_count
        /\ follows(h.strings, h.descriptor) /\ follows(h.metadata, h.strings)
        /\ follows(h.payload, h.metadata) /\ h.payload.end = Bytes(f)
        /\ \A r \in {h.manifest, h.descriptor, h.strings, h.metadata, h.payload} : r.start <= r.end

control_hashes(f) ==
    /\ Cells(f, f.header.manifest) = f.header.manifest_hash
    /\ Cells(f, f.header.descriptor) = f.header.descriptor_hash
    /\ Cells(f, f.header.strings) = f.header.string_hash
    /\ Cells(f, f.header.metadata) = f.header.metadata_hash

Decoded(f) == LET c == Cells(f, f.header.descriptor) IN [i \in DOMAIN c |-> c[i][2]]
decodable(f) ==
    LET c == Cells(f, f.header.descriptor)
    IN  \A i \in DOMAIN c : Len(c[i]) = 2 /\ c[i][2].tensor_id = i - 1

Primary(d) == Region(d.payload_offset, d.payload_bytes)
Aux(d) == Region(d.aux_offset, d.aux_bytes)
Codec(d) == Region(d.codec_metadata_offset, d.codec_metadata_bytes)

codec_matches(f, d) ==
    LET m == Cells(f, Codec(d))
        decodes(kind) == Len(m) = 1 /\ Len(m[1]) = 3 /\ m[1][2].kind = kind
        meta == m[1][2]
    IN  CASE d.codec_id \in PlainCodecs ->
               /\ "AUX_REQUIRED" \notin d.flags /\ d.aux_bytes = 0 /\ d.codec_metadata_bytes = 0
               /\ validate_plain_geometry(d)
          [] d.codec_id \in Nvfp4Codecs ->
               /\ decodes("NVFP4") /\ Nvfp4Metadata_validate(meta)
               /\ "AUX_REQUIRED" \in d.flags /\ meta.codec = d.codec_id
               /\ d.logical_shape = <<meta.logical_n, meta.logical_k>>
               /\ d.padded_shape = <<meta.padded_n, meta.padded_k>>
               /\ d.payload_bytes = meta.value_plane /\ d.aux_bytes = meta.scale_plane
          [] d.codec_id = "EXL3" ->
               /\ decodes("EXL3") /\ "AUX_REQUIRED" \in d.flags
               /\ meta.rank = f.header.rank /\ meta.layer = d.layer_id
               /\ d.logical_shape = <<meta.logical_n, meta.logical_k>>
               /\ d.padded_shape = d.logical_shape
               /\ d.payload_bytes = meta.trellis_words /\ d.aux_bytes = meta.rotation_words + 2

planes_match(f, d, primary, aux) ==
    LET meta == Cells(f, Codec(d))[1][2]
    IN  CASE d.codec_id \in PlainCodecs -> TRUE
          [] d.codec_id \in Nvfp4Codecs -> validate_nvfp4_planes(meta, primary, aux)
          [] d.codec_id = "EXL3" -> from_container_planes(meta, primary, aux)

Cursor(ds, i, region, end(_)) == IF i = 1 THEN region.start ELSE end(ds[i - 1])
EndOfCodec(d) == Codec(d).end
EndOfAux(d) == Aux(d).end

validate_canonical_tensor_layout(f, ds) ==
    /\ \A i \in DOMAIN ds :
         /\ ds[i].codec_metadata_offset = Cursor(ds, i, f.header.metadata, EndOfCodec)
         /\ ds[i].payload_offset = align_up(Cursor(ds, i, f.header.payload, EndOfAux), PAYLOAD_ALIGNMENT)
         /\ ds[i].aux_offset = align_up(Primary(ds[i]).end, PAYLOAD_ALIGNMENT)
    /\ EndOfCodec(ds[Len(ds)]) = f.header.metadata.end
    /\ EndOfAux(ds[Len(ds)]) = f.header.payload.end

inside_regions(f, d) ==
    /\ Inside(Codec(d), f.header.metadata, f)
    /\ Inside(Primary(d), f.header.payload, f) /\ Inside(Aux(d), f.header.payload, f)
    /\ Cells(f, Codec(d)) = d.codec_metadata_sha256

GapsAreZero(f, ds) ==
    \A i \in DOMAIN ds :
      /\ IsZero(Cells(f, [start |-> Cursor(ds, i, f.header.payload, EndOfAux),
                          end |-> ds[i].payload_offset]))
      /\ IsZero(Cells(f, [start |-> Primary(ds[i]).end, end |-> ds[i].aux_offset]))

sealed_header(f, ds) ==
    /\ f.header.flags = derive_header_flags(ds)
    /\ f.header.file_uuid = FileUuid(f.header)

\* RankFile::read, the whole file at once.
read(f) ==
    /\ f.header.crc = Crc(f.header)
    /\ ordered_regions(f) /\ control_hashes(f)
    /\ Cells(f, f.header.payload) = f.header.payload_hash
    /\ decodable(f)
    /\ LET ds == Decoded(f)
       IN  /\ \A i \in DOMAIN ds :
                /\ f.header.strings.start + ds[i].name_offset + ds[i].name_bytes <= f.header.strings.end
                /\ inside_regions(f, ds[i])
                /\ Cells(f, Primary(ds[i])) = ds[i].payload_sha256
                /\ Cells(f, Aux(ds[i])) = ds[i].aux_sha256
                /\ codec_matches(f, ds[i])
                /\ ds[i].codec_id \in PlainCodecs =>
                     validate_plain_padding_chunk(ds[i], Cells(f, Primary(ds[i])), 0)
                /\ planes_match(f, ds[i], Cells(f, Primary(ds[i])), Cells(f, Aux(ds[i])))
           /\ validate_canonical_tensor_layout(f, ds)
           /\ GapsAreZero(f, ds)
           /\ sealed_header(f, ds)

\* NativeRankReader::open, the control regions only.
NameCursor(ds, i) == IF i = 1 THEN 0 ELSE ds[i - 1].name_offset + ds[i - 1].name_bytes

native_open(f) ==
    /\ f.header.crc = Crc(f.header)
    /\ ordered_regions(f)
    /\ LET h == f.header
           gap(r, next) == Cells(f, [start |-> r.end, end |-> next.start])
       IN  /\ IsZero(gap(h.manifest, h.descriptor)) /\ IsZero(gap(h.descriptor, h.strings))
           /\ IsZero(gap(h.strings, h.metadata)) /\ IsZero(gap(h.metadata, h.payload))
    /\ control_hashes(f)
    /\ decodable(f)
    /\ LET ds == Decoded(f)
       IN  /\ \A i \in DOMAIN ds :
                /\ ds[i].name_bytes > 0 /\ ds[i].name_offset = NameCursor(ds, i)
                /\ inside_regions(f, ds[i]) /\ codec_matches(f, ds[i])
           /\ NameCursor(ds, Len(ds) + 1) = f.header.strings.end - f.header.strings.start
           /\ validate_canonical_tensor_layout(f, ds)
           /\ sealed_header(f, ds)

\* NativeRankReader::validate_rank_set, with the check the conversion's
\* identity makes of every file in rank order.
Identity(f) == <<f.header.manifest_hash, f.header.descriptor_hash, f.header.payload_hash>>
derive_conversion_uuid(files) == [i \in DOMAIN files |-> Identity(files[i])]
descriptor_semantics(d) ==
    [f \in DOMAIN d \ {"payload_offset", "aux_offset", "codec_metadata_offset", "name_offset",
                       "payload_sha256", "aux_sha256", "codec_metadata_sha256"} |-> d[f]]
codec_semantics(f, d) ==
    LET m == Cells(f, Codec(d)) IN [i \in DOMAIN m |-> [m[i][2] EXCEPT !.rank = 0]]

validate_rank_set(files) ==
    /\ \A i \in DOMAIN files :
         /\ files[i].header.rank = i - 1
         /\ files[i].header.conversion_uuid = files[1].header.conversion_uuid
         /\ files[i].header.flags = files[1].header.flags
         /\ files[i].header.tensor_count = files[1].header.tensor_count
         /\ \A t \in DOMAIN Decoded(files[i]) :
              /\ descriptor_semantics(Decoded(files[i])[t]) = descriptor_semantics(Decoded(files[1])[t])
              /\ codec_semantics(files[i], Decoded(files[i])[t])
                   = codec_semantics(files[1], Decoded(files[1])[t])
    /\ files[1].header.conversion_uuid = derive_conversion_uuid(files)

(***************************************************************************)
(* Files that are not what a conversion wrote: one cell or one field is    *)
(* different, or the file has another length.  A resealed file has every   *)
(* digest computed again over what it then holds, as a writer with another *)
(* idea of the layout would leave it.                                      *)
(***************************************************************************)

ChangedDescriptors(d) ==
    {[d EXCEPT ![f] = @ + 1] :
       f \in {"tensor_id", "name_offset", "name_bytes", "layer_id", "payload_offset", "payload_bytes",
              "aux_offset", "aux_bytes", "codec_metadata_offset", "codec_metadata_bytes"}}
      \cup {[d EXCEPT !.codec_id = c] : c \in (PlainCodecs \cup Nvfp4Codecs \cup {"EXL3"}) \ {d.codec_id}}
      \cup {[d EXCEPT !.flags = SymDiff(@, {"AUX_REQUIRED"})],
            [d EXCEPT !.logical_shape[1] = @ + 1], [d EXCEPT !.padded_shape[1] = @ + 1]}

ChangedCells(c) ==
    CASE Len(c) = 1 -> {<<c[1] + 1>>}
      [] Len(c) = 2 -> {<<"d", d>> : d \in ChangedDescriptors(c[2])}
      [] Len(c) = 3 -> {<<"m", [c[2] EXCEPT !.logical_n = @ + 1], 0>>}

ChangedHeaders(h) ==
    {[h EXCEPT !.rank = @ + 1], [h EXCEPT !.tensor_count = @ + 1],
     [h EXCEPT !.flags = SymDiff(@, {"HYBRID"})]}
      \cup {[h EXCEPT ![r].end = @ + 1] : r \in {"manifest", "descriptor", "strings", "metadata", "payload"}}
      \cup {[h EXCEPT ![r].start = @ - ALIGNMENT] : r \in {"strings", "metadata", "payload"}}

Damaged(f) ==
    {[f EXCEPT !.body = Append(@, ZERO)], [f EXCEPT !.body = Front(@)]}
      \cup {[f EXCEPT !.header = h] : h \in ChangedHeaders(f.header)}
      \cup UNION {{[f EXCEPT !.body[i] = c] : c \in ChangedCells(f.body[i])} : i \in DOMAIN f.body}

Clipped(f, r) ==
    [i \in 1 .. (IF r.end > Bytes(f) THEN Bytes(f) ELSE r.end) - r.start |->
       f.body[r.start - ALIGNMENT + i]]

resealed(f) ==
    LET cells == [i \in DOMAIN f.body |->
                    IF Len(f.body[i]) = 2
                    THEN <<"d", [f.body[i][2] EXCEPT
                                   !.payload_sha256 = Clipped(f, Primary(f.body[i][2])),
                                   !.aux_sha256 = Clipped(f, Aux(f.body[i][2])),
                                   !.codec_metadata_sha256 = Clipped(f, Codec(f.body[i][2]))]>>
                    ELSE f.body[i]]
        g == [f EXCEPT !.body = cells]
        hashed == [f.header EXCEPT !.manifest_hash = Clipped(g, f.header.manifest),
                                   !.descriptor_hash = Clipped(g, f.header.descriptor),
                                   !.string_hash = Clipped(g, f.header.strings),
                                   !.metadata_hash = Clipped(g, f.header.metadata),
                                   !.payload_hash = Clipped(g, f.header.payload)]
        sealed == [hashed EXCEPT !.file_uuid = FileUuid(hashed)]
    IN  [header |-> [sealed EXCEPT !.crc = Crc(sealed)], body |-> cells]

Variants(f) == {f} \cup Damaged(f) \cup {resealed(g) : g \in Damaged(f)}

\* The tensors a file's descriptors speak of.
TensorsOf(f) ==
    LET ds == Decoded(f)
        name(d) == Region(f.header.strings.start + d.name_offset, d.name_bytes)
    IN  [i \in DOMAIN ds |->
           [name |-> Cells(f, name(ds[i])), layer_id |-> ds[i].layer_id, codec_id |-> ds[i].codec_id,
            flags |-> ds[i].flags \ {"AUX_REQUIRED"}, logical_shape |-> ds[i].logical_shape,
            padded_shape |-> ds[i].padded_shape, metadata |-> Cells(f, Codec(ds[i])),
            primary |-> Cells(f, Primary(ds[i])), aux |-> Cells(f, Aux(ds[i]))]]

(***************************************************************************)
(* The native reader: open, then the planes of every tensor in order, with *)
(* the file's fingerprint compared after opening and at the end.           *)
(***************************************************************************)

NoSession == [header |-> <<>>, descriptors |-> <<>>, next |-> 1, plane |-> "primary", planes |-> <<>>,
              whole |-> <<>>]

\* The planes of a tensor given as a matrix, by NVFP4's packer.
Packed(t) ==
    IF t.codec_id \notin Nvfp4Codecs THEN t
    ELSE LET p == pack(t.codec_id, t.primary)
         IN  [t EXCEPT !.logical_shape = <<p.metadata.logical_n, p.metadata.logical_k>>,
                       !.padded_shape = <<p.metadata.padded_n, p.metadata.padded_k>>,
                       !.metadata = <<<<"m", p.metadata, 0>>>>,
                       !.primary = p.values, !.aux = p.scales]
Encoded == {[i \in DOMAIN c |-> Packed(c[i])] : c \in Contents}

RankFileInit ==
    /\ tensors \in Encoded
    /\ image \in Variants(build(tensors, 0, MANIFEST))
    /\ inode = 0 /\ opened = -1 /\ stamp = 0 /\ seen = 0 /\ rewrites = 0
    /\ stage = "start"
    /\ session = NoSession

Refuse(ok, next) == stage' = IF ok THEN next ELSE "refused"

open ==
    /\ stage = "start"
    /\ opened' = inode /\ seen' = stamp
    /\ session' = [session EXCEPT !.header = image.header]
    /\ stage' = "opened"
    /\ UNCHANGED <<tensors, image, inode, stamp, rewrites>>

ensure_unchanged == opened = inode /\ seen = stamp
Held == [header |-> session.header, body |-> image.body]

ReadControl ==
    /\ stage = "opened"
    /\ Refuse(native_open(Held) /\ ensure_unchanged, "streaming")
    /\ session' = IF native_open(Held) THEN [session EXCEPT !.descriptors = Decoded(Held)] ELSE session
    /\ UNCHANGED <<tensors, image, inode, opened, stamp, seen, rewrites>>

\* stream_plane: the plane in chunks of the buffer, each checked as it comes.
Chunk(cells, o) == SubSeq(cells, o + 1, IF o + STREAM_BUFFER > Len(cells) THEN Len(cells) ELSE o + STREAM_BUFFER)
ChunkOffsets(cells) == {o \in 0 .. Len(cells) - 1 : o % STREAM_BUFFER = 0}

stream_primary ==
    /\ stage = "streaming" /\ session.plane = "primary" /\ session.next <= session.header.tensor_count
    /\ LET ds == session.descriptors
           d == ds[session.next]
           cells == Cells(Held, Primary(d))
           gap == Cells(Held, [start |-> Cursor(ds, session.next, session.header.payload, EndOfAux),
                               end |-> d.payload_offset])
       IN  /\ Refuse(/\ Primary(d).end <= Bytes(image)
                     /\ IsZero(gap)
                     /\ d.codec_id \in PlainCodecs /\ d.logical_shape # d.padded_shape =>
                          \A o \in ChunkOffsets(cells) : validate_plain_padding_chunk(d, Chunk(cells, o), o)
                     /\ cells = d.payload_sha256,
                     "streaming")
           /\ session' = [session EXCEPT !.plane = "aux", !.planes = Append(@, cells),
                                         !.whole = @ \o gap \o cells]
    /\ UNCHANGED <<tensors, image, inode, opened, stamp, seen, rewrites>>

stream_aux ==
    /\ stage = "streaming" /\ session.plane = "aux"
    /\ LET d == session.descriptors[session.next]
           cells == Cells(Held, Aux(d))
           gap == Cells(Held, [start |-> Primary(d).end, end |-> d.aux_offset])
       IN  /\ Refuse(/\ Aux(d).end <= Bytes(image)
                     /\ IsZero(gap)
                     /\ cells = d.aux_sha256
                     /\ planes_match(Held, d, session.planes[Len(session.planes)], cells),
                     "streaming")
           /\ session' = [session EXCEPT !.plane = "primary", !.next = @ + 1,
                                         !.planes = Append(@, cells), !.whole = @ \o gap \o cells]
    /\ UNCHANGED <<tensors, image, inode, opened, stamp, seen, rewrites>>

\* A mutant of finish_stream: the hash of what was streamed is taken for the
\* identity of the file.
finish_unchecked ==
    /\ stage = "streaming" /\ session.plane = "primary" /\ session.next > session.header.tensor_count
    /\ Refuse(session.whole = session.header.payload_hash, "accepted")
    /\ UNCHANGED <<tensors, image, inode, opened, stamp, seen, rewrites, session>>

finish_stream ==
    /\ stage = "streaming" /\ session.plane = "primary" /\ session.next > session.header.tensor_count
    /\ Refuse(session.whole = session.header.payload_hash /\ ensure_unchanged, "accepted")
    /\ UNCHANGED <<tensors, image, inode, opened, stamp, seen, rewrites, session>>

\* The file is rewritten in place with other contents, or another file is
\* renamed over it; a descriptor keeps its inode.
RewriteInPlace ==
    /\ rewrites < MaxRewrites /\ stage \notin {"accepted", "refused"}
    /\ image = build(tensors, 0, MANIFEST)
    /\ \E i \in {i \in DOMAIN image.body : Len(image.body[i]) = 1} :
         image' = [image EXCEPT !.body[i] = <<@[1] + 1>>]
    /\ stamp' = stamp + 1 /\ rewrites' = rewrites + 1
    /\ UNCHANGED <<tensors, inode, opened, seen, stage, session>>

RenameOver ==
    /\ rewrites < MaxRewrites /\ stage \notin {"accepted", "refused"}
    /\ image' = IF opened = -1 THEN build(tensors, 0, MANIFEST) ELSE image
    /\ stamp' = IF opened = -1 THEN 0 ELSE stamp
    /\ inode' = inode + 1 /\ rewrites' = rewrites + 1
    /\ UNCHANGED <<tensors, opened, seen, stage, session>>

RankFileNext ==
    \/ open \/ ReadControl \/ stream_primary \/ stream_aux \/ finish_stream
    \/ RewriteInPlace \/ RenameOver

RankFileSpec == RankFileInit /\ [][RankFileNext]_rankFileVars

(***************************************************************************)
(* What holds of the container.                                            *)
(***************************************************************************)

\* The files of one conversion, rank by rank.
OnRank(ts, r) ==
    [i \in DOMAIN ts |-> [ts[i] EXCEPT !.metadata = [j \in DOMAIN @ |->
       <<"m", IF @[j][2].kind = "EXL3" THEN [@[j][2] EXCEPT !.rank = r] ELSE @[j][2], 0>>]]]
Converted(ts, ranks) ==
    LET files == [r \in 1 .. ranks |-> build(OnRank(ts, r - 1), r - 1, MANIFEST)]
    IN  [r \in 1 .. ranks |->
           resealed([files[r] EXCEPT !.header.conversion_uuid = derive_conversion_uuid(files)])]

RankSetsAreOneConversion(ts) ==
    LET files == Converted(ts, 2)
    IN  /\ validate_rank_set(files)
        /\ ~validate_rank_set(<<files[2], files[1]>>)
        /\ \A other \in Encoded \ {ts} : ~validate_rank_set(<<files[1], Converted(other, 2)[2]>>)

\* The file of the tensors a file holds.
Rebuilt(f) == build(TensorsOf(f), f.header.rank, Cells(f, f.header.manifest))

\* The streaming writer leaves the file the builder builds.  What the native
\* reader accepts is, cell for cell, the file of the tensors it streamed, it
\* is accepted by RankFile::read too, and no rewriting or renaming during the
\* reading is missed; what it refuses was damaged or changed.  RankFile::read
\* accepts no other payload either.  The files of a conversion are a rank set,
\* and no mixture of two conversions is.
RankFilesAreExact ==
    /\ stage = "start" /\ rewrites = 0 =>
         /\ image = build(tensors, 0, MANIFEST) =>
              streamed(tensors, 0, MANIFEST) = image /\ RankSetsAreOneConversion(tensors)
         /\ read(image) =>
              image.header.payload_hash = Rebuilt(image).header.payload_hash
    /\ stage = "accepted" =>
         /\ image = Rebuilt(image)
         /\ read(image) /\ ensure_unchanged
         /\ session.planes = Concat([i \in DOMAIN TensorsOf(image) |->
                                       <<TensorsOf(image)[i].primary, TensorsOf(image)[i].aux>>])
    /\ stage = "refused" => image # build(tensors, 0, MANIFEST) \/ rewrites > 0
=============================================================================
