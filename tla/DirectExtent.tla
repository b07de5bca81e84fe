----------------------------- MODULE DirectExtent -----------------------------
(***************************************************************************)
(* The direct tier's on-disk extent (glm-cache/src/direct.rs): one page's  *)
(* pieces at fixed 4096-aligned offsets with zero padding between them.    *)
(* Offsets and lengths are the code's.  The bytes of an extent are         *)
(* abstracted to one value per region, 0 for zeros, and a SHA-256 is the   *)
(* value it is computed from.                                              *)
(***************************************************************************)
EXTENDS Naturals, Sequences

DIRECT_IO_ALIGNMENT == 4096
TARGET_KV_EXTENT_LENGTH == 1837056
TARGET_INDEXER_EXTENT_OFFSET == 1839104
TARGET_INDEXER_EXTENT_LENGTH == 177408
DRAFT_SIDECAR_EXTENT_OFFSET == 2019328
DRAFT_SIDECAR_EXTENT_LENGTH == 32000

physical_bytes(capability) == IF capability = "Mtp" THEN 2052096 ELSE 2019328
logical_bytes(capability) ==
    TARGET_KV_EXTENT_LENGTH + TARGET_INDEXER_EXTENT_LENGTH
        + IF capability = "Mtp" THEN DRAFT_SIDECAR_EXTENT_LENGTH ELSE 0

\* The pieces of an extent in file order: name, offset, length.
expected_piece_layout(capability) ==
    <<<<"target_kv", 0, TARGET_KV_EXTENT_LENGTH>>,
      <<"target_indexer", TARGET_INDEXER_EXTENT_OFFSET, TARGET_INDEXER_EXTENT_LENGTH>>>>
        \o IF capability = "Mtp"
           THEN <<<<"draft_sidecar", DRAFT_SIDECAR_EXTENT_OFFSET, DRAFT_SIDECAR_EXTENT_LENGTH>>>>
           ELSE <<>>

Pieces(capability) ==
    {expected_piece_layout(capability)[i][1] : i \in DOMAIN expected_piece_layout(capability)}
\* The padding that follows each piece.
Padding(capability) ==
    {"kv_padding", "indexer_padding"} \union IF capability = "Mtp" THEN {"draft_padding"} ELSE {}
Regions(capability) == Pieces(capability) \union Padding(capability)

\* DirectExtentBuffer::new: every pool buffer has the size of an MTP extent.
Blank == [r \in Regions("Mtp") |-> 0]
\* bytes.get(..physical_length)
Prefix(bytes, capability) == [r \in Regions(capability) |-> bytes[r]]

validate_direct_io_span(address, file_offset, length, expected_length) ==
    /\ address # 0 /\ address % DIRECT_IO_ALIGNMENT = 0
    /\ file_offset % DIRECT_IO_ALIGNMENT = 0
    /\ length # 0 /\ length % DIRECT_IO_ALIGNMENT = 0 /\ length = expected_length

\* DirectExtentRecord::validate
validate(record) ==
    /\ record.page_key # 0 /\ record.durable_revision # 0 /\ record.segment_id # 0
    /\ record.physical_length = physical_bytes(record.capability)
    /\ validate_direct_io_span(DIRECT_IO_ALIGNMENT, record.physical_offset,
                               record.physical_length, physical_bytes(record.capability))
    /\ LET expected == expected_piece_layout(record.capability)
       IN  /\ Len(record.pieces) = Len(expected)
           /\ \A i \in DOMAIN expected :
                LET observed == record.pieces[i]
                IN  /\ <<observed.piece, observed.extent_offset, observed.logical_length>> = expected[i]
                    /\ observed.extent_offset % DIRECT_IO_ALIGNMENT = 0
                    /\ observed.extent_offset + observed.logical_length <= record.physical_length

\* The record and the bytes for a page whose pieces are given by region name.
encode_direct_extent(page_key, durable_revision, segment_id, physical_offset, pieces) ==
    LET capability == IF "draft_sidecar" \in DOMAIN pieces THEN "Mtp" ELSE "Target"
        extent == [r \in Regions(capability) |-> IF r \in DOMAIN pieces THEN pieces[r] ELSE 0]
        layout == expected_piece_layout(capability)
    IN  [record |-> [page_key |-> page_key, durable_revision |-> durable_revision,
                     capability |-> capability, segment_id |-> segment_id,
                     physical_offset |-> physical_offset,
                     physical_length |-> physical_bytes(capability),
                     physical_sha256 |-> extent,
                     pieces |-> [i \in DOMAIN layout |->
                                   [piece |-> layout[i][1], extent_offset |-> layout[i][2],
                                    logical_length |-> layout[i][3],
                                    sha256 |-> pieces[layout[i][1]]]]],
         extent |-> extent]

validate_zero_padding(extent, capability) ==
    /\ DOMAIN extent = Regions(capability)
    /\ \A r \in Padding(capability) : extent[r] = 0

\* Whether the decoder accepts the bytes as the record's extent.
decode_direct_extent(record, extent) ==
    /\ validate(record)
    /\ extent = record.physical_sha256
    /\ validate_zero_padding(extent, record.capability)
    /\ \A i \in DOMAIN record.pieces : extent[record.pieces[i].piece] = record.pieces[i].sha256
=============================================================================
