------------------------------ MODULE LoadPlan ------------------------------
(***************************************************************************)
(* The rank-set load plan of glm-engine/src/checkpoint_load.rs: from four  *)
(* authenticated rank files and the pinned tensor contract, where each     *)
(* plane of each tensor goes in its rank's arenas.  A digest is the value  *)
(* it is computed from, so the refusals of zero digests and uuids have no  *)
(* counterpart; NONE is an error.                                          *)
(***************************************************************************)
EXTENDS Integers, Sequences, FiniteSets, SequencesExt

CONSTANTS
    RANK_SET_SIZE,        \* ranks are 0..RANK_SET_SIZE-1
    MaxU64,               \* the largest u64
    READER_CHUNK_BYTES,
    NONE

LoadRanks == 0..RANK_SET_SIZE - 1

\* checked_add
Checked(a, b) == IF a + b > MaxU64 THEN NONE ELSE a + b

is_power_of_two(n) == \E k \in 0..n : n = 2^k

align_up(value, alignment) ==
    IF value + (alignment - 1) > MaxU64 THEN NONE
    ELSE ((value + alignment - 1) \div alignment) * alignment

Place(cursor, bytes, alignment) ==
    IF cursor = NONE THEN [offset |-> NONE, cursor |-> NONE]
    ELSE IF bytes = 0 THEN [offset |-> 0, cursor |-> cursor]
    ELSE LET offset == align_up(cursor, alignment)
         IN  [offset |-> offset,
              cursor |-> IF offset = NONE THEN NONE ELSE Checked(offset, bytes)]

WellFormed(t, index) ==
    /\ t.tensor_id = index - 1
    /\ t.role_id # 0 /\ t.codec_id # 0
    /\ t.primary_bytes # 0
    /\ t.alignment # 0 /\ is_power_of_two(t.alignment)

\* derive_tensor_arena_entries_from_contract
derive_tensor_arena_entries_from_contract(contract) ==
    LET Entry(acc, t) ==
            LET metadata == Place(acc.metadata, t.metadata_bytes, t.alignment)
                primary == Place(acc.weight, t.primary_bytes, t.alignment)
                auxiliary == Place(primary.cursor, t.auxiliary_bytes, t.alignment)
            IN  [tensors |-> Append(acc.tensors,
                    [t |-> t, metadata |-> metadata.offset, primary |-> primary.offset,
                     auxiliary |-> auxiliary.offset]),
                 weight |-> auxiliary.cursor, metadata |-> metadata.cursor]
        layout == FoldLeft(Entry, [tensors |-> <<>>, weight |-> 0, metadata |-> 0], contract)
    IN  IF \/ contract = <<>>
           \/ \E i \in DOMAIN contract : ~WellFormed(contract[i], i)
           \/ layout.weight = NONE \/ layout.metadata = NONE
        THEN NONE ELSE layout

\* derive_tensor_arena_entries: the file's descriptors are the contract's.
derive_tensor_arena_entries(descriptors, contract) ==
    IF descriptors # contract THEN NONE
    ELSE derive_tensor_arena_entries_from_contract(contract)
-----------------------------------------------------------------------------
(* RankSetLoadPlan::new, which trusts no layout it is given.               *)

Intervals(tensors) ==
    [weight |-> FoldLeft(LAMBDA acc, e : acc \o
                  (IF e.t.primary_bytes = 0 THEN <<>>
                   ELSE <<<<e.primary, e.primary + e.t.primary_bytes>>>>) \o
                  (IF e.t.auxiliary_bytes = 0 THEN <<>>
                   ELSE <<<<e.auxiliary, e.auxiliary + e.t.auxiliary_bytes>>>>), <<>>, tensors),
     metadata |-> FoldLeft(LAMBDA acc, e : acc \o
                  (IF e.t.metadata_bytes = 0 THEN <<>>
                   ELSE <<<<e.metadata, e.metadata + e.t.metadata_bytes>>>>), <<>>, tensors)]

add_interval(offset, bytes, capacity, alignment) ==
    IF bytes = 0 THEN offset <= capacity
    ELSE offset % alignment = 0 /\ offset + bytes <= capacity

require_exact_nonoverlap(intervals, arena_bytes) ==
    LET sorted == SortSeq(intervals, LAMBDA a, b : a[1] < b[1] \/ (a[1] = b[1] /\ a[2] < b[2]))
    IN  IF intervals = <<>> THEN arena_bytes = 0
        ELSE /\ \A i \in 2..Len(sorted) : sorted[i][1] >= sorted[i - 1][2]
             /\ sorted[Len(sorted)][2] = arena_bytes

arena_layout_sha256(rank, layout) == <<rank, layout>>

validate_tensor_layout(rank, entry, layout) ==
    /\ Len(layout.tensors) = entry.tensor_count
    /\ \A i \in DOMAIN layout.tensors :
         LET e == layout.tensors[i]
         IN  /\ WellFormed(e.t, i)
             /\ add_interval(e.primary, e.t.primary_bytes, layout.weight, e.t.alignment)
             /\ add_interval(e.auxiliary, e.t.auxiliary_bytes, layout.weight, e.t.alignment)
             /\ add_interval(e.metadata, e.t.metadata_bytes, layout.metadata, e.t.alignment)
    /\ require_exact_nonoverlap(Intervals(layout.tensors).weight, layout.weight)
    /\ require_exact_nonoverlap(Intervals(layout.tensors).metadata, layout.metadata)
    /\ entry.arena_layout = arena_layout_sha256(rank, layout)

validate_header(header) ==
    /\ header.tensor_count # 0
    /\ header.staging_slot_bytes >= READER_CHUNK_BYTES
    /\ header.staging_slots_per_rank >= 2
    /\ header.verification_mode = "FullSha256"

validate_ranks(header, ranks, layouts) ==
    /\ \A r \in LoadRanks :
         /\ ranks[r].tensor_count = header.tensor_count
         /\ ranks[r].payload_bytes # 0
         /\ layouts[r].weight # 0
         /\ \A prior \in 0..r - 1 :
              /\ ranks[prior].device # ranks[r].device
              /\ ranks[prior].file_uuid # ranks[r].file_uuid
         /\ validate_tensor_layout(r, ranks[r], layouts[r])
    /\ \A i \in 1..header.tensor_count : \A r \in LoadRanks :
         LET a == layouts[0].tensors[i].t
             b == layouts[r].tensors[i].t
         IN  /\ a.tensor_id = b.tensor_id /\ a.role_id = b.role_id /\ a.codec_id = b.codec_id
             /\ a.descriptor_flags = b.descriptor_flags /\ a.alignment = b.alignment

RankSetLoadPlan(header, ranks, layouts) ==
    IF validate_header(header) /\ validate_ranks(header, ranks, layouts)
    THEN [header |-> header, ranks |-> ranks, layouts |-> layouts]
    ELSE NONE

\* build_rank_set_load_plan_from_sources
build_rank_set_load_plan_from_sources(sources, environment, contract) ==
    LET first == sources[0]
        layouts == [r \in LoadRanks |->
                      derive_tensor_arena_entries(sources[r].descriptors, contract)]
        header == [tensor_count |-> Len(contract),
                   verification_mode |-> environment.verification_mode,
                   staging_slot_bytes |-> environment.staging_slot_bytes,
                   staging_slots_per_rank |-> environment.staging_slots_per_rank]
        ranks == [r \in LoadRanks |->
                    [device |-> environment.devices[r], file_uuid |-> sources[r].file_uuid,
                     payload_bytes |-> sources[r].payload_bytes,
                     tensor_count |-> Len(contract),
                     arena_layout |-> arena_layout_sha256(r, layouts[r])]]
    IN  IF \/ environment.profile # first.profile
           \/ contract = <<>>
           \/ \E r \in LoadRanks :
                \/ sources[r].rank # r
                \/ sources[r].identity # first.identity
                \/ sources[r].profile # first.profile
                \/ layouts[r] = NONE
        THEN NONE
        ELSE RankSetLoadPlan(header, ranks, layouts)

-----------------------------------------------------------------------------
(* What the executor asks of an adopted arena (checkpoint_cuda.rs).        *)

validate_relative_span(offset, bytes, capacity, alignment, required) ==
    IF bytes = 0 THEN ~required /\ offset <= capacity
    ELSE offset % alignment = 0 /\ offset + bytes <= capacity

validate_resident_layout(layout) ==
    /\ layout.tensors # <<>> /\ layout.weight # 0 /\ layout.metadata # 0
    /\ \A i \in DOMAIN layout.tensors :
         LET e == layout.tensors[i]
             Span(offset, bytes, capacity, required) ==
                validate_relative_span(offset, bytes, capacity, e.t.alignment, required)
         IN  /\ WellFormed(e.t, i)
             /\ Span(e.primary, e.t.primary_bytes, layout.weight, TRUE)
             /\ Span(e.auxiliary, e.t.auxiliary_bytes, layout.weight, FALSE)
             /\ Span(e.metadata, e.t.metadata_bytes, layout.metadata, FALSE)

\* CudaWeightArena::tensor_binding: the device addresses of each plane, by
\* the base of its arena, or NONE for an error; an empty plane has none.
tensor_binding(layout, base, id) ==
    LET e == layout.tensors[id + 1]
        Resolve(arena, offset, bytes) ==
            IF bytes = 0 THEN {} ELSE (base[arena] + offset)..(base[arena] + offset + bytes - 1)
    IN  IF \/ id + 1 \notin DOMAIN layout.tensors
           \/ e.t.tensor_id # id
           \/ \E x \in {base["weight"] + e.primary} \union
                  (IF e.t.auxiliary_bytes = 0 THEN {} ELSE {base["weight"] + e.auxiliary}) \union
                  (IF e.t.metadata_bytes = 0 THEN {} ELSE {base["metadata"] + e.metadata}) :
                x % e.t.alignment # 0
        THEN NONE
        ELSE [primary |-> Resolve("weight", e.primary, e.t.primary_bytes),
              auxiliary |-> Resolve("weight", e.auxiliary, e.t.auxiliary_bytes),
              metadata |-> Resolve("metadata", e.metadata, e.t.metadata_bytes)]
-----------------------------------------------------------------------------
\* RankSetLoadPlan::expected_upload_summary
expected_upload_summary(plan, rank) ==
    LET SumOf(Bytes(_)) ==
            FoldLeft(LAMBDA acc, e : acc + Bytes(e.t), 0, plan.layouts[rank].tensors)
    IN  [metadata |-> SumOf(LAMBDA t : t.metadata_bytes),
         primary |-> SumOf(LAMBDA t : t.primary_bytes),
         auxiliary |-> SumOf(LAMBDA t : t.auxiliary_bytes)]
=============================================================================
