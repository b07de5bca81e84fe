-------------------------- MODULE SourceCheckpoint --------------------------
(***************************************************************************)
(* The pinned source checkpoint of a conversion (glm-format/src/           *)
(* checkpoint.rs and safetensors.rs): the contract of its tensors, the     *)
(* rank plan derived from it, the opening and the verification of its      *)
(* shards, and the readers that cut a rank's slice out of a tensor.        *)
(*                                                                         *)
(* The converter runs against a disk on which a file may be rewritten in   *)
(* place (a new stamp for its inode) or replaced by a rename (a new        *)
(* inode); an open descriptor keeps reading the inode it was opened on.    *)
(* Data is counted in cells of two bytes, a digest is the content hashed,  *)
(* and a tensor's cells are its name with their row-major position.        *)
(***************************************************************************)
EXTENDS Integers, Sequences, FiniteSets, FiniteSetsExt, SequencesExt, TLC

CONSTANTS
    TP_DEGREE,
    FIRST_EXPERT_LAYER,     \* the first layer with routed experts (3)
    LAST_LAYER,             \* the MTP layer (78)
    EXPERTS,                \* routed experts of a layer (256)
    FULL_INDEXER_LAYERS,
    Extent,                 \* the extents of the model's tensors, by name
    TILE, TILE_WORDS,       \* an EXL3 tile: 16 by 16 weights in 48 words
    OPEN_WORKERS,           \* threads that open shards
    Defects,                \* what may be wrong with the files from the start
    MaxChanges              \* how often a file changes under the converter

VARIABLES
    defect,                 \* "none" or what is wrong with the files
    disk,                   \* path -> current inode and the stamp of every inode
    changes,
    phase,                  \* where the conversion is
    handles,                \* path -> the fingerprint of the retained descriptor, <<>> if none
    verified,               \* how many files were hashed
    reader                  \* the tensor being copied, <<>> if none

sourceVars == <<defect, disk, changes, phase, handles, verified, reader>>

\* The order of names, which is the same for every holder of a set of them.
InOrder(S) == FoldSet(LAMBDA x, s : Append(s, x), <<>>, S)
Product(s) == FoldLeft(LAMBDA a, b : a * b, 1, s)
element_cells(dtype) == IF dtype \in {"F32", "I32"} THEN 2 ELSE 1
storage_cells(t) == Product(t.shape) * element_cells(t.dtype)

(***************************************************************************)
(* The contract of the pinned checkpoint.                                  *)
(***************************************************************************)

Row(suffix, role, shape, axis) ==
    [suffix |-> suffix, role_id |-> role, dtype |-> "BF16", source_shape |-> shape,
     tp_axis |-> axis]

GlobalRows ==
    {Row("embed_tokens", "EMBEDDING", <<Extent.vocab, Extent.hidden>>, 0),
     Row("lm_head", "LM_HEAD", <<Extent.vocab, Extent.hidden>>, 0),
     Row("norm", "FINAL_NORM", <<Extent.hidden>>, -1)}

LayerRows ==
    {Row("input_layernorm", "INPUT_NORM", <<Extent.hidden>>, -1),
     Row("post_attention_layernorm", "POST_ATTENTION_NORM", <<Extent.hidden>>, -1),
     Row("q_a_proj", "Q_A_PROJ", <<Extent.q_lora, Extent.hidden>>, -1),
     Row("q_a_layernorm", "Q_A_NORM", <<Extent.q_lora>>, -1),
     Row("q_b_proj", "Q_B_PROJ", <<Extent.q, Extent.q_lora>>, 0),
     Row("kv_a_proj_with_mqa", "KV_A_PROJ", <<Extent.kv_a, Extent.hidden>>, -1),
     Row("kv_a_layernorm", "KV_A_NORM", <<Extent.kv_lora>>, -1),
     Row("kv_b_proj", "KV_B_PROJ", <<Extent.kv_b, Extent.kv_lora>>, 0),
     Row("o_proj", "O_PROJ", <<Extent.hidden, Extent.q>>, 1)}

IndexerRows ==
    {Row("indexer.wq_b", "INDEXER_WQ_B", <<Extent.indexer_q, Extent.q_lora>>, -1),
     Row("indexer.wk", "INDEXER_WK", <<Extent.indexer_k, Extent.hidden>>, -1),
     Row("indexer.weights_proj", "INDEXER_WEIGHTS", <<Extent.indexer_heads, Extent.hidden>>, -1),
     Row("indexer.k_norm.weight", "INDEXER_K_NORM_WEIGHT", <<Extent.indexer_k>>, -1),
     Row("indexer.k_norm.bias", "INDEXER_K_NORM_BIAS", <<Extent.indexer_k>>, -1)}

DenseRows ==
    {Row("gate_proj", "DENSE_GATE", <<Extent.dense, Extent.hidden>>, 0),
     Row("up_proj", "DENSE_UP", <<Extent.dense, Extent.hidden>>, 0),
     Row("down_proj", "DENSE_DOWN", <<Extent.hidden, Extent.dense>>, 1)}

SparseRows ==
    {Row("gate", "ROUTER_WEIGHT", <<Extent.experts, Extent.hidden>>, -1),
     [Row("e_score_correction_bias", "ROUTER_CORRECTION", <<Extent.experts>>, -1)
        EXCEPT !.dtype = "F32"],
     Row("shared.gate_proj", "SHARED_GATE", <<Extent.shared, Extent.hidden>>, 0),
     Row("shared.up_proj", "SHARED_UP", <<Extent.shared, Extent.hidden>>, 0),
     Row("shared.down_proj", "SHARED_DOWN", <<Extent.hidden, Extent.shared>>, 1)}

MtpRows ==
    {Row("enorm", "MTP_ENORM", <<Extent.hidden>>, -1),
     Row("hnorm", "MTP_HNORM", <<Extent.hidden>>, -1),
     Row("eh_proj", "MTP_EH_PROJ", <<Extent.hidden, 2 * Extent.hidden>>, -1),
     Row("shared_head.norm", "MTP_SHARED_HEAD_NORM", <<Extent.hidden>>, -1)}

add_protected(layer, row) ==
    [name |-> <<layer, row.suffix>>, role_id |-> row.role_id, layer_id |-> layer,
     dtype |-> row.dtype, source_shape |-> row.source_shape, tp_axis |-> row.tp_axis,
     rank_shape |-> IF row.tp_axis < 0 THEN row.source_shape
                    ELSE [row.source_shape EXCEPT ![row.tp_axis + 1] = @ \div TP_DEGREE],
     is_mtp |-> layer = LAST_LAYER]

protected_tensor_contracts ==
    LET layer(l) == LayerRows
                      \cup (IF l \in FULL_INDEXER_LAYERS THEN IndexerRows ELSE {})
                      \cup (IF l < FIRST_EXPERT_LAYER THEN DenseRows ELSE SparseRows)
                      \cup (IF l = LAST_LAYER THEN MtpRows ELSE {})
        all == {add_protected(-1, r) : r \in GlobalRows}
                 \cup UNION {{add_protected(l, r) : r \in layer(l)} : l \in 0 .. LAST_LAYER}
    IN  [n \in {c.name : c \in all} |-> CHOOSE c \in all : c.name = n]

Projections == <<"gate", "up", "down">>
Components == <<"mcg", "suh", "svh", "trellis">>
ExpertLayers == FIRST_EXPERT_LAYER .. LAST_LAYER
Ranks0 == 0 .. TP_DEGREE - 1

\* The names parse_exl3_component accepts.
Exl3Names ==
    ExpertLayers \X (0 .. EXPERTS - 1) \X Range(Projections) \X Ranks0 \X Range(Components)

LogicalShape(projection) ==
    IF projection = "down" THEN [k |-> Extent.routed, n |-> Extent.hidden]
    ELSE [k |-> Extent.hidden, n |-> Extent.routed]

Exl3Descriptor(name) ==
    LET s == LogicalShape(name[3])
    IN  CASE name[5] = "mcg" -> [dtype |-> "I32", shape |-> <<>>]
          [] name[5] = "suh" -> [dtype |-> "F16", shape |-> <<s.k>>]
          [] name[5] = "svh" -> [dtype |-> "F16", shape |-> <<s.n>>]
          [] name[5] = "trellis" ->
               [dtype |-> "I16", shape |-> <<s.k \div TILE, s.n \div TILE, TILE_WORDS>>]

Position(s, x) == (CHOOSE i \in DOMAIN s : s[i] = x) - 1

exl3_component_index(name) ==
    (((((name[1] - FIRST_EXPERT_LAYER) * EXPERTS + name[2]) * 3 + Position(Projections, name[3]))
        * TP_DEGREE + name[4]) * 4) + Position(Components, name[5])

PINNED_EXL3_COMPONENT_COUNT == Cardinality(ExpertLayers) * EXPERTS * 3 * TP_DEGREE * 4

\* The tensors the pinned checkpoint holds.
PinnedTensors ==
    LET protected == protected_tensor_contracts
    IN  [n \in DOMAIN protected |->
           [dtype |-> protected[n].dtype, shape |-> protected[n].source_shape]]
          @@ [n \in Exl3Names |-> Exl3Descriptor(n)]

(***************************************************************************)
(* The plan of a rank: its tensors in the order of their names.  An EXL3   *)
(* weight is named without its rank and read from the rank's components.   *)
(***************************************************************************)

ParallelFlag(axis) ==
    CASE axis = -1 -> "REPLICATED" [] axis = 0 -> "COLUMN_PARALLEL" [] axis = 1 -> "ROW_PARALLEL"

Exl3Metadata(projection, layer, expert, rank) ==
    LET s == LogicalShape(projection)
    IN  [projection |-> projection, layer |-> layer, expert |-> expert, rank |-> rank,
         logical_k |-> s.k, logical_n |-> s.n, rotation_words |-> s.k + s.n,
         trellis_words |-> (s.k \div TILE) * (s.n \div TILE) * TILE_WORDS]

ProtectedSpec(c) ==
    [name |-> c.name, role_id |-> c.role_id, layer_id |-> c.layer_id, expert_id |-> -1,
     tp_shard_axis |-> c.tp_axis, codec_id |-> c.dtype, shape |-> c.rank_shape, metadata |-> <<>>,
     flags |-> {"PROTECTED", ParallelFlag(c.tp_axis)}
                 \cup (IF c.role_id \in {"SHARED_GATE", "SHARED_UP", "SHARED_DOWN"}
                       THEN {"SHARED_EXPERT"} ELSE {})
                 \cup (IF c.is_mtp THEN {"MTP"} ELSE {}),
     primary |-> Product(c.rank_shape) * element_cells(c.dtype), aux |-> 0]

Exl3Spec(layer, expert, projection, rank) ==
    LET m == Exl3Metadata(projection, layer, expert, rank)
        axis == IF projection = "down" THEN 1 ELSE 0
    IN  [name |-> <<layer, expert, projection>>, layer_id |-> layer, expert_id |-> expert,
         role_id |-> IF projection = "down" THEN "ROUTED_DOWN" ELSE "ROUTED_GATE_UP",
         tp_shard_axis |-> axis, codec_id |-> "EXL3", shape |-> <<m.logical_n, m.logical_k>>,
         metadata |-> <<m>>,
         flags |-> {"ROUTED_EXPERT", ParallelFlag(axis)}
                     \cup (IF layer = LAST_LAYER THEN {"MTP"} ELSE {}),
         primary |-> m.trellis_words, aux |-> m.rotation_words + 2]

PlanNames == DOMAIN protected_tensor_contracts
               \cup (ExpertLayers \X (0 .. EXPERTS - 1) \X Range(Projections))

pinned_exl3_rank_plan(rank) ==
    [n \in PlanNames |-> IF Len(n) = 2 THEN ProtectedSpec(protected_tensor_contracts[n])
                         ELSE Exl3Spec(n[1], n[2], n[3], rank)]

(***************************************************************************)
(* The files.  A path is a tuple; the manifest lists all but itself.       *)
(***************************************************************************)

Shards == -2 .. LAST_LAYER      \* embed, head and one per layer
shard_of(n) == IF n[1] >= 0 THEN n[1] ELSE IF n[2] = "embed_tokens" THEN -2 ELSE -1

INDEX == <<"index">>
README == <<"readme">>          \* a file the publisher changed after the manifest
CONFIG == <<"config">>
MANIFEST == <<"manifest">>
ShardPath(s) == <<"shard", s>>
ShardPaths == {ShardPath(s) : s \in Shards}
Files == ShardPaths \cup {INDEX, README, CONFIG}
Paths == Files \cup {MANIFEST}

\* The tensor and the file a defect is found in.
VICTIM == <<LAST_LAYER, "o_proj">>
DefectivePath ==
    CASE defect \in {"missing", "total_size"} -> INDEX
      [] defect = "manifest" -> MANIFEST
      [] defect = "readme" -> README
      [] defect \in {"none", "marker"} -> <<>>
      [] OTHER -> ShardPath(LAST_LAYER)

\* The weight map of the index, and the header of a shard, over the tensors
\* the pinned checkpoint holds.
Indexed(pinned, d, s) ==
    {n \in DOMAIN pinned : shard_of(n) = s /\ ~(d = "missing" /\ n = VICTIM)}

HeaderNames(pinned, d, s) ==
    Indexed(pinned, d, s)
      \cup (IF d = "unindexed" /\ s = LAST_LAYER THEN {<<LAST_LAYER, "extra">>} ELSE {})

Described(pinned, d, n) ==
    CASE n \notin DOMAIN pinned -> [dtype |-> "BF16", shape |-> <<1>>]
      [] n = VICTIM /\ d = "shape" -> [pinned[n] EXCEPT !.shape = Reverse(@)]
      [] n = VICTIM /\ d = "dtype" -> [pinned[n] EXCEPT !.dtype = "F16"]
      [] OTHER -> pinned[n]

\* One tensor after the other; a gap, an overlap or an excess at the victim.
AddTensor(d, header, n, t) ==
    LET end == IF header = <<>> THEN 0 ELSE Last(header).end
        slip == CASE n = VICTIM /\ d = "gap" -> 1
                  [] n = VICTIM /\ d = "overlap" -> -1
                  [] OTHER -> 0
        excess == IF n = VICTIM /\ d = "length" THEN 1 ELSE 0
    IN  Append(header, [name |-> n, dtype |-> t.dtype, shape |-> t.shape, begin |-> end + slip,
                        end |-> end + slip + storage_cells(t) + excess])

RawTensors(pinned, d, s) ==
    FoldLeft(LAMBDA header, n : AddTensor(d, header, n, Described(pinned, d, n)), <<>>,
             InOrder(HeaderNames(pinned, d, s)))

\* The files of every defect, built once.
Images == [d \in Defects |-> [s \in Shards |-> RawTensors(PinnedTensors, d, s)]]
HeaderTensors(s) == Images[defect][s]
DataCells(tensors) == Max({t.end : t \in Range(tensors)})

(***************************************************************************)
(* Opening a shard: every range has the size its dtype and shape give, and *)
(* the ranges in the order of their offsets cover the data exactly.        *)
(***************************************************************************)

validate_contiguous_data(tensors, cells) ==
    LET order == SortSeq(tensors, LAMBDA a, b : a.begin < b.begin)
        next == [i \in 0 .. Len(order) |-> IF i = 0 THEN 0 ELSE order[i].end]
    IN  (\A i \in DOMAIN order : order[i].begin = next[i - 1]) /\ next[Len(order)] = cells

HeaderIsSound(tensors, cells) ==
    /\ tensors # <<>>
    /\ \A i \in DOMAIN tensors :
         /\ tensors[i].begin <= tensors[i].end /\ tensors[i].end <= cells
         /\ tensors[i].end - tensors[i].begin = storage_cells(tensors[i])
    /\ validate_contiguous_data(tensors, cells)

(***************************************************************************)
(* Fingerprints: what the path names now, and what a descriptor reads.     *)
(***************************************************************************)

Fingerprint(p) == <<disk[p].inode, disk[p].stamps[disk[p].inode + 1]>>
DescriptorFingerprint(p) ==
    <<handles[p].fingerprint[1], disk[p].stamps[handles[p].fingerprint[1] + 1]>>

open_retained(p) == [status |-> "opened", fingerprint |-> Fingerprint(p)]

validate_retained_regular_file(p) ==
    /\ Fingerprint(p) = handles[p].fingerprint
    /\ DescriptorFingerprint(p) = handles[p].fingerprint

\* What a file's inode holds: what the pinned revision has there, what the
\* manifest says of it, or something else.
Content(p, fingerprint) ==
    IF fingerprint # <<0, 0>> THEN "other"
    ELSE IF defect = "readme" /\ p = README THEN "manifest"
    ELSE IF p = DefectivePath THEN "other" ELSE "revision"

ManifestDigest(p) == IF p = README THEN "manifest" ELSE "revision"
is_pinned_publisher_manifest_exception(p, observed) ==
    p = README /\ ManifestDigest(p) = "manifest" /\ observed = "revision"

(***************************************************************************)
(* The conversion's source side.                                           *)
(***************************************************************************)

Closed == [status |-> "closed", fingerprint |-> <<0, 0>>]
FileOrder == InOrder(Files)

SourceInit ==
    /\ defect \in Defects
    /\ disk = [p \in Paths |-> [inode |-> 0, stamps |-> <<0>>]]
    /\ changes = 0
    /\ phase = "start"
    /\ handles = [p \in Paths |-> Closed]
    /\ verified = 0
    /\ reader = <<>>

Step(from, ok, to) ==
    /\ phase = from
    /\ phase' = IF ok THEN to ELSE "failed"

\* ShardedSafetensors::open_with_workers, first part: the index is read and
\* its shards are handed to the workers.
open_index ==
    /\ Step("start", TRUE, "opening")
    /\ handles' = [handles EXCEPT ![INDEX] = open_retained(INDEX)]
    /\ UNCHANGED <<defect, disk, changes, verified, reader>>

\* open_retained_safetensor_files: worker w opens every OPEN_WORKERS-th
\* shard, one after the other, and goes on after an error.
WorkerShards(w) == {s \in Shards : (s + 2) % OPEN_WORKERS = w}
Unopened(w) == {s \in WorkerShards(w) : handles[ShardPath(s)].status \in {"closed", "opened"}}

SafeTensorFile_open(w) ==
    /\ phase = "opening"
    /\ Unopened(w) # {}
    /\ \E s \in {Min(Unopened(w))} : \E p \in {ShardPath(s)}, tensors \in {HeaderTensors(s)} :
         handles' = [handles EXCEPT ![p] =
            IF @.status = "closed" THEN open_retained(p)
            ELSE [@ EXCEPT !.status = IF /\ HeaderIsSound(tensors, DataCells(tensors))
                                         /\ validate_retained_regular_file(p)
                                      THEN "ok" ELSE "error"]]
    /\ UNCHANGED <<defect, disk, changes, phase, verified, reader>>

\* The rest of open_with_workers, once the workers are joined.
total_size(pinned) ==
    MapThenSumSet(LAMBDA n : storage_cells(pinned[n]), DOMAIN pinned)
      - (IF defect = "missing" THEN storage_cells(pinned[VICTIM]) ELSE 0)
      + (IF defect = "total_size" THEN 1 ELSE 0)
TensorsOf(tensors) == {t.name : t \in Range(tensors)}
open_with_workers ==
    /\ phase = "opening"
    /\ \A w \in 0 .. OPEN_WORKERS - 1 : Unopened(w) = {}
    /\ \E pinned \in {PinnedTensors}, headers \in {[s \in Shards |-> HeaderTensors(s)]} :
         Step("opening",
              /\ \A s \in Shards :
                   /\ handles[ShardPath(s)].status = "ok"
                   /\ TensorsOf(headers[s]) = Indexed(pinned, defect, s)
              /\ total_size(pinned) = MapThenSumSet(LAMBDA s : DataCells(headers[s]), Shards)
              /\ validate_retained_regular_file(INDEX),
              "opened")
    /\ UNCHANGED <<defect, disk, changes, handles, verified, reader>>

validate_protected_descriptor(t, c) == t.dtype = c.dtype /\ t.shape = c.source_shape
validate_exl3_descriptor(t) == [dtype |-> t.dtype, shape |-> t.shape] = Exl3Descriptor(t.name)

\* The tensors of the shards against the contracts: every one is a protected
\* tensor or an EXL3 component, and none is missing.
InventoryIsPinned(tensors, contracts) ==
    LET exl3 == {t \in tensors : t.name \in Exl3Names}
        protected == {t \in tensors : t.name \in DOMAIN contracts}
        seen == {exl3_component_index(t.name) : t \in exl3}
    IN  /\ Cardinality(tensors) = Cardinality(DOMAIN contracts) + PINNED_EXL3_COMPONENT_COUNT
        /\ exl3 \cup protected = tensors
        /\ \A t \in protected : validate_protected_descriptor(t, contracts[t.name])
        /\ \A t \in exl3 : validate_exl3_descriptor(t)
        /\ Cardinality(seen) = Cardinality(exl3)
        /\ {t.name : t \in protected} = DOMAIN contracts
        /\ seen = 0 .. PINNED_EXL3_COMPONENT_COUNT - 1

validate_pinned_exl3_checkpoint ==
    /\ phase = "opened"
    /\ \E tensors \in {UNION {Range(HeaderTensors(s)) : s \in Shards}},
          contracts \in {protected_tensor_contracts} :
         Step("opened",
              /\ Content(INDEX, handles[INDEX].fingerprint) = "revision"
              /\ InventoryIsPinned(tensors, contracts),
              "validated")
    /\ UNCHANGED <<defect, disk, changes, handles, verified, reader>>

\* verify_pinned_source_files: the markers and the manifest first, then every
\* file of the manifest in its order.
VerifyManifest ==
    /\ Step("validated",
            defect # "marker" /\ Content(MANIFEST, Fingerprint(MANIFEST)) = "revision",
            "verifying")
    /\ UNCHANGED <<defect, disk, changes, handles, verified, reader>>

\* Shards and index are hashed through their retained descriptors, the other
\* files through one opened for it.
Observed(p) ==
    Content(p, IF p \in ShardPaths \cup {INDEX} THEN DescriptorFingerprint(p) ELSE Fingerprint(p))

HashFile ==
    /\ phase = "verifying"
    /\ verified < Len(FileOrder)
    /\ \E p \in {FileOrder[verified + 1]} : \E observed \in {Observed(p)} :
         Step("verifying",
              /\ p \in ShardPaths \cup {INDEX} => validate_retained_regular_file(p)
              /\ \/ observed = ManifestDigest(p)
                 \/ is_pinned_publisher_manifest_exception(p, observed)
              \* PINNED_SOURCE_FILE_MAP_SHA256 pins what was observed
              /\ observed = "revision",
              "verifying")
    /\ verified' = verified + 1
    /\ UNCHANGED <<defect, disk, changes, handles, reader>>

revalidate_sources == \A p \in ShardPaths \cup {INDEX} : validate_retained_regular_file(p)

verify_pinned_source_files ==
    /\ verified = Len(FileOrder)
    /\ Step("verifying", revalidate_sources, "verified")
    /\ UNCHANGED <<defect, disk, changes, handles, verified, reader>>

(***************************************************************************)
(* Reading one tensor of a rank's plan.  A protected tensor is one part,   *)
(* an EXL3 weight its trellis and then the chained marker and rotations.   *)
(* A reader checks its descriptor at its first and at its last cell.       *)
(***************************************************************************)

PartCells(t, axis) == storage_cells(t) \div (IF axis < 0 THEN 1 ELSE TP_DEGREE)

ShardRow(t, axis) ==
    IF axis # 1 THEN PartCells(t, axis) ELSE (t.shape[2] * element_cells(t.dtype)) \div TP_DEGREE

Part(name, t, axis, rank) ==
    [name |-> name, axis |-> axis, part |-> rank, position |-> 0,
     cells |-> PartCells(t, axis), row |-> ShardRow(t, axis)]

SourceParts(plan_name, rank) ==
    IF Len(plan_name) = 2
    THEN LET c == protected_tensor_contracts[plan_name]
         IN  <<Part(plan_name, [dtype |-> c.dtype, shape |-> c.source_shape], c.tp_axis, rank)>>
    ELSE [i \in 1 .. 4 |->
            LET name == plan_name \o <<rank, <<"trellis", "mcg", "suh", "svh">>[i]>>
            IN  Part(name, Exl3Descriptor(name), -1, rank)]

\* TensorShardReader without the rank's column offset.
source_position_of_first_rank(r, position) ==
    CASE r.axis = -1 -> position
      [] r.axis = 0  -> r.cells * r.part + position
      [] r.axis = 1  -> (position \div r.row) * r.row * TP_DEGREE + (position % r.row)
source_position(r, position) ==
    CASE r.axis = -1 -> position
      [] r.axis = 0  -> r.cells * r.part + position
      [] r.axis = 1  -> (position \div r.row) * r.row * TP_DEGREE
                          + r.part * r.row + (position % r.row)

PartPath(r) == ShardPath(shard_of(r.name))

StartTensor(name, rank) ==
    /\ phase = "verified"
    /\ \E parts \in {SourceParts(name, rank)} :
         /\ Step("verified",
                 \A i \in DOMAIN parts : validate_retained_regular_file(PartPath(parts[i])),
                 "reading")
         /\ reader' = [name |-> name, rank |-> rank, parts |-> parts, out |-> <<>>]
    /\ UNCHANGED <<defect, disk, changes, handles, verified>>

\* The cells a read returns: those of the inode, whatever it holds by now.
CellsAt(r, n) ==
    [i \in 1 .. n |->
       IF DescriptorFingerprint(PartPath(r)) = <<0, 0>>
       THEN <<r.name, source_position(r, r.position + i - 1)>> ELSE <<r.name>>]

ReadChunk(whole) ==
    /\ phase = "reading"
    /\ reader.parts # <<>>
    /\ \E r \in {Head(reader.parts)} :
         LET n == IF whole THEN r.row - (r.position % r.row) ELSE 1
             after == r.position + n
             same == DescriptorFingerprint(PartPath(r)) = handles[PartPath(r)].fingerprint
         IN  /\ Step("reading", r.position = 0 \/ after = r.cells => same, "reading")
             /\ reader' = [reader EXCEPT
                  !.out = @ \o CellsAt(r, n),
                  !.parts = IF after = r.cells THEN Tail(@)
                            ELSE <<[r EXCEPT !.position = after]>> \o Tail(@)]
    /\ UNCHANGED <<defect, disk, changes, handles, verified>>

\* The sources are checked once more before the set is published.
FinishSources ==
    /\ phase = "reading"
    /\ reader.parts = <<>>
    /\ Step("reading", revalidate_sources, "done")
    /\ UNCHANGED <<defect, disk, changes, handles, verified, reader>>

(***************************************************************************)
(* Files that change under the converter.                                  *)
(***************************************************************************)

Changing(p) == changes < MaxChanges /\ phase \notin {"done", "failed"} /\ changes' = changes + 1

Modify(p) ==
    /\ Changing(p)
    /\ disk' = [disk EXCEPT ![p].stamps[disk[p].inode + 1] = @ + 1]
    /\ UNCHANGED <<defect, phase, handles, verified, reader>>

Replace(p) ==
    /\ Changing(p)
    /\ disk' = [disk EXCEPT ![p] = [inode |-> @.inode + 1, stamps |-> Append(@.stamps, 0)]]
    /\ UNCHANGED <<defect, phase, handles, verified, reader>>

SourceNext ==
    \/ open_index
    \/ \E w \in 0 .. OPEN_WORKERS - 1 : SafeTensorFile_open(w)
    \/ open_with_workers
    \/ validate_pinned_exl3_checkpoint
    \/ VerifyManifest \/ HashFile \/ verify_pinned_source_files
    \/ \E name \in PlanNames, rank \in Ranks0 : StartTensor(name, rank)
    \/ \E whole \in BOOLEAN : ReadChunk(whole)
    \/ FinishSources
    \/ \E p \in Paths : Modify(p) \/ Replace(p)

SourceSpec == SourceInit /\ [][SourceNext]_sourceVars

(***************************************************************************)
(* What a conversion reads.                                                *)
(***************************************************************************)

\* A rank's slice by coordinates: the cells whose index along the axis is in
\* the rank's range, in row-major order.
Slice(name, t, axis, rank) ==
    LET stride == Product(SubSeq(t.shape, axis + 2, Len(t.shape))) * element_cells(t.dtype)
        extent == t.shape[axis + 1] \div TP_DEGREE
        mine(c) == (c \div stride) % t.shape[axis + 1] \in extent * rank .. extent * (rank + 1) - 1
        all == [i \in 1 .. storage_cells(t) |-> i - 1]
        kept == IF axis < 0 THEN all ELSE SelectSeq(all, mine)
    IN  [i \in DOMAIN kept |-> <<name, kept[i]>>]

RankPayload(pinned, parts, rank) ==
    FlattenSeq([i \in DOMAIN parts |->
      Slice(parts[i].name, pinned[parts[i].name], parts[i].axis, rank)])

\* A conversion that is not refused read exactly the rank's slice of the
\* pinned revision, whatever was wrong with the files and whenever they were
\* rewritten or replaced; and one that is refused met a defect or a change.
\* The plan gives every tensor the cells its readers deliver.
SourceIsExact ==
    /\ phase = "done" =>
         /\ defect = "none"
         /\ reader.out = RankPayload(PinnedTensors, SourceParts(reader.name, reader.rank), reader.rank)
         /\ LET spec == pinned_exl3_rank_plan(reader.rank)[reader.name]
            IN  Len(reader.out) = spec.primary + spec.aux
    /\ phase = "failed" => defect # "none" \/ changes > 0
=============================================================================
