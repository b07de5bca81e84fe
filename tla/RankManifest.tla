---------------------------- MODULE RankManifest ----------------------------
(***************************************************************************)
(* The manifest of a rank file (glm-format/src/rank_manifest.rs, the rows  *)
(* of PinnedRankPlan::manifest_tensors in checkpoint.rs): what the         *)
(* converter writes, how a reader validates it against the descriptors and *)
(* the header of its file, and the agreement of a rank set                 *)
(* (manifest_consensus in native_reader.rs).                               *)
(*                                                                         *)
(* A manifest is a record, its digests are names for what they are taken   *)
(* of.  One of the manifests offered may differ from the written one: a    *)
(* row may mix in two fields of another row, or one top-level field may    *)
(* carry another value.                                                    *)
(***************************************************************************)
EXTENDS SourceCheckpoint

CONSTANT
    Listed          \* the names of the plan a manifest lists, in order

VARIABLES
    offered,        \* rank -> the manifest in its file
    pinned_inventory,   \* whether the pinned inventory is required (not in tests)
    validated       \* <<>>, or what the reader of each rank so far made of it

manifestVars == <<offered, pinned_inventory, validated>>

(***************************************************************************)
(* The manifest the converter writes.                                      *)
(***************************************************************************)

collective_after(role) ==
    CASE role = "EMBEDDING" -> "tp_embedding_reduce"
      [] role = "LM_HEAD" -> "distributed_sampling"
      [] role \in {"O_PROJ", "DENSE_DOWN", "SHARED_DOWN", "ROUTED_DOWN"} -> "tp_all_reduce"
      [] OTHER -> "none"

Scaled(shape, axis) == [shape EXCEPT ![axis + 1] = @ * TP_DEGREE]
RankComponents(name, rank) == {<<name[1], name[2], name[3], rank, c>> : c \in Range(Components)}

\* The fields of a row that say where its bytes come from.
SourceBinding(spec, rank) ==
    IF spec.codec_id = "EXL3"
    THEN [kind |-> "explicit_rank_components", start |-> rank, end |-> rank + 1,
          components |-> RankComponents(spec.name, rank),
          global_shape |-> Scaled(spec.shape, spec.tp_shard_axis), source_shape |-> <<>>,
          source_dtype |-> "EXL3_TR3_COMPONENTS", reconstruction |-> "exl3_tr3_trellis_v0"]
    ELSE LET c == protected_tensor_contracts[spec.name]
             axis == c.tp_axis
             shard == IF axis < 0 THEN 0 ELSE c.source_shape[axis + 1] \div TP_DEGREE
         IN  [kind |-> IF axis < 0 THEN "replicated" ELSE "contiguous_tp_slice",
              start |-> shard * rank, end |-> shard * rank + shard, components |-> {spec.name},
              global_shape |-> c.source_shape, source_shape |-> c.source_shape,
              source_dtype |-> c.dtype, reconstruction |-> "byte_exact_source_precision"]

manifest_tensor(spec, rank) ==
    [name |-> spec.name, role_id |-> spec.role_id, layer_id |-> spec.layer_id,
     expert_id |-> spec.expert_id, codec_id |-> spec.codec_id, flags |-> spec.flags,
     tp_shard_axis |-> spec.tp_shard_axis, rank_shape |-> spec.shape, metadata |-> spec.metadata,
     primary_bytes |-> spec.primary, aux_bytes |-> spec.aux,
     collective_after |-> collective_after(spec.role_id), source_axis |-> spec.tp_shard_axis]
      @@ SourceBinding(spec, rank)

Specs == [r \in Ranks0 |-> [i \in DOMAIN Listed |-> pinned_exl3_rank_plan(r)[Listed[i]]]]
manifest_tensors(rank) == [i \in DOMAIN Listed |-> manifest_tensor(Specs[rank][i], rank)]
PayloadBytes(rows) == FoldLeft(LAMBDA n, t : n + t.primary_bytes + t.aux_bytes, 0, rows)

PRODUCTION_RANK_MANIFEST_SCHEMA == <<"glmaxx.rank-manifest", 1>>
\* Compared with constants, with the header, only with each other and zero.
Pins == {"revision", "repository", "codec", "toolchain", "verification", "profile"}
HeaderDigests == {"payload", "model_config", "weight_policy", "kernel_abi", "chat_template", "tokenizer"}
Provenance == {"commit", "operation_manifest", "profile_budget", "review_artifact",
               "format_spec", "engine_spec"}
NamedFiles == {"calibration", "config", "index", "tokenizer", "chat_template", "license", "readme"}

rank_conversion_manifest(rank, rows) ==
    [schema |-> PRODUCTION_RANK_MANIFEST_SCHEMA, canonical |-> TRUE, rank |-> rank,
     tensor_count |-> Len(Listed), tensors |-> rows, tensor_contract |-> rows,
     tensor_source_payload_bytes |-> PayloadBytes(rows),
     pins |-> [f \in Pins |-> "pinned"], header |-> [f \in HeaderDigests |-> "written"],
     provenance |-> [f \in Provenance |-> "built"], named |-> [f \in NamedFiles |-> "revision"],
     source_files |-> [f \in NamedFiles |-> "revision"]]
Written == [r \in Ranks0 |-> rank_conversion_manifest(r, manifest_tensors(r))]

(***************************************************************************)
(* Validation of one manifest in the context of its file.                  *)
(***************************************************************************)

nonzero_sha256(digest) == digest # "zero"

validate_source_files(m) ==
    /\ DOMAIN m.source_files = NamedFiles
    /\ \A f \in NamedFiles : m.source_files[f] = m.named[f]

validate_top_level(m, rank) ==
    /\ m.rank = rank
    /\ m.tensor_count = Len(Listed) /\ Len(m.tensors) = Len(Listed)
    /\ m.tensor_source_payload_bytes # 0
    /\ \A f \in Pins : m.pins[f] = "pinned"
    /\ m.tensor_source_payload_bytes = PayloadBytes(m.tensors)
    /\ \A i \in DOMAIN Listed : Specs[rank][i].codec_id \notin {"NVFP4_1D", "NVFP4_2D"}
    /\ \A f \in HeaderDigests : m.header[f] = "written"
    /\ \A f \in Provenance \ {"commit"} : nonzero_sha256(m.provenance[f])
    /\ \A f \in {"calibration", "license", "readme"} : nonzero_sha256(m.named[f])
    \* against the digests of the header and the pinned index
    /\ \A f \in {"config", "index", "tokenizer", "chat_template"} : m.named[f] = "revision"
    /\ validate_source_files(m)

validate_source_binding(t, rank) ==
    /\ Len(t.global_shape) = Len(t.rank_shape)
    /\ t.source_axis = t.tp_shard_axis
    /\ \/ /\ t.kind = "replicated"
          /\ t.source_axis = -1
          /\ t.start = 0 /\ t.end = 0
          /\ t.components = {t.name}
          /\ t.global_shape = t.rank_shape
          /\ t.source_shape = t.global_shape
       \/ /\ t.kind = "contiguous_tp_slice"
          /\ t.source_axis + 1 \in DOMAIN t.global_shape
          /\ LET extent == t.global_shape[t.source_axis + 1]
                 shard == extent \div TP_DEGREE
             IN  /\ extent % TP_DEGREE = 0
                 /\ t.start = shard * rank
                 /\ t.end = shard * rank + shard
                 /\ t.rank_shape = [t.global_shape EXCEPT ![t.source_axis + 1] = shard]
          /\ t.components = {t.name}
          /\ t.source_shape = t.global_shape
       \/ /\ t.kind = "explicit_rank_components"
          /\ Len(t.name) = 3
          /\ t.source_axis + 1 \in DOMAIN t.rank_shape
          /\ t.start = rank /\ t.end = rank + 1
          /\ t.components = RankComponents(t.name, rank)
          /\ t.global_shape = Scaled(t.rank_shape, t.source_axis)
          /\ t.source_shape = <<>>
          /\ t.source_dtype = "EXL3_TR3_COMPONENTS"

validate_reconstruction(t) ==
    \/ /\ t.codec_id \in {"BF16", "F16", "F32"}
       /\ t.reconstruction = "byte_exact_source_precision"
       /\ t.source_dtype = t.codec_id
       /\ t.kind \in {"replicated", "contiguous_tp_slice"}
    \/ /\ t.codec_id = "EXL3"
       /\ t.reconstruction = "exl3_tr3_trellis_v0"
       /\ t.source_dtype = "EXL3_TR3_COMPONENTS"
       /\ t.kind = "explicit_rank_components"

\* A row against the descriptor at its place.
DescriptorMatches(t, d) ==
    /\ t.name = d.name /\ t.role_id = d.role_id /\ t.layer_id = d.layer_id
    /\ t.expert_id = d.expert_id /\ t.codec_id = d.codec_id /\ t.flags = d.flags
    /\ t.tp_shard_axis = d.tp_shard_axis /\ t.rank_shape = d.shape /\ t.metadata = d.metadata
    /\ t.primary_bytes = d.primary /\ t.aux_bytes = d.aux
    /\ t.collective_after = collective_after(d.role_id)

validate_tensors(m, rank) ==
    \A i \in DOMAIN m.tensors :
      /\ DescriptorMatches(m.tensors[i], Specs[rank][i])
      /\ validate_source_binding(m.tensors[i], rank)
      /\ validate_reconstruction(m.tensors[i])

\* The constants of the inventory are those of the written manifests.
validate_pinned_inventory(m) ==
    \E written \in {Written[m.rank]} :
      /\ m.tensor_count = Len(Listed)
      /\ m.tensor_source_payload_bytes = written.tensor_source_payload_bytes
      /\ m.tensor_contract = written.tensor_contract
      /\ m.source_files = written.source_files

\* What holds for every rank's row: all but the bytes' source and the codec's
\* metadata.
validated_tensor_semantics(m) ==
    [i \in DOMAIN m.tensors |->
       [f \in (DOMAIN m.tensors[i]) \ {"start", "end", "components", "source_shape", "metadata",
                                      "primary_bytes", "aux_bytes"} |-> m.tensors[i][f]]]

Refused == [outcome |-> "error"]
Foreign == [outcome |-> "foreign"]      \* no manifest of this project

validate_rank_manifest(m, rank) ==
    IF ~m.canonical THEN Refused
    ELSE IF m.schema[1] # PRODUCTION_RANK_MANIFEST_SCHEMA[1] THEN Foreign
    ELSE IF /\ m.schema = PRODUCTION_RANK_MANIFEST_SCHEMA
            /\ validate_top_level(m, rank)
            /\ validate_tensors(m, rank)
            /\ m.tensor_contract = m.tensors
            /\ pinned_inventory => validate_pinned_inventory(m)
    THEN [outcome |-> "valid", provenance |-> m.provenance,
          tensor_source_payload_bytes |-> m.tensor_source_payload_bytes,
          tensor_semantics |-> validated_tensor_semantics(m)]
    ELSE Refused

(***************************************************************************)
(* The set: one reader after the other, then their agreement.              *)
(***************************************************************************)

WithRow(m, i, t) ==
    LET rows == [m.tensors EXCEPT ![i] = t]
    IN  [m EXCEPT !.tensors = rows, !.tensor_contract = rows,
                  !.tensor_source_payload_bytes = PayloadBytes(rows)]

Deviating(m) ==
    {[m EXCEPT !.canonical = FALSE], [m EXCEPT !.rank = (@ + 1) % TP_DEGREE],
     [m EXCEPT !.schema = <<"other", 1>>], [m EXCEPT !.schema = <<"glmaxx.rank-manifest", 2>>],
     [m EXCEPT !.tensor_source_payload_bytes = @ + 1],
     [m EXCEPT !.tensors = Tail(@)], [m EXCEPT !.tensor_contract = Reverse(@)]}
      \cup {[m EXCEPT !.pins[f] = "other"] : f \in Pins}
      \cup {[m EXCEPT !.header[f] = "other"] : f \in HeaderDigests}
      \cup {[m EXCEPT !.provenance[f] = v] : f \in Provenance, v \in {"other", "zero"}}
      \cup {[m EXCEPT !.named[f] = "other"] : f \in NamedFiles}
      \cup {[m EXCEPT !.named[f] = v, !.source_files[f] = v] : f \in NamedFiles, v \in {"other", "zero"}}

\* The pinned inventory refuses every other row, so rows deviate without it.
MixedRows(own, other) ==
    LET differing == {f \in DOMAIN own : own[f] # other[f]}
    IN  {[f \in DOMAIN own |-> IF f \in mixed THEN other[f] ELSE own[f]] :
           mixed \in {{f, g} : f \in differing, g \in differing}}

ManifestInit ==
    /\ \E written \in {Written} :
         \/ /\ pinned_inventory \in BOOLEAN
            /\ \/ offered = written
               \/ \E r \in Ranks0 : \E m \in Deviating(written[r]) : offered = [written EXCEPT ![r] = m]
         \/ /\ pinned_inventory = FALSE
            /\ \E r, q \in Ranks0, i, j \in DOMAIN Listed :
                 \E row \in MixedRows(written[r].tensors[i], written[q].tensors[j]) :
                   offered = [written EXCEPT ![r] = WithRow(@, i, row)]
    /\ validated = <<>>

ReadManifest ==
    /\ Len(validated) < TP_DEGREE
    /\ Refused \notin Range(validated)
    /\ validated' =
         Append(validated, validate_rank_manifest(offered[Len(validated)], Len(validated)))
    /\ UNCHANGED <<offered, pinned_inventory>>

manifest_consensus == \A i \in DOMAIN validated : validated[i] = validated[1]

ManifestSpec == ManifestInit /\ [][ReadManifest]_manifestVars

(***************************************************************************)
(* What an accepted set says.                                              *)
(***************************************************************************)

AcceptedSet ==
    /\ Len(validated) = TP_DEGREE
    /\ Refused \notin Range(validated) /\ Foreign \notin Range(validated)
    /\ manifest_consensus

\* The manifests a reader of the whole set accepts say of every tensor what
\* the plan says, even where only the rows and not the pinned inventory vouch
\* for them: the ranks' slices are disjoint and cover the tensor along its
\* axis, and the ranks agree on who built them.  The written set is accepted.
ManifestsDescribeThePlan ==
    /\ AcceptedSet =>
         /\ \A r \in Ranks0 : offered[r].tensors = manifest_tensors(r)
         /\ \A i \in DOMAIN Listed :
              LET row(r) == offered[r].tensors[i]
                  cells(r) == row(r).start .. row(r).end - 1
                  extent == IF row(0).kind = "explicit_rank_components" THEN TP_DEGREE
                            ELSE row(0).global_shape[row(0).source_axis + 1]
              IN  row(0).kind # "replicated" =>
                    /\ UNION {cells(r) : r \in Ranks0} = 0 .. extent - 1
                    /\ \A q, r \in Ranks0 : q # r => cells(q) \cap cells(r) = {}
         /\ \A q, r \in Ranks0 : offered[q].provenance = offered[r].provenance
    /\ offered = Written => Refused \notin Range(validated) /\ manifest_consensus
=============================================================================
