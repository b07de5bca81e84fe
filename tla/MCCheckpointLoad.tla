-------------------------- MODULE MCCheckpointLoad --------------------------
(***************************************************************************)
(* A checkpoint from its source files to the devices, on small instances   *)
(* of its parts.  They meet only through values (a plan, a file, a         *)
(* receipt), so a behaviour is one of theirs, and the variables of the     *)
(* others are <<>>:                                                        *)
(*                                                                         *)
(*   "source"    three layers for two ranks, with one thing wrong with the *)
(*               files from the start and one changed under the converter; *)
(*   "manifest"  the manifests of two ranks, one of which may deviate;     *)
(*   "writer"    two ranks of two tensors, two crashes, one change of the  *)
(*               source;                                                   *)
(*   "container" rank files of one and two tensors of every codec, whole   *)
(*               and damaged, and one rewrite under the reader;            *)
(*   "ranks"     two attempts of two ranks, with messages of the first     *)
(*               delivered to the second;                                  *)
(*   "upload"    contracts of one and two tensors, well formed and not,    *)
(*               with planes that end at and beyond the largest offset;    *)
(*   "device"    six bytes of arena behind a ring of two slots of two      *)
(*               bytes.                                                    *)
(***************************************************************************)
EXTENDS RankSetLoad, RankManifest

VARIABLES
    component,
    source, cached, durable, dir, converter, crashes, created, cut,         \* of RankSetWriter
    tensors, image, inode, opened, stamp, seen, rewrites, stage, session,   \* of RankFile
    contract, plan, sink, arena, summary,                     \* of TensorUpload
    at, device, slots, live, device_freed, gpu, process       \* of CheckpointArena

writerVars == <<source, cached, durable, dir, converter, crashes, created, cut>>
containerVars == <<tensors, image, inode, opened, stamp, seen, rewrites, stage, session>>
uploadVars == <<contract, plan, sink, arena, summary>>
deviceVars == <<at, device, slots, live, device_freed, gpu, process>>

MCExtent ==
    [vocab |-> 4, hidden |-> 2, q_lora |-> 1, q |-> 4, kv_a |-> 2, kv_lora |-> 1, kv_b |-> 2,
     indexer_q |-> 2, indexer_k |-> 1, indexer_heads |-> 1, dense |-> 4, experts |-> 2,
     shared |-> 2, routed |-> 4]
\* Replicated, sharded along either axis, and expert weights.
MCListed == <<<<-1, "embed_tokens">>, <<0, "input_layernorm">>, <<0, "o_proj">>, <<1, 0, "down">>>>

Writer == INSTANCE RankSetWriter WITH
            Ranks <- {0, 1}, Tensors <- {1, 2}, SYNC_BATCH <- 2, MaxChanges <- 1, MaxCrashes <- 2,
            Faults <- {"kill", "power"}, process <- converter

Numbered(n) == [i \in 1 .. n |-> <<i>>]
Plain ==
    [name |-> <<<<1>>>>, layer_id |-> 0, codec_id |-> "BF16", flags |-> {"PROTECTED"},
     logical_shape |-> <<1, 3>>, padded_shape |-> <<1, 3>>, metadata |-> <<>>,
     primary |-> Numbered(3), aux |-> <<>>]
Padded ==
    [Plain EXCEPT !.name = <<<<2>>, <<3>>>>, !.codec_id = "FP32",
                  !.logical_shape = <<2, 1>>, !.padded_shape = <<2, 2>>,
                  !.primary = <<<<1>>, <<2>>, <<0>>, <<0>>, <<3>>, <<4>>, <<0>>, <<0>>>>]
Expert ==
    [Plain EXCEPT !.name = <<<<4>>>>, !.layer_id = 3, !.codec_id = "EXL3", !.flags = {"ROUTED"},
                  !.logical_shape = <<1, 2>>, !.padded_shape = <<1, 2>>,
                  !.metadata = <<<<"m", [kind |-> "EXL3", rank |-> 0, layer |-> 3, logical_n |-> 1,
                                         logical_k |-> 2, trellis_words |-> 3,
                                         rotation_words |-> 3], 0>>>>,
                  !.aux = <<<<7>>, <<7>>, <<1>>, <<2>>, <<3>>>>]
Matrix(codec) ==
    [Plain EXCEPT !.name = <<<<5>>>>, !.codec_id = codec, !.primary = <<<<2>>, <<1>>, <<3>>>>]
MCContents ==
    {<<Plain>>, <<Padded, Plain>>, <<Expert, Plain>>, <<Plain, Expert>>, <<Matrix("NVFP4_1D")>>,
     <<Matrix("NVFP4_2D"), Expert>>}

Container == INSTANCE RankFile WITH
            ALIGNMENT <- 4, PAYLOAD_ALIGNMENT <- 2, STREAM_BUFFER <- 4,
            SCALE_N0 <- 2, SCALE_N1 <- 2, SCALE_GROUPS <- 2, SCALE_ROWS <- 2,
            Contents <- MCContents, MaxRewrites <- 1

Tensor(id, metadata, primary, auxiliary, alignment) ==
    [tensor_id |-> id, role_id |-> 1, codec_id |-> 1, descriptor_flags |-> 0,
     metadata_bytes |-> metadata, primary_bytes |-> primary,
     auxiliary_bytes |-> auxiliary, alignment |-> alignment]

Candidates(id) == {Tensor(id, m, p, a, n) : m \in {0, 1}, p \in {0, 1, 3}, a \in {0, 2}, n \in {2, 3}}
Firsts == {Tensor(0, m, p, a, 2) : m \in {0, 1}, p \in {1, 3}, a \in {0, 2}}
MCContracts == {<<t>> : t \in Candidates(0)} \union {<<s, t>> : s \in Firsts, t \in Candidates(1)}

Environment(mode, slots_per_rank, second) ==
    [profile |-> "exl3", verification_mode |-> mode, staging_slot_bytes |-> 4,
     staging_slots_per_rank |-> slots_per_rank, devices |-> (0 :> "d0" @@ 1 :> second)]
MCEnvironments ==
    {Environment("FullSha256", 2, "d1"), Environment("FullSha256", 2, "d0"),
     Environment("FullSha256", 1, "d1"), Environment("FsVerity", 2, "d1")}

Source(r, identity, file) ==
    [rank |-> r, identity |-> identity, file_uuid |-> file, profile |-> "exl3",
     payload_bytes |-> 1]
MCRankSources ==
    {(0 :> Source(0, "i", "f0") @@ 1 :> Source(1, identity, file)) :
        identity \in {"i", "j"}, file \in {"f0", "f1"}}

Upload == INSTANCE TensorUpload WITH
            RANK_SET_SIZE <- 2, MaxU64 <- 9, READER_CHUNK_BYTES <- 4,
            Contracts <- MCContracts, Environments <- MCEnvironments,
            RankSources <- MCRankSources, Chunks <- 1..3, Rank <- 1, WriterFails <- TRUE

Device == INSTANCE CheckpointArena WITH
            weight_bytes <- 5, metadata_bytes <- 1, slot_count <- 2, slot_bytes <- 2,
            MaxWrites <- 4, Faults <- {"calls", "sync", "corrupt"},
            arena <- device, freed <- device_freed

MCInit ==
    /\ component \in {"source", "manifest", "writer", "container", "ranks", "upload", "device"}
    /\ IF component = "source" THEN SourceInit
       ELSE /\ defect = <<>> /\ disk = <<>> /\ changes = <<>> /\ phase = <<>> /\ handles = <<>>
            /\ verified = <<>> /\ reader = <<>>
    /\ IF component = "manifest" THEN ManifestInit
       ELSE offered = <<>> /\ pinned_inventory = <<>> /\ validated = <<>>
    /\ IF component = "writer" THEN Writer!FilesInit
       ELSE /\ source = <<>> /\ cached = <<>> /\ durable = <<>> /\ dir = <<>>
            /\ converter = <<>> /\ crashes = <<>> /\ created = <<>> /\ cut = <<>>
    /\ IF component = "container" THEN Container!RankFileInit
       ELSE /\ tensors = <<>> /\ image = <<>> /\ stage = <<>> /\ session = <<>> /\ inode = <<>>
            /\ opened = <<>> /\ stamp = <<>> /\ seen = <<>> /\ rewrites = <<>>
    /\ Init
    /\ IF component = "upload" THEN Upload!Init
       ELSE contract = <<>> /\ plan = <<>> /\ sink = <<>> /\ arena = <<>> /\ summary = <<>>
    /\ IF component = "device" THEN Device!Init
       ELSE /\ at = <<>> /\ device = <<>> /\ slots = <<>> /\ live = <<>> /\ device_freed = <<>>
            /\ gpu = <<>> /\ process = <<>>

MCNext ==
    /\ UNCHANGED component
    /\ \/ /\ component = "source" /\ SourceNext
          /\ UNCHANGED <<manifestVars, writerVars, containerVars, vars, uploadVars, deviceVars>>
       \/ /\ component = "manifest" /\ ReadManifest
          /\ UNCHANGED <<sourceVars, writerVars, containerVars, vars, uploadVars, deviceVars>>
       \/ /\ component = "writer" /\ Writer!FilesNext
          /\ UNCHANGED <<sourceVars, manifestVars, containerVars, vars, uploadVars, deviceVars>>
       \/ /\ component = "container" /\ Container!RankFileNext
          /\ UNCHANGED <<sourceVars, manifestVars, writerVars, vars, uploadVars, deviceVars>>
       \/ /\ component = "ranks" /\ Next
          /\ UNCHANGED <<sourceVars, manifestVars, writerVars, containerVars, uploadVars, deviceVars>>
       \/ /\ component = "upload" /\ Upload!Next
          /\ UNCHANGED <<sourceVars, manifestVars, writerVars, containerVars, vars, deviceVars>>
       \/ /\ component = "device" /\ Device!Next
          /\ UNCHANGED <<sourceVars, manifestVars, writerVars, containerVars, vars, uploadVars>>

MCSpec ==
    /\ MCInit
    /\ [][MCNext]_<<component, sourceVars, manifestVars, writerVars, containerVars, vars,
                    uploadVars, deviceVars>>

\* A conversion that is not refused copied exactly its rank's slices of the
\* pinned revision, whatever changed on the disk and when, and the manifests
\* a rank set is accepted with describe exactly those slices.
SlicesAreThePinnedOnes ==
    /\ component = "source" => SourceIsExact
    /\ component = "manifest" => ManifestsDescribeThePlan

\* A directory at the final path holds a complete file of every rank, of one
\* conversion and with the pinned bytes, whenever the converter was stopped
\* or the machine lost power, except the files in cut.left and cut.lost: those
\* a killed converter left unsynced and a later publish found complete.  It
\* verifies their headers and does not sync them.
PublishedSetIsComplete == component = "writer" => Writer!PublishedSetIsComplete

\* A staged file whose creation was synced can be taken up again, whatever ended
\* the last converter, except the files in cut.lost: bytes a killed converter
\* had left unsynced, and a power loss then hit.
ConversionResumes == component = "writer" => Writer!ConversionResumes

\* The streaming writer, the builder and the two readers agree on what a rank
\* file is, and the native reader accepts no file that is damaged, changed
\* under it, or of another conversion than the rest of its set.
RankFilesAreExact == component = "container" => Container!RankFilesAreExact

\* A derived layout passes its own validation and resolves for the executor,
\* and a sealed arena holds each byte of each tensor once, at the offset the
\* plan gives it, whatever the order and the sizes of the chunks.
UploadIsExact ==
    component = "upload" =>
    /\ Upload!DerivedLayoutIsValid /\ Upload!PlannedTensorsResolve
    /\ Upload!SealedArenaIsExact /\ Upload!SummaryIsExpected

\* An arena that passed the read-back holds exactly the bytes streamed into it,
\* and the read-back refuses only what the device itself damaged.
VerifiedIsWhatWasWritten ==
    component = "device" => Device!VerifiedIsWhatWasWritten /\ Device!MismatchMeansDamage

\* No handle is freed while the GPU may still use it or twice, and none is kept
\* without an error.
ReleasedExactly ==
    component = "device" => Device!NothingFreedInFlight /\ Device!ReleasedExactly
=============================================================================
