--------------------------- MODULE RankSetWriter ---------------------------
(***************************************************************************)
(* The conversion of a checkpoint into one file per rank                   *)
(* (glm-cli/src/main.rs convert_pinned_exl3, glm-format/src/stream.rs,     *)
(* PinnedRankPlan::write_incomplete of checkpoint.rs): the source is       *)
(* verified, each rank's file is created or resumed in a staging directory *)
(* and filled tensor by tensor, and the directory is published by a        *)
(* rename once every header is written.                                    *)
(*                                                                         *)
(* A file is a record of the units the code writes in one call.  The page  *)
(* cache (cached) is what every process sees, the disk (durable) what a    *)
(* power loss leaves; unsynced units, directory entries and the rename may *)
(* each survive one or not.  A digest is the value it is taken of.  Bytes  *)
(* of a tensor are 0 (never written), PINNED or any other source content.  *)
(***************************************************************************)
EXTENDS Naturals, FiniteSets, FiniteSetsExt

CONSTANTS
    Ranks,          \* 0..n-1; the code has four
    Tensors,        \* 1..m, the tensors of a rank in the order of the plan
    SYNC_BATCH,     \* CONVERSION_SYNC_BATCH_TENSORS
    MaxChanges,     \* bound on how often somebody changes the source files
    MaxCrashes,     \* bound on how often the process ends before it is done
    Faults          \* subset of {"kill", "power"}

VARIABLES
    source,     \* [content, stamp]: the shards' bytes and their fingerprint
    cached,     \* rank -> file, as processes see it
    durable,    \* rank -> file, as on disk
    dir,        \* [cached, durable]: "absent", "staging" or "final"
    process,    \* the converter
    crashes,    \* how many converters ended early
    created,    \* ranks whose file was synced once after its creation
    cut         \* [left, lost]: ranks whose file a killed converter left with unsynced
                \* bytes that nobody synced since, and those of them hit by a power loss
filesVars == <<source, cached, durable, dir, process, crashes, created, cut>>

PINNED == 1
CHANGED == 2
Zeros == [t \in Tensors |-> 0]
\* A manifest is <<>> while it is not written, and then <<the digest in its
\* payload slot>>; a header is <<>> while it is zero.
NoFile == [entry |-> FALSE, length |-> FALSE, control |-> FALSE, manifest |-> <<>>,
           planes |-> Zeros, descriptors |-> Zeros, header |-> <<>>]

Idle == [at |-> "idle", rank |-> 0, stamp |-> 0, completed |-> {}, pending |-> {},
         tensor |-> 0, auditing |-> FALSE, summaries |-> <<>>, zero |-> {}]
At(place) == process.at = place
Goto(place) == process' = [process EXCEPT !.at = place]
Rank == process.rank
File == cached[Rank]
\* The bytes the writer of one rank has just put into the page cache.
Put(file) == cached' = [cached EXCEPT ![Rank] = file] /\ UNCHANGED durable
\* File::sync_all and sync_data: everything of the file but its directory entry.
Sync(rank) ==
    /\ durable' = [durable EXCEPT ![rank] = [cached[rank] EXCEPT !.entry = durable[rank].entry]]
    /\ cut' = [left |-> cut.left \ {rank}, lost |-> cut.lost \ {rank}]
    /\ UNCHANGED cached
\* An error of a check ends the process and changes no file.
Fails == process' = Idle /\ UNCHANGED <<cached, durable, dir, created>>

-----------------------------------------------------------------------------
(* What the code checks in a file it opens                                 *)

\* The manifest of a staged file is the plan's, with any digest in its slot.
verify_or_adopt_manifest(file) == file.manifest # <<>>

Completed(file) == {t \in Tensors : file.descriptors[t] # 0}

verify_body(file) ==
    /\ file.length /\ verify_or_adopt_manifest(file) /\ file.control
    /\ \A t \in Completed(file) : file.descriptors[t] = file.planes[t]

open_for_publication(file) == file.entry /\ verify_body(file) /\ Completed(file) = Tensors

\* prepare and its audit: the digests of the regions of a complete file.
Summary(file) ==
    [manifest |-> file.manifest, descriptors |-> file.descriptors, payload |-> file.planes]

\* The slot is zero or already holds this payload; any other digest is refused.
Sealed(file) == file.manifest = <<file.planes>>
Unsealed(file) == file.manifest = <<Zeros>>
Seal(file) == [file EXCEPT !.manifest = <<file.planes>>]

\* A header binds its file's regions and, by the conversion's identity, the set.
derive_conversion_uuid(summaries) == summaries
final_header(rank, summaries) ==
    <<summaries[rank], derive_conversion_uuid(summaries)>>
verify_final_header(rank, summaries) == cached[rank].header = final_header(rank, summaries)

\* What a reader of one file, and then validate_rank_set, accept.
Readable(file) ==
    /\ file.entry /\ file.length /\ file.control /\ Sealed(file)
    /\ file.header # <<>> /\ file.header[1] = Summary(file)

-----------------------------------------------------------------------------
(* The converter                                                           *)

\* verify_pinned_source_files: every file is hashed through the descriptor
\* that stays open, with its fingerprint compared before and after.
Verify ==
    /\ At("idle") /\ source.content = PINNED
    /\ process' = [Idle EXCEPT !.at = IF dir.cached = "final" THEN "revalidate" ELSE "stage",
                               !.auditing = dir.cached = "final", !.stamp = source.stamp]
    /\ UNCHANGED <<source, cached, durable, dir, crashes, created, cut>>

Unchanged == process.stamp = source.stamp

\* StreamingRankSet::create_or_resume: an existing staging directory is taken as it is.
MakeStaging ==
    /\ At("stage")
    /\ \/ dir.cached = "absent" /\ dir' = [dir EXCEPT !.cached = "staging"] /\ Goto("sync_parent")
       \/ dir.cached = "staging" /\ Goto("open") /\ UNCHANGED dir
    /\ UNCHANGED <<source, cached, durable, crashes, created, cut>>
SyncParent ==
    /\ At("sync_parent") /\ dir' = [dir EXCEPT !.durable = dir.cached] /\ Goto("open")
    /\ UNCHANGED <<source, cached, durable, crashes, created, cut>>

\* The next rank's turn, or the revalidation of the sources after the last.
NextRank(p) ==
    IF Rank + 1 \in Ranks
    THEN [p EXCEPT !.at = "open", !.rank = Rank + 1, !.completed = {}, !.pending = {}]
    ELSE [p EXCEPT !.at = "revalidate", !.rank = 0, !.completed = {}, !.pending = {}]

\* open_rank_writer of a file that is there: one with a header is left to
\* publication, any other is resumed at its nonzero descriptors.
open_rank_writer ==
    /\ At("open") /\ File.entry
    /\ \/ /\ File.header = <<>> /\ verify_body(File)
          /\ process' = [process EXCEPT !.at = "write", !.completed = Completed(File)]
          /\ UNCHANGED <<cached, durable, dir, created>>
       \/ /\ File.header # <<>> /\ open_for_publication(File)
          /\ process' = NextRank(process)
          /\ UNCHANGED <<cached, durable, dir, created>>
       \/ /\ ~(IF File.header = <<>> THEN verify_body(File) ELSE open_for_publication(File))
          /\ Fails
    /\ UNCHANGED <<source, crashes, cut>>

\* StreamingRankWriter::create_or_resume of a new file, one call at a time.
CreateFile ==
    /\ At("open") /\ ~File.entry /\ Put([NoFile EXCEPT !.entry = TRUE]) /\ Goto("length")
    /\ UNCHANGED <<source, dir, crashes, created, cut>>
SetLength ==
    /\ At("length") /\ Put([File EXCEPT !.length = TRUE]) /\ Goto("manifest")
    /\ UNCHANGED <<source, dir, crashes, created, cut>>
WriteManifest ==
    /\ At("manifest") /\ Put([File EXCEPT !.manifest = <<Zeros>>]) /\ Goto("control")
    /\ UNCHANGED <<source, dir, crashes, created, cut>>
WriteControl ==
    /\ At("control") /\ Put([File EXCEPT !.control = TRUE]) /\ Goto("created")
    /\ UNCHANGED <<source, dir, crashes, created, cut>>
SyncCreated ==
    /\ At("created") /\ Sync(Rank) /\ created' = created \union {Rank} /\ Goto("write")
    /\ UNCHANGED <<source, dir, crashes>>

\* write_incomplete: the first tensor that is not complete, a commit every
\* SYNC_BATCH tensors and one at the end.
Left == Tensors \ (process.completed \union process.pending)
BatchIsFull == Cardinality(process.pending) = SYNC_BATCH \/ Left = {}

\* The readers compare the fingerprint before the first byte and after the last.
BeginCopy ==
    /\ At("write") /\ ~BatchIsFull
    /\ \/ /\ Unchanged
          /\ Put([File EXCEPT !.planes[Min(Left)] = source.content])
          /\ process' = [process EXCEPT !.at = "copy", !.tensor = Min(Left)]
          /\ UNCHANGED <<dir, created>>
       \/ ~Unchanged /\ Fails
    /\ UNCHANGED <<source, crashes, cut>>
\* Without the comparison after the last byte.
write_tensor_unchecked ==
    /\ At("copy")
    /\ Put([File EXCEPT !.planes[process.tensor] = source.content])
    /\ process' = [process EXCEPT !.at = "write", !.tensor = 0, !.pending = @ \union {process.tensor}]
    /\ UNCHANGED <<dir, created, source, crashes, cut>>
write_tensor_deferred ==
    /\ At("copy")
    /\ \/ /\ Unchanged
          /\ process' = [process EXCEPT !.at = "write", !.tensor = 0,
                                        !.pending = @ \union {process.tensor}]
          /\ UNCHANGED <<cached, durable, dir, created>>
       \/ ~Unchanged /\ Fails
    /\ UNCHANGED <<source, crashes, cut>>

\* commit_pending: payload, then descriptors, each synced.
CommitPayload ==
    /\ At("write") /\ BatchIsFull /\ process.pending # {} /\ Sync(Rank) /\ Goto("describe")
    /\ UNCHANGED <<source, dir, crashes, created>>
Undescribed == process.pending \ Completed(File)
CommitDescriptors ==
    /\ At("describe")
    /\ Put([File EXCEPT !.descriptors[Min(Undescribed)] = File.planes[Min(Undescribed)]])
    /\ Goto(IF Cardinality(Undescribed) = 1 THEN "commit" ELSE "describe")
    /\ UNCHANGED <<source, dir, crashes, created, cut>>
commit_pending ==
    /\ At("commit") /\ Sync(Rank)
    /\ process' = [process EXCEPT !.at = "write", !.completed = @ \union process.pending,
                                  !.pending = {}]
    /\ UNCHANGED <<source, dir, crashes, created>>
RankIsWritten ==
    /\ At("write") /\ process.completed = Tensors /\ process' = NextRank(process)
    /\ UNCHANGED <<source, cached, durable, dir, crashes, created, cut>>

\* The sources still have the fingerprints they were verified with.
revalidate_sources ==
    /\ At("revalidate")
    /\ \/ Unchanged /\ Goto("prepare") /\ UNCHANGED <<cached, durable, dir, created>>
       \/ ~Unchanged /\ Fails
    /\ UNCHANGED <<source, crashes, cut>>

-----------------------------------------------------------------------------
(* StreamingRankSet::publish                                               *)

\* Each rank in turn is opened, audited and its manifest sealed.
NextPrepared(p, file) ==
    LET q == [p EXCEPT !.summaries = [r \in DOMAIN @ \union {Rank} |->
                                        IF r = Rank THEN Summary(file) ELSE @[r]],
                       !.zero = IF file.header = <<>> THEN @ \union {Rank} ELSE @]
    IN  IF Rank + 1 \in Ranks THEN [q EXCEPT !.at = "prepare", !.rank = Rank + 1]
        ELSE [q EXCEPT !.at = IF p.auditing THEN "compare" ELSE "finalize", !.rank = 0]

\* verify_published opens the published files the same way and wants headers.
Opened == open_for_publication(File) /\ (process.auditing => File.header # <<>>)
prepare ==
    /\ At("prepare")
    /\ \/ /\ Opened /\ Sealed(File)
          /\ process' = NextPrepared(process, File)
          /\ UNCHANGED <<cached, durable, dir, created>>
       \/ /\ Opened /\ Unsealed(File)
          /\ Put(Seal(File)) /\ Goto("seal") /\ UNCHANGED <<dir, created>>
       \/ ~(Opened /\ (Sealed(File) \/ Unsealed(File))) /\ Fails
    /\ UNCHANGED <<source, crashes, cut>>
seal_output_payload_sha256 ==
    /\ At("seal") /\ Sync(Rank) /\ process' = NextPrepared(process, File)
    /\ UNCHANGED <<source, dir, crashes, created>>

\* Each rank in turn gets its header, or has it compared.
NextFinalized(p) ==
    IF Rank + 1 \in Ranks THEN [p EXCEPT !.at = "finalize", !.rank = Rank + 1]
    ELSE [p EXCEPT !.at = "sync_staging", !.rank = 0]
finalize_prepared ==
    /\ At("finalize")
    /\ \/ /\ Rank \in process.zero
          /\ Put([File EXCEPT !.header = final_header(Rank, process.summaries)])
          /\ Goto("header") /\ UNCHANGED <<dir, created>>
       \/ /\ Rank \notin process.zero /\ verify_final_header(Rank, process.summaries)
          /\ process' = NextFinalized(process) /\ UNCHANGED <<cached, durable, dir, created>>
       \/ Rank \notin process.zero /\ ~verify_final_header(Rank, process.summaries) /\ Fails
    /\ UNCHANGED <<source, crashes, cut>>
SyncHeader ==
    /\ At("header") /\ Sync(Rank) /\ process' = NextFinalized(process)
    /\ UNCHANGED <<source, dir, crashes, created>>

\* The entries of the staging directory, the rename, the entry of the final one.
RenameUnsynced ==
    At("sync_staging") /\ Goto("rename")
    /\ UNCHANGED <<source, cached, durable, dir, crashes, created, cut>>
SyncStaging ==
    /\ At("sync_staging")
    /\ durable' = [r \in Ranks |-> [durable[r] EXCEPT !.entry = cached[r].entry]]
    /\ Goto("rename")
    /\ UNCHANGED <<source, cached, dir, crashes, created, cut>>
rename_directory_no_replace ==
    /\ At("rename")
    /\ \/ dir.cached = "staging" /\ dir' = [dir EXCEPT !.cached = "final"] /\ Goto("publish")
          /\ UNCHANGED <<cached, durable, created>>
       \/ dir.cached = "final" /\ Fails
    /\ UNCHANGED <<source, crashes, cut>>
publish ==
    /\ At("publish") /\ dir' = [dir EXCEPT !.durable = dir.cached] /\ process' = Idle
    /\ UNCHANGED <<source, cached, durable, crashes, created, cut>>

\* verify_published ends with the comparison of every header, and reports.
verify_published ==
    /\ At("compare") /\ process' = Idle
    /\ UNCHANGED <<source, cached, durable, dir, crashes, created, cut>>

-----------------------------------------------------------------------------
(* Faults                                                                  *)

\* Somebody writes to the source files; the fingerprint has their change time.
Tamper ==
    /\ source.stamp < MaxChanges
    /\ process.at \in {"idle", "write", "copy", "revalidate"}     \* where the sources are looked at
    /\ source' = [content |-> IF source.content = PINNED THEN CHANGED ELSE PINNED,
                  stamp |-> source.stamp + 1]
    /\ UNCHANGED <<cached, durable, dir, process, crashes, created, cut>>

\* The process ends (a signal, an I/O error); the page cache stays.
Kill ==
    /\ "kill" \in Faults /\ ~At("idle") /\ crashes < MaxCrashes
    /\ crashes' = crashes + 1 /\ process' = Idle
    /\ cut' = [cut EXCEPT !.left = @ \union
                {r \in Ranks : [cached[r] EXCEPT !.entry = durable[r].entry] # durable[r]}]
    /\ UNCHANGED <<source, cached, durable, dir, created>>

\* What the disk may hold of a file after a power loss.
Survivors(rank) ==
    LET old == durable[rank]
        new == cached[rank]
        kept(u) == {old[u], new[u]}
        pieces(u) == {[t \in Tensors |-> IF t \in s THEN new[u][t] ELSE old[u][t]] :
                        s \in SUBSET {t \in Tensors : new[u][t] # old[u][t]}}
    IN  IF new = old THEN {old}
        ELSE [entry : kept("entry"), length : kept("length"), control : kept("control"),
              manifest : kept("manifest"), planes : pieces("planes"),
              descriptors : pieces("descriptors"), header : kept("header")]

PowerLoss ==
    /\ "power" \in Faults /\ crashes < MaxCrashes
    /\ \E name \in {dir.cached, dir.durable}, files \in [Ranks -> UNION {Survivors(r) : r \in Ranks}] :
        /\ \A r \in Ranks : files[r] \in Survivors(r)
        /\ dir' = [cached |-> name, durable |-> name]
        /\ cached' = [r \in Ranks |-> IF name # "absent" /\ files[r].entry THEN files[r] ELSE NoFile]
        /\ durable' = cached'
        /\ created' = {r \in created : cached'[r].entry}
        /\ cut' = [left |-> {}, lost |-> {r \in cut.left \union cut.lost : cached'[r].entry}]
    /\ crashes' = crashes + 1 /\ process' = Idle
    /\ UNCHANGED source

-----------------------------------------------------------------------------
FilesInit ==
    /\ source = [content |-> PINNED, stamp |-> 0]
    /\ cached = [r \in Ranks |-> NoFile] /\ durable = cached
    /\ dir = [cached |-> "absent", durable |-> "absent"]
    /\ process = Idle /\ crashes = 0 /\ created = {} /\ cut = [left |-> {}, lost |-> {}]

FilesNext ==
    \/ Verify \/ MakeStaging \/ SyncParent \/ open_rank_writer
    \/ CreateFile \/ SetLength \/ WriteManifest \/ WriteControl \/ SyncCreated
    \/ BeginCopy \/ write_tensor_deferred
    \/ CommitPayload \/ CommitDescriptors \/ commit_pending \/ RankIsWritten
    \/ revalidate_sources \/ prepare \/ seal_output_payload_sha256
    \/ finalize_prepared \/ SyncHeader \/ SyncStaging
    \/ rename_directory_no_replace \/ publish \/ verify_published
    \/ Tamper \/ Kill \/ PowerLoss

FilesSpec == FilesInit /\ [][FilesNext]_filesVars

-----------------------------------------------------------------------------
(* Properties                                                              *)

\* A directory at the final path, in the cache or on the disk, holds a file of
\* every rank that a reader accepts, all of one conversion and with the pinned
\* source's bytes, however often the converter was stopped or lost power and
\* whatever happened to the sources meanwhile.  Not covered are files a killed
\* converter left unsynced and a later one found complete: it compares their
\* headers and publishes them without a sync.
PublishedSetIsComplete ==
    "final" \in {dir.cached, dir.durable} =>
        LET synced == Ranks \ (cut.left \union cut.lost)
        IN  \A r \in synced :
                /\ Readable(cached[r]) /\ Readable(durable[r])
                /\ \A t \in Tensors : cached[r].planes[t] = PINNED
                /\ \A s \in synced : cached[r].header[2][s] = Summary(cached[s])

\* A staged file stays one that the next converter opens and can complete: a
\* nonzero descriptor has its tensor's pinned bytes behind it, the slot of the
\* manifest is empty or right, and a header is the one publication will want.
Resumable(file) ==
    /\ verify_body(file)
    /\ \A t \in Completed(file) : file.planes[t] = PINNED
    /\ Sealed(file) \/ Unsealed(file)
    /\ file.header # <<>> => Completed(file) = Tensors /\ file.header[1] = Summary(Seal(file))

\* Between two converters, whatever ended the last one, every file whose
\* creation was once synced can be taken up where it was left (but for a power
\* loss that hit bytes an earlier, killed converter had left unsynced).
ConversionResumes ==
    At("idle") => \A r \in created \ cut.lost : cached[r].entry => Resumable(cached[r])

\* docs/checkpoint-ingest.md: "Restart handles incomplete rank bodies": no end
\* of a converter leaves a file that open_rank_writer refuses for ever.
RestartHandlesIncompleteBodies == At("idle") => \A r \in Ranks : cached[r].entry => Resumable(cached[r])
=============================================================================
