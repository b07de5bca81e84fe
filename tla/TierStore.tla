------------------------------ MODULE TierStore ------------------------------
(***************************************************************************)
(* The durable prefix store: glm-cache/src/store.rs over the journal of    *)
(* glm-cache/src/tier.rs.                                                  *)
(*                                                                         *)
(* Two append-only files.  A publication appends Begin to the journal,     *)
(* writes the pieces to the data file, appends one PieceDurable for each   *)
(* and then Publish, with a sync after every append and after the data.    *)
(* What was written and not synced is visible to whoever opens the files   *)
(* next, and may be lost when the machine stops.  Any error after the      *)
(* first append poisons the writer; only a reopened store writes again.    *)
(***************************************************************************)
EXTENDS Integers, Sequences, FiniteSets

CONSTANTS
    Keys,              \* page keys
    Contents,          \* what a piece can hold, up to its SHA-256
    Generations,
    Requests,          \* the DurablePageRequest values callers publish
    Readers,           \* FileTierReader instances
    expected_bytes,    \* bytes of each TierPiece
    ALIGNMENT,         \* NVME_ALIGNMENT
    MAX_TRANSACTIONS,  \* bound on the transactions of a behaviour
    NONE

TierPiece == {"TargetKv", "TargetIndexer", "DraftSidecar"}

ASSUME StoreAssumption ==
    /\ expected_bytes \in [TierPiece -> Nat \ {0}]
    /\ ALIGNMENT \in Nat \ {0}
    /\ MAX_TRANSACTIONS \in Nat
    /\ Generations \subseteq Nat \ {0}
    /\ NONE \notin Contents
    /\ Requests \subseteq [page_key: Keys, generation: Generations, mtp: BOOLEAN,
                            target: Contents, draft: Contents \cup {NONE}]
    /\ \A request \in Requests : request.mtp <=> request.draft # NONE

VARIABLES
    journal,          \* whole records of journal.log
    journal_durable,  \* how many of them would survive a power loss
    torn,             \* a partial record follows them
    data,             \* bytes of pages.dat, from offset 0
    data_durable,     \* what would survive of them
    writer,           \* the open FileTierStore, or NONE
    readers,          \* the catalogs open readers hold, or NONE
    acknowledged      \* history: what publish returned Ok for

vars == <<journal, journal_durable, torn, data, data_durable, writer, readers,
          acknowledged>>

files == <<journal, journal_durable, torn, data, data_durable>>

-----------------------------------------------------------------------------
(* Records.                                                                *)

align_up(value) == ((value + ALIGNMENT - 1) \div ALIGNMENT) * ALIGNMENT

required(mtp) == IF mtp THEN <<"TargetKv", "TargetIndexer", "DraftSidecar">>
                        ELSE <<"TargetKv", "TargetIndexer">>

\* Mutant: the last block of what was written is used again.
PieceOffsetsPacked(mtp, start) ==
    LET offset[i \in 1..Len(required(mtp))] ==
          IF i = 1 THEN IF start = 0 THEN 0 ELSE start - ALIGNMENT
          ELSE align_up(offset[i - 1] + expected_bytes[required(mtp)[i - 1]])
    IN  offset

PieceOffsets(mtp, start) ==
    LET offset[i \in 1..Len(required(mtp))] ==
          align_up(IF i = 1 THEN start
                   ELSE offset[i - 1] + expected_bytes[required(mtp)[i - 1]])
    IN  offset

\* The TierRecord for a request whose pieces go after start.
RecordOf(request, start) ==
    [page_key |-> request.page_key, generation |-> request.generation,
     mtp |-> request.mtp,
     pieces |-> [i \in 1..Len(required(request.mtp)) |->
       [piece |-> required(request.mtp)[i],
        storage_offset |-> PieceOffsets(request.mtp, start)[i],
        sha256 |-> IF required(request.mtp)[i] = "DraftSidecar"
                   THEN request.draft ELSE request.target]]]

PiecesOf(record) == {record.pieces[i] : i \in DOMAIN record.pieces}

EndOf(piece) == piece.storage_offset + expected_bytes[piece.piece]

EndOfRecord(record) == EndOf(record.pieces[Len(record.pieces)])

Overlap(p, q) == p.storage_offset < EndOf(q) /\ q.storage_offset < EndOf(p)

validate(record) ==
    /\ Len(record.pieces) = Len(required(record.mtp))
    /\ \A i, j \in DOMAIN record.pieces :
         /\ record.pieces[i].piece \in {required(record.mtp)[k] : k \in DOMAIN record.pieces}
         /\ record.pieces[i].storage_offset % ALIGNMENT = 0
         /\ i # j => /\ record.pieces[i].piece # record.pieces[j].piece
                     /\ ~Overlap(record.pieces[i], record.pieces[j])

logical_piece_identity(record, piece) ==
    {record.pieces[i].sha256 : i \in {i \in DOMAIN record.pieces :
                                        record.pieces[i].piece = piece}}

\* Mutant: a draft may come with another target.
relation_to_any_target(existing, candidate) ==
    IF ~existing.mtp /\ candidate.mtp THEN "MtpUpgrade"
    ELSE IF existing.mtp /\ ~candidate.mtp THEN "RetainMtp"
    ELSE "ExactDedup"

relation_to(existing, candidate) ==
    LET same(piece) == logical_piece_identity(existing, piece) =
                         logical_piece_identity(candidate, piece)
    IN  IF \/ existing.page_key # candidate.page_key
           \/ ~same("TargetKv") \/ ~same("TargetIndexer")
           \/ existing.mtp /\ candidate.mtp /\ ~same("DraftSidecar")
        THEN "Collision"
        ELSE IF ~existing.mtp /\ candidate.mtp THEN "MtpUpgrade"
        ELSE IF existing.mtp /\ ~candidate.mtp THEN "RetainMtp"
        ELSE "ExactDedup"

-----------------------------------------------------------------------------
(* The journal: its events and their replay.                               *)

Begin(transaction, record) ==
    [type |-> "Begin", transaction |-> transaction, record |-> record]

PieceDurable(transaction, piece) ==
    [type |-> "PieceDurable", transaction |-> transaction, piece |-> piece]

Publish(transaction) == [type |-> "Publish", transaction |-> transaction]

Transactions(events) == {events[i].transaction : i \in DOMAIN events}

BegunRecord(events, transaction) ==
    events[CHOOSE i \in DOMAIN events :
             events[i].type = "Begin" /\ events[i].transaction = transaction].record

DurablePieces(events, transaction) ==
    {events[i].piece : i \in {i \in DOMAIN events : /\ events[i].type = "PieceDurable"
                                                    /\ events[i].transaction = transaction}}

Published(events) ==
    {events[i].transaction : i \in {i \in DOMAIN events : events[i].type = "Publish"}}

\* Transactions start with Begin, one after the other.
decode_journal(events) ==
    \A i \in DOMAIN events :
        IF i = 1 \/ events[i].transaction # events[i - 1].transaction
        THEN /\ events[i].type = "Begin"
             /\ events[i].transaction = (IF i = 1 THEN 1 ELSE events[i - 1].transaction + 1)
        ELSE events[i].type # "Begin"

\* The catalogs after each number of transactions: the first record published
\* for a key, until one with a draft replaces it.
Replay(events) ==
    LET catalog[n \in 0..Cardinality(Transactions(events))] ==
          IF n = 0 THEN [key \in Keys |-> NONE]
          ELSE IF n \notin Published(events) THEN catalog[n - 1]
          ELSE LET record == BegunRecord(events, n)
                   existing == catalog[n - 1][record.page_key]
               IN  IF existing = NONE \/ relation_to(existing, record) = "MtpUpgrade"
                   THEN [catalog[n - 1] EXCEPT ![record.page_key] = record]
                   ELSE catalog[n - 1]
    IN  catalog

recover(events) == Replay(events)[Cardinality(Transactions(events))]

\* What from_events and recover accept.
replays(events) ==
    /\ decode_journal(events)
    /\ \A i \in DOMAIN events : events[i].type = "Begin" => validate(events[i].record)
    /\ \A i, j \in DOMAIN events :
         i < j /\ events[i].transaction = events[j].transaction =>
           events[i].type # "Publish" /\ events[i] # events[j]
    /\ \A t \in Published(events) :
         LET record == BegunRecord(events, t)
             existing == Replay(events)[t - 1][record.page_key]
             relation == IF existing = NONE THEN "New" ELSE relation_to(existing, record)
         IN  /\ DurablePieces(events, t) = {p.piece : p \in PiecesOf(record)}
             /\ \/ relation \in {"New", "ExactDedup", "RetainMtp"}
                \/ relation = "MtpUpgrade" /\ existing.generation < record.generation

Extents(catalog) ==
    UNION {PiecesOf(catalog[key]) : key \in {key \in Keys : catalog[key] # NONE}}

validate_catalog_extents(catalog, bytes) ==
    /\ \A p \in Extents(catalog) : EndOf(p) <= bytes
    /\ \A p, q \in Extents(catalog) : p # q => ~Overlap(p, q)

validate_journal_data_presence(events, bytes) == events = <<>> => bytes = 0

\* Both constructors: they take the lock, replay and validate.
CanOpen ==
    /\ replays(journal)
    /\ validate_journal_data_presence(journal, Len(data))
    /\ validate_catalog_extents(recover(journal), Len(data))

-----------------------------------------------------------------------------
(* The data file.  A byte holds the content it is of and where that began. *)

Byte(piece) == <<piece.sha256, piece.storage_offset>>

HOLE == <<NONE, 0>>

\* The file after the given pieces have been written, at least to length.
WriteAll(bytes, pieces, length) ==
    [o \in 1..length |->
        LET on == {p \in pieces : p.storage_offset < o /\ o <= EndOf(p)}
        IN  IF on # {} THEN Byte(CHOOSE p \in on : TRUE)
            ELSE IF o <= Len(bytes) THEN bytes[o] ELSE HOLE]

Reads(bytes, piece) ==
    /\ EndOf(piece) <= Len(bytes)
    /\ \A o \in (piece.storage_offset + 1)..EndOf(piece) : bytes[o] = Byte(piece)

\* restore_published reads every piece and compares its digest.
restore_published(bytes, record) == \A p \in PiecesOf(record) : Reads(bytes, p)

-----------------------------------------------------------------------------
(* FileTierStore.  todo lists what is left of the publication in progress; *)
(* appended says that its first entry is written and not yet synced.       *)

Idle == [record |-> NONE, todo |-> <<>>, appended |-> FALSE]

DATA == [type |-> "Data"]

Todo(transaction, record) ==
    <<Begin(transaction, record), DATA>>
      \o [i \in 1..Len(record.pieces) |-> PieceDurable(transaction, record.pieces[i].piece)]
      \o <<Publish(transaction)>>

Init ==
    /\ journal = <<>> /\ journal_durable = 0 /\ torn = FALSE
    /\ data = <<>> /\ data_durable = <<>>
    /\ writer = NONE
    /\ readers = [r \in Readers |-> NONE]
    /\ acknowledged = {}

\* Never reuse bytes of a crash orphan.
AfterOrphans(bytes) == align_up(Len(bytes))

\* A torn tail is cut off and the cut is synced, which makes what remains durable.
Open ==
    /\ writer = NONE
    /\ CanOpen
    /\ writer' = [published |-> recover(journal),
                  next_transaction |-> Cardinality(Transactions(journal)) + 1,
                  next_data_offset |-> AfterOrphans(data),
                  write_poisoned |-> FALSE, publication |-> Idle]
    /\ torn' = FALSE
    /\ journal_durable' = IF torn THEN Len(journal) ELSE journal_durable
    /\ UNCHANGED <<journal, data, data_durable, readers, acknowledged>>

\* The cut succeeds and its sync does not: open returns the error.
OpenFailsToSync ==
    /\ writer = NONE
    /\ CanOpen
    /\ torn
    /\ torn' = FALSE
    /\ UNCHANGED <<journal, journal_durable, data, data_durable, writer, readers,
                   acknowledged>>

Usable(w) == ~w.write_poisoned /\ w.publication = Idle

\* publish_inner up to its first write: the record is known already, or its
\* publication starts.  Collisions and stale generations are errors without effect.
PublishInner(request) ==
    LET record == RecordOf(request, writer.next_data_offset)
        existing == writer.published[request.page_key]
        relation == IF existing = NONE THEN "New" ELSE relation_to(existing, record)
    IN  /\ writer # NONE
        /\ Usable(writer)
        /\ validate(record)
        /\ \/ /\ relation \in {"ExactDedup", "RetainMtp"}
              /\ acknowledged' = acknowledged \cup {[record |-> existing, wrote |-> FALSE]}
              /\ UNCHANGED writer
           \/ /\ \/ relation = "New"
                 \/ relation = "MtpUpgrade" /\ existing.generation < record.generation
              /\ writer.next_transaction <= MAX_TRANSACTIONS
              /\ writer' = [writer EXCEPT
                   !.next_transaction = @ + 1,
                   !.publication = [record |-> record, appended |-> FALSE,
                                    todo |-> Todo(writer.next_transaction, record)]]
              /\ UNCHANGED acknowledged
        /\ UNCHANGED <<files, readers>>

Writing == writer # NONE /\ writer.publication # Idle

\* Records are cut every 512 bytes: one appended behind a torn one is not read back.
Appended(event) == IF torn THEN [type |-> "Corrupt", transaction |-> 0] ELSE event

\* append_journal_record, or the writes of all pieces.
Write ==
    LET publication == writer.publication
        step == Head(publication.todo)
        pieces == PiecesOf(publication.record)
    IN  /\ Writing
        /\ ~publication.appended
        /\ writer' = [writer EXCEPT !.publication.appended = TRUE]
        /\ IF step = DATA
           THEN /\ data' = WriteAll(data, pieces,
                             LET end == EndOfRecord(publication.record)
                             IN  IF end < Len(data) THEN Len(data) ELSE end)
                /\ UNCHANGED journal
           ELSE journal' = Append(journal, Appended(step)) /\ UNCHANGED data
        /\ UNCHANGED <<journal_durable, torn, data_durable, readers, acknowledged>>

\* Mutant: the last sync is left out.
SyncsJournalButPublish(step) == step.type \in {"Begin", "PieceDurable"}

SyncsJournal(step) == step.type # "Data"

\* sync_data; after the last one publish returns Ok.
Sync ==
    LET publication == writer.publication
        record == publication.record
        last == Len(publication.todo) = 1
    IN  /\ Writing
        /\ publication.appended
        /\ journal_durable' = IF SyncsJournal(Head(publication.todo))
                              THEN Len(journal) ELSE journal_durable
        /\ data_durable' = IF Head(publication.todo) = DATA THEN data ELSE data_durable
        /\ IF last
           THEN /\ writer' = [writer EXCEPT
                     !.publication = Idle,
                     !.next_data_offset = align_up(EndOfRecord(record)),
                     !.published[record.page_key] = record]
                /\ acknowledged' = acknowledged \cup {[record |-> record, wrote |-> TRUE]}
           ELSE /\ writer' = [writer EXCEPT !.publication.todo = Tail(@),
                                            !.publication.appended = FALSE]
                /\ UNCHANGED acknowledged
        /\ UNCHANGED <<journal, torn, data, readers>>

Poisoned(w) == [w EXCEPT !.publication = Idle, !.write_poisoned = TRUE]

\* A write or a sync fails.  An append may have written part of its record; of
\* the pieces any may be in the file.
WriteFails ==
    LET publication == writer.publication
    IN  /\ Writing
        /\ writer' = Poisoned(writer)
        /\ \/ UNCHANGED <<data, torn>>
           \/ /\ ~publication.appended
              /\ Head(publication.todo) # DATA
              /\ torn' = TRUE
              /\ UNCHANGED data
           \/ /\ ~publication.appended
              /\ Head(publication.todo) = DATA
              /\ \E i \in DOMAIN publication.record.pieces :
                   data' = WriteAll(data, {publication.record.pieces[j] : j \in 1..i},
                                    EndOf(publication.record.pieces[i]))
              /\ UNCHANGED torn
        /\ UNCHANGED <<journal, journal_durable, data_durable, readers, acknowledged>>

\* The process ends, at any point, and with it the writer's lock.
CloseWriter ==
    /\ writer # NONE
    /\ writer' = NONE
    /\ UNCHANGED <<files, readers, acknowledged>>

\* The machine stops.  Unsynced records survive up to some point, the last one
\* perhaps in part; unsynced pieces survive or leave holes.
PowerLoss ==
    /\ journal_durable < Len(journal) \/ data # data_durable \/ Writing
    /\ \E n \in journal_durable..Len(journal) :
         /\ journal' = SubSeq(journal, 1, n)
         /\ journal_durable' = n
         /\ torn' \in IF n < Len(journal) \/ torn THEN BOOLEAN ELSE {FALSE}
    /\ \E length \in {Len(data_durable), Len(data)} :
         data' \in {SubSeq(data, 1, length),
                    [o \in 1..length |-> IF o <= Len(data_durable)
                                         THEN data_durable[o] ELSE HOLE]}
    /\ data_durable' = data'
    /\ writer' = NONE
    /\ readers' = [r \in Readers |-> NONE]
    /\ UNCHANGED acknowledged

\* A reader opens only while no writer holds the lock; it keeps its catalog and
\* reads the data file while later writers append to it.
OpenReader(r) ==
    /\ writer = NONE
    /\ readers[r] = NONE
    /\ journal # <<>>
    /\ CanOpen
    /\ readers' = [readers EXCEPT ![r] = recover(journal)]
    /\ UNCHANGED <<files, writer, acknowledged>>

Next ==
    \/ Open
    \/ OpenFailsToSync
    \/ \E request \in Requests : PublishInner(request)
    \/ Write
    \/ Sync
    \/ WriteFails
    \/ CloseWriter
    \/ PowerLoss
    \/ \E r \in Readers : OpenReader(r)

Spec == Init /\ [][Next]_vars

-----------------------------------------------------------------------------
(* Properties.                                                             *)

Catalog(c) == \A key \in Keys : c[key] # NONE => c[key].page_key = key

\* Whatever failed or crashed before, the store can be opened again: replay and
\* the validation of extents accept what is on disk.
StoreCanBeReopened == writer = NONE => CanOpen

\* Every record in the catalog of the writer or of a reader is restored with the
\* bytes it was published with: no extent is ever written again.
CatalogsRestore ==
    /\ writer # NONE => \A key \in Keys : writer.published[key] # NONE =>
                           restore_published(data, writer.published[key])
    /\ \A r \in Readers : readers[r] # NONE =>
         \A key \in Keys : readers[r][key] # NONE => restore_published(data, readers[r][key])

\* Whatever stopped the last writer, in the middle of a record or a page, the
\* store opens again, and everything a catalog names can be read.
StoreCanBeRead == StoreCanBeReopened /\ CatalogsRestore

Holds(catalog, record) ==
    /\ catalog[record.page_key] # NONE
    /\ relation_to(catalog[record.page_key], record) \in {"ExactDedup", "RetainMtp"}

DurableJournal == SubSeq(journal, 1, journal_durable)

\* A page that publish wrote and returned Ok for would survive a power loss now,
\* with its bytes.  The Ok for a duplicate is not in this: open trusts records
\* that a killed writer left unsynced, and the duplicate syncs nothing.
WrittenPagesAreDurable ==
    LET durable == recover(DurableJournal)
    IN  \A a \in acknowledged : a.wrote =>
          /\ Holds(durable, a.record)
          /\ restore_published(data_durable, durable[a.record.page_key])

PageOf(record) ==
    [generation |-> record.generation,
     target |-> record.pieces[1].sha256,
     draft |-> IF record.mtp THEN record.pieces[3].sha256 ELSE NONE]

Promise == INSTANCE DurableCatalog WITH
    catalog <- LET durable == recover(DurableJournal)
               IN  [key \in Keys |-> IF durable[key] = NONE THEN NONE
                                     ELSE PageOf(durable[key])]

\* The journal implements the catalog: through failures, crashes and power
\* losses the durable catalog only gains pages and drafts.
ImplementsDurableCatalog == Promise!Spec
=============================================================================
