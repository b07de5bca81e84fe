---------------------------- MODULE PrefixRestore ----------------------------
(***************************************************************************)
(* The PrefixRestoreCoordinator (glm-serving/src/cache.rs) over the prefix *)
(* index (glm-cache/src/prefix.rs), the four ranks' residency managers and *)
(* their restore workers.  A request takes its longest registered prefix:  *)
(* resident pages are pinned, the others are read by the owning rank's     *)
(* worker while the coordinator is polled, and when every page is pinned   *)
(* the request holds a lease until it releases it.  Any failure undoes     *)
(* what the request holds.                                                 *)
(*                                                                         *)
(* The coordinator's operations are steps of one thread; the workers run   *)
(* between them.  references of a PrefixPage is never read by a decision   *)
(* and is left out.                                                        *)
(***************************************************************************)
EXTENDS Residency

CONSTANTS
    RequestIds,
    Prompts,     \* sequences of page contents
    Batches,     \* [tokens, records] that may be registered
    Catalogs     \* what the ranks' readers may have found in the store

ASSUME PromptAssumption ==
    \A prompt \in Prompts \cup {batch.tokens : batch \in Batches} : \A n \in 1..Len(prompt) : SubSeq(prompt, 1, n) \in PageKeys

VARIABLES
    index,      \* the record of every registered page
    ranks,      \* a ResidencyManager for each rank
    services,   \* a RestoreService for each rank
    published,  \* the catalog the readers opened
    pending,    \* restores in progress, by request
    leases      \* the RestoredPrefix a client holds, by request

vars == <<index, ranks, services, published, pending, leases>>

RankOf(key) == owner_rank(Ordinal(key))

KeysOf(tokens) == [n \in 1..Len(tokens) |-> SubSeq(tokens, 1, n)]

Init ==
    /\ index = [key \in PageKeys |-> NONE]
    /\ ranks = [r \in Ranks |-> NewManager]
    /\ services = [r \in Ranks |-> NewService]
    /\ published \in Catalogs
    /\ pending = [id \in RequestIds |-> NONE]
    /\ leases = [id \in RequestIds |-> NONE]

-----------------------------------------------------------------------------
(* Registration: the index and the ranks change together or not at all.    *)

\* The index after PrefixIndex::insert of a batch of consecutive pages.
CanInsert(batch) ==
    \A key \in DOMAIN batch :
      IF index[key] = NONE THEN TRUE
      ELSE \/ relation_to(index[key], batch[key]) # "MtpUpgrade"
           \/ batch[key].generation > index[key].generation

insert(batch) ==
    [key \in PageKeys |->
       IF key \notin DOMAIN batch THEN index[key]
       ELSE IF index[key] = NONE THEN batch[key]
       ELSE IF relation_to(index[key], batch[key]) = "MtpUpgrade" THEN batch[key]
       ELSE index[key]]

register_prefix(tokens, records) ==
    LET keys     == Range(KeysOf(tokens))
        batch    == [key \in keys |-> records[Len(key)]]
        inserted == insert(batch)
        changed  == {key \in keys : inserted[key] # index[key]}
        updates  == [r \in Ranks |-> Restrict(inserted, {key \in changed : RankOf(key) = r})]
    IN  /\ CanInsert(batch)
        /\ \A key \in keys :
             IF index[key] = NONE THEN ~Known(ranks[RankOf(key)], key)
             ELSE ranks[RankOf(key)].entries[key].record = index[key]
        /\ \A r \in Ranks : CanRegister(ranks[r], updates[r])
        /\ ranks' = [r \in Ranks |-> commit_nvme_registrations(ranks[r], updates[r])]
        /\ index' = inserted
        /\ UNCHANGED <<services, published, pending, leases>>

-----------------------------------------------------------------------------
(* Undoing what a restore holds.  c is the coordinator's mutable state     *)
(* [ranks, services, pages] while a call is running.                       *)

Page(key, attachment, state, handle) ==
    [key |-> key, attachment |-> attachment, state |-> state, handle |-> handle,
     answer |-> NONE]

InState(pages, states) == {pages[i].key : i \in {i \in DOMAIN pages : pages[i].state \in states}}

CanRollback(rs, id, pages) ==
    /\ \A key \in InState(pages, {"Pinned"}) : validate_unpin_count(rs[RankOf(key)], key, 1)
    /\ \A key \in InState(pages, {"RestoreReserved", "Restoring"}) :
         validate_abort_restore_identity(rs[RankOf(key)], key, id)

\* Mutant: reads in flight stay reserved.
commit_pending_rollback_pins(rs, pages) ==
    [r \in Ranks |->
       FoldSet(LAMBDA key, m : unpin_count(m, key, 1), rs[r],
               {key \in InState(pages, {"Pinned"}) : RankOf(key) = r})]

commit_pending_rollback(rs, pages) ==
    [r \in Ranks |->
       FoldSet(LAMBDA key, m : abort_restore_identity(m, key),
         FoldSet(LAMBDA key, m : unpin_count(m, key, 1), rs[r],
                 {key \in InState(pages, {"Pinned"}) : RankOf(key) = r}),
         {key \in InState(pages, {"RestoreReserved", "Restoring"}) : RankOf(key) = r})]

\* rollback_pending: an error leaves everything as it is.
rollback_pending(rs, id, pages) ==
    IF CanRollback(rs, id, pages) THEN commit_pending_rollback(rs, pages) ELSE rs

-----------------------------------------------------------------------------
(* Beginning a restore, one page after the other.                          *)

longest_match(tokens, require_draft) ==
    LET matches(n) == \A k \in 1..n :
          IF index[SubSeq(tokens, 1, k)] = NONE THEN FALSE
          ELSE require_draft => index[SubSeq(tokens, 1, k)].mtp
    IN  Max({n \in 0..Len(tokens) : matches(n)})

HandlesInUse(ss, pages) ==
    {p.handle : p \in Range(pages) \cup
       UNION {Range(pending[id]) : id \in {id \in RequestIds : pending[id] # NONE}}}
    \cup UNION {{command.handle : command \in Range(ss[r].queue)} : r \in Ranks}
    \cup {ss[r].running.command.handle : r \in {r \in Ranks : ss[r].running # NONE}}

NewHandle(ss, pages) ==
    LET used == HandlesInUse(ss, pages)
    IN  CHOOSE h \in 1..(Cardinality(used) + 1) :
          h \notin used /\ \A g \in 1..(h - 1) : g \in used

\* One turn of the loop over the matched pages; reserved marks a page whose
\* read could not be submitted.
BeginPage(c, id, key) ==
    LET r       == RankOf(key)
        m       == c.ranks[r]
        pinned(mm) == IF mm = Failed THEN Failed ELSE pin_hbm(mm, key)
        holds(mm)  ==
          IF mm = Failed THEN [c EXCEPT !.error = TRUE]
          ELSE [c EXCEPT !.ranks[r] = mm,
                         !.pages = Append(@, Page(key, index[key], "Pinned", 0))]
        command == [page_key |-> key, minimum_generation |-> m.entries[key].record.generation,
                    handle |-> NewHandle(c.services, c.pages)]
    IN  CASE location(m, key) = "Hbm"  -> holds(pinned(m))
          [] location(m, key) = "Dram" -> holds(pinned(promote_dram(m, key)))
          [] location(m, key) = "Nvme" ->
               LET mm == begin_restore(m, id, key)
               IN  IF mm = Failed THEN [c EXCEPT !.error = TRUE]
                   ELSE IF ~CanSubmit(c.services[r])
                   THEN [c EXCEPT !.ranks[r] = mm, !.error = TRUE, !.reserved = TRUE,
                                  !.pages = Append(@, Page(key, index[key], "RestoreReserved", 0))]
                   ELSE [c EXCEPT !.ranks[r] = mm,
                                  !.services[r] = try_submit(@, command),
                                  !.pages = Append(@, Page(key, index[key], "Restoring",
                                                           command.handle))]
          [] OTHER -> [c EXCEPT !.error = TRUE]

\* matched is what the index offers: n pages of the prompt.
BeginPages(id, tokens, matched) ==
    LET after[n \in 0..matched] ==
          IF n = 0
          THEN [ranks |-> ranks, services |-> services, pages |-> <<>>,
                error |-> FALSE, reserved |-> FALSE]
          ELSE LET c == after[n - 1]
               IN  IF c.error THEN c ELSE BeginPage(c, id, SubSeq(tokens, 1, n))
    IN  after[matched]

Ready(pages) == \A i \in DOMAIN pages : pages[i].state = "Pinned"

Prefix(pages) == [i \in DOMAIN pages |-> [key |-> pages[i].key, attachment |-> pages[i].attachment]]

begin_restore_longest(id, tokens, require_draft) ==
    /\ pending[id] = NONE
    /\ leases[id] = NONE
    /\ \E c \in {BeginPages(id, tokens, longest_match(tokens, require_draft))} :
         /\ services' = c.services
         /\ \/ /\ ~c.error
               /\ ranks' = c.ranks
               /\ IF Ready(c.pages)
                  THEN leases' = [leases EXCEPT ![id] = Prefix(c.pages)] /\ UNCHANGED pending
                  ELSE pending' = [pending EXCEPT ![id] = c.pages] /\ UNCHANGED leases
            \/ /\ c.error
               /\ ranks' = rollback_pending(c.ranks, id, c.pages)
               /\ pending' = IF c.reserved /\ ~CanRollback(c.ranks, id, c.pages)
                             THEN [pending EXCEPT ![id] = c.pages] ELSE pending
               /\ UNCHANGED leases
    /\ UNCHANGED <<index, published>>

-----------------------------------------------------------------------------
(* Polling: every answer that has come is applied, in page order.          *)

PollPage(c, id, i) ==
    LET page == c.pages[i]
        r    == RankOf(page.key)
        m    == IF page.answer \in Records
                THEN complete_restore(c.ranks[r], page.key, id, page.answer) ELSE Failed
    IN  CASE page.state # "Restoring" \/ page.answer = NONE -> c
          [] page.state = "Restoring" /\ page.answer # NONE /\ m = Failed ->
               [c EXCEPT !.error = TRUE]
          [] OTHER ->
               LET pinned == pin_hbm(m, page.key)
               IN  IF pinned = Failed
                   THEN [c EXCEPT !.ranks[r] = m, !.pages[i].state = "Resident", !.error = TRUE]
                   ELSE [c EXCEPT !.ranks[r] = pinned,
                                  !.pages[i] = Page(page.key, page.attachment, "Pinned", 0)]

PollPages(id) ==
    LET pages == pending[id]
        after[i \in 0..Len(pages)] ==
          IF i = 0
          THEN [ranks |-> ranks, pages |-> pages,
                error |-> InState(pages, {"RestoreReserved"}) # {}]
          ELSE LET c == after[i - 1] IN IF c.error THEN c ELSE PollPage(c, id, i)
    IN  after[Len(pages)]

AfterFailedPoll(id, c) == rollback_pending(c.ranks, id, c.pages)

poll_restore(id) ==
    /\ pending[id] # NONE
    /\ \E c \in {PollPages(id)} :
           \/ /\ ~c.error
              /\ ranks' = c.ranks
              /\ IF Ready(c.pages)
                 THEN /\ leases' = [leases EXCEPT ![id] = Prefix(c.pages)]
                      /\ pending' = [pending EXCEPT ![id] = NONE]
                 ELSE pending' = [pending EXCEPT ![id] = c.pages] /\ UNCHANGED leases
           \/ /\ c.error
              /\ ranks' = AfterFailedPoll(id, c)
              /\ pending' = [pending EXCEPT ![id] =
                   IF CanRollback(c.ranks, id, c.pages) THEN NONE ELSE c.pages]
              /\ UNCHANGED leases
    /\ UNCHANGED <<index, services, published>>

cancel_restore(id) ==
    /\ pending[id] # NONE
    /\ CanRollback(ranks, id, pending[id])
    /\ ranks' = commit_pending_rollback(ranks, pending[id])
    /\ pending' = [pending EXCEPT ![id] = NONE]
    /\ UNCHANGED <<index, services, published, leases>>

\* A lease names every key once, so each is unpinned once.
release(id) ==
    /\ leases[id] # NONE
    /\ \A page \in Range(leases[id]) : validate_unpin_count(ranks[RankOf(page.key)], page.key, 1)
    /\ ranks' = [r \in Ranks |->
         FoldSet(LAMBDA key, m : unpin_count(m, key, 1), ranks[r],
                 {page.key : page \in {p \in Range(leases[id]) : RankOf(p.key) = r}})]
    /\ leases' = [leases EXCEPT ![id] = NONE]
    /\ UNCHANGED <<index, services, published, pending>>

-----------------------------------------------------------------------------
(* The rank's restore worker.                                              *)

WorkerReceives(r) ==
    /\ CanReceive(services[r])
    /\ services' = [services EXCEPT ![r] = receive(@)]
    /\ UNCHANGED <<index, ranks, published, pending, leases>>

\* The read may also fail with an I/O or checksum error.
WorkerRestores(r) ==
    /\ services[r].running # NONE
    /\ services[r].running.result = NONE
    /\ \E result \in {restore_one(published, services[r].running.command), ReadError} :
         services' = [services EXCEPT ![r] = Finish(@, result)]
    /\ UNCHANGED <<index, ranks, published, pending, leases>>

\* The answer of an abandoned handle is dropped.
WorkerAnswers(r) ==
    /\ services[r].running # NONE
    /\ services[r].running.result # NONE
    /\ LET handle == services[r].running.command.handle
       IN  pending' = [id \in RequestIds |->
             IF pending[id] = NONE THEN NONE
             ELSE [i \in DOMAIN pending[id] |->
                     IF pending[id][i].handle = handle
                     THEN [pending[id][i] EXCEPT !.answer = services[r].running.result]
                     ELSE pending[id][i]]]
    /\ services' = [services EXCEPT ![r] = Answered(@)]
    /\ UNCHANGED <<index, ranks, published, leases>>

Next ==
    \/ \E batch \in Batches : register_prefix(batch.tokens, batch.records)
    \/ \E id \in RequestIds, tokens \in Prompts, require_draft \in BOOLEAN :
         begin_restore_longest(id, tokens, require_draft)
    \/ \E id \in RequestIds : poll_restore(id) \/ cancel_restore(id) \/ release(id)
    \/ \E r \in Ranks : WorkerReceives(r) \/ WorkerRestores(r) \/ WorkerAnswers(r)

\* The runtime polls every pending admission in each turn of its loop, and
\* the workers are threads that block only on an empty queue.
Fairness ==
    /\ \A id \in RequestIds : WF_vars(poll_restore(id))
    /\ \A r \in Ranks : WF_vars(WorkerReceives(r) \/ WorkerRestores(r) \/ WorkerAnswers(r))

Spec == Init /\ [][Next]_vars

-----------------------------------------------------------------------------
(* Properties.                                                             *)

Pending(id) == IF pending[id] = NONE THEN <<>> ELSE pending[id]

Leased(id) == IF leases[id] = NONE THEN <<>> ELSE leases[id]

\* Every pin of a page is one lease or one restore in progress that will
\* give it back, so nothing stays pinned by nobody and unpin never fails
\* (plan_release_many, commit_pending_rollback and its expect).
PinsBelongToRequests ==
    \A key \in PageKeys : Known(ranks[RankOf(key)], key) =>
      ranks[RankOf(key)].entries[key].pin_count =
        Cardinality({id \in RequestIds : \E page \in Range(Leased(id)) : page.key = key})
        + Cardinality({id \in RequestIds : key \in InState(Pending(id), {"Pinned"})})

\* A page is Restoring exactly while one request waits for it under its own
\* identity; so every rollback and cancellation can give the page back.
RestoringPagesHaveOneWaiter ==
    \A key \in PageKeys :
      LET waiters == {id \in RequestIds : key \in InState(Pending(id), {"Restoring"})}
      IN  IF location(ranks[RankOf(key)], key) = "Restoring"
          THEN \E id \in RequestIds :
                 /\ waiters = {id}
                 /\ validate_abort_restore_identity(ranks[RankOf(key)], key, id)
          ELSE waiters = {}

\* Pins and pages under restore belong to exactly the requests that will give
\* them back, after every rollback, cancellation and late answer.
RequestsOwnWhatTheyHold == PinsBelongToRequests /\ RestoringPagesHaveOneWaiter

\* While a request holds a lease its pages are in HBM with the very record
\* the lease was told of: neither an eviction nor an upgrade of the record
\* moves a page under its reader.
LeasedPagesStayInHbm ==
    \A id \in RequestIds : \A page \in Range(Leased(id)) :
      LET m == ranks[RankOf(page.key)]
      IN  /\ location(m, page.key) = "Hbm"
          /\ m.entries[page.key].record = page.attachment
          /\ m.entries[page.key].restored = page.attachment

\* hbm_bytes and dram_bytes are what the pages there occupy, and stay within
\* the configured capacities, whatever was promoted, evicted or replaced.
BytesAreAccountedFor ==
    \A r \in Ranks :
      /\ ranks[r].hbm_bytes = BytesAt(ranks[r], PageKeys, "Hbm")
      /\ ranks[r].hbm_bytes <= HbmBytes
      /\ ranks[r].dram_bytes = BytesAt(ranks[r], PageKeys, "Dram")
      /\ ranks[r].dram_bytes <= DramBytes

\* The quota counts the reads that are queued or not yet finished, however
\* many handles were dropped; it never underflows, so it is never poisoned,
\* and a reserved slot always finds room in the channel.
QuotaCountsReads ==
    \A r \in Ranks :
      LET s == services[r]
          reading == IF s.running = NONE THEN 0 ELSE IF s.running.result = NONE THEN 1 ELSE 0
      IN  /\ s.quota = Len(s.queue) + reading
          /\ ~s.poisoned
          /\ CanReserveSlot(s) => CanSubmit(s)

\* Bytes and read permits are exact although evictions, promotions and dropped
\* handles overlap.
ResourcesAreAccountedFor == BytesAreAccountedFor /\ QuotaCountsReads

\* A restore in progress ends: the request becomes ready or fails.
RestoresEnd == \A id \in RequestIds : pending[id] # NONE ~> pending[id] = NONE
=============================================================================
