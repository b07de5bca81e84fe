------------------------------ MODULE Residency ------------------------------
(***************************************************************************)
(* One rank's ResidencyManager and its RestoreService                      *)
(* (glm-cache/src/residency.rs): which prefix pages are in HBM, in host    *)
(* DRAM, only on NVMe, or on their way back, and the reads that are        *)
(* queued or running under the quota.  Operations are operators on the     *)
(* manager m or on the service s; Failed marks an operation that returns   *)
(* an error and changes nothing.                                           *)
(*                                                                         *)
(* last_touch only orders the pages in HBM, so the clock is kept as the    *)
(* sequence m.recent of those pages, least recently touched first.  A page *)
(* key is the sequence of the pages' tokens up to it, so its length gives  *)
(* the page's ordinal.                                                     *)
(***************************************************************************)
EXTENDS Integers, Sequences, FiniteSets, SequencesExt, FiniteSetsExt

CONSTANTS
    PageKeys,             \* the page keys prompts can lead to
    Records,              \* TierRecord values, [mtp, generation]
    HbmBytes, DramBytes,  \* ResidencyConfig
    TargetBytes, DraftBytes,
    MaximumOutstanding,   \* reads queued or running at one rank
    NONE

ASSUME ResidencyAssumption ==
    /\ {HbmBytes, TargetBytes, DraftBytes, MaximumOutstanding} \subseteq Nat \ {0}
    /\ DramBytes \in Nat

Ranks == 0..3

owner_rank(page_ordinal) == page_ordinal % 4

Ordinal(key) == Len(key) - 1

Failed == [failed |-> TRUE]

entry_bytes(record) == TargetBytes + (IF record.mtp THEN DraftBytes ELSE 0)

NewManager ==
    [entries |-> [key \in PageKeys |-> NONE], recent |-> <<>>,
     hbm_bytes |-> 0, dram_bytes |-> 0]

Known(m, key) == m.entries[key] # NONE

location(m, key) == IF Known(m, key) THEN m.entries[key].residency ELSE NONE

Touch(m, key) == Append(SelectSeq(m.recent, LAMBDA k : k # key), key)

-----------------------------------------------------------------------------
(* Registration of pages the store published.                              *)

relation_to(existing, candidate) ==
    CASE ~existing.mtp /\ candidate.mtp -> "MtpUpgrade"
      [] existing.mtp /\ ~candidate.mtp -> "RetainMtp"
      [] OTHER                          -> "ExactDedup"

\* Mutant: a pinned page is replaced like any other.
nvme_registration_action_pinned(m, key, record) ==
    IF ~Known(m, key) THEN "Insert"
    ELSE IF relation_to(m.entries[key].record, record) # "MtpUpgrade" THEN "Retain"
    ELSE IF \/ record.generation <= m.entries[key].record.generation
            \/ m.entries[key].residency = "Restoring"
         THEN "Error"
    ELSE "Replace"

nvme_registration_action(m, key, record) ==
    IF ~Known(m, key) THEN "Insert"
    ELSE IF relation_to(m.entries[key].record, record) # "MtpUpgrade" THEN "Retain"
    ELSE IF \/ record.generation <= m.entries[key].record.generation
            \/ m.entries[key].pin_count # 0
            \/ m.entries[key].residency = "Restoring"
         THEN "Error"
    ELSE "Replace"

\* Whether plan_nvme_registrations accepts the batch, a function from keys.
CanRegister(m, batch) ==
    \A key \in DOMAIN batch : nvme_registration_action(m, key, batch[key]) # "Error"

BytesAt(m, keys, where) ==
    FoldSet(LAMBDA key, sum : sum + entry_bytes(m.entries[key].record), 0,
            {key \in keys : location(m, key) = where})

commit_nvme_registrations(m, batch) ==
    LET planned  == {key \in DOMAIN batch :
                       nvme_registration_action(m, key, batch[key]) # "Retain"}
    IN  [entries |-> [key \in PageKeys |->
           IF key \in planned
           THEN [record |-> batch[key], residency |-> "Nvme", restored |-> NONE,
                 pending_restore |-> NONE, pin_count |-> 0]
           ELSE m.entries[key]],
         recent |-> SelectSeq(m.recent, LAMBDA k : k \notin planned),
         hbm_bytes |-> m.hbm_bytes - BytesAt(m, planned, "Hbm"),
         dram_bytes |-> m.dram_bytes - BytesAt(m, planned, "Dram")]

-----------------------------------------------------------------------------
(* Restoring from NVMe.                                                    *)

begin_restore(m, request_id, key) ==
    IF \/ location(m, key) # "Nvme"
       \/ entry_bytes(m.entries[key].record) > HbmBytes
    THEN Failed
    ELSE [m EXCEPT !.entries[key].residency = "Restoring",
                   !.entries[key].pending_restore = <<request_id, Ordinal(key)>>]

validate_abort_restore_identity(m, key, request_id) ==
    /\ location(m, key) = "Restoring"
    /\ m.entries[key].pending_restore = <<request_id, Ordinal(key)>>

abort_restore_identity(m, key) ==
    [m EXCEPT !.entries[key].residency = "Nvme",
              !.entries[key].pending_restore = NONE]

-----------------------------------------------------------------------------
(* Admission to HBM evicts the pages nobody pinned, least recently touched *)
(* first, to DRAM while it has room and otherwise back to NVMe.            *)

Candidates(m, excluded) ==
    SelectSeq(m.recent, LAMBDA key :
      key # excluded /\ location(m, key) = "Hbm" /\ m.entries[key].pin_count = 0)

\* Mutant: the DRAM a promoted page leaves is not given back.
DramAfterKept(m, released) == m.dram_bytes

DramAfter(m, released) == m.dram_bytes - released

plan_hbm_admission(m, incoming, released, excluded) ==
    LET candidates == Candidates(m, excluded)
        bytes(i) == entry_bytes(m.entries[candidates[i]].record)
        hbm[i \in 0..Len(candidates)] ==
          IF i = 0 THEN m.hbm_bytes ELSE hbm[i - 1] - bytes(i)
        dram[i \in 0..Len(candidates)] ==
          IF i = 0 THEN DramAfter(m, released)
          ELSE LET before == dram[i - 1]
               IN  IF before + bytes(i) <= DramBytes THEN before + bytes(i) ELSE before
        enough == {i \in 0..Len(candidates) : hbm[i] + incoming <= HbmBytes}
    IN  IF enough = {} THEN Failed
        ELSE [victims |-> [i \in 1..Min(enough) |->
                <<candidates[i], IF dram[i] = dram[i - 1] THEN "Nvme" ELSE "Dram">>],
              hbm_bytes |-> hbm[Min(enough)] + incoming,
              dram_bytes |-> dram[Min(enough)]]

\* The page enters HBM under the plan, with what was read for it.
apply_hbm_admission(m, plan, key, restored) ==
    LET destination(k) == {v[2] : v \in {v \in Range(plan.victims) : v[1] = k}}
    IN  [entries |-> [k \in PageKeys |->
           IF k = key
           THEN [m.entries[k] EXCEPT !.residency = "Hbm", !.restored = restored,
                                     !.pending_restore = NONE]
           ELSE IF destination(k) = {} THEN m.entries[k]
           ELSE LET where == CHOOSE d \in destination(k) : TRUE
                IN  [m.entries[k] EXCEPT !.residency = where,
                       !.restored = IF where = "Nvme" THEN NONE ELSE @]],
         recent |-> SelectSeq(Touch(m, key), LAMBDA k : destination(k) = {}),
         hbm_bytes |-> plan.hbm_bytes, dram_bytes |-> plan.dram_bytes]

Completes(m, key, request_id, record) ==
    /\ validate_abort_restore_identity(m, key, request_id)
    /\ m.entries[key].record = record

complete_restore(m, key, request_id, record) ==
    IF ~Completes(m, key, request_id, record) THEN Failed
    ELSE LET plan == plan_hbm_admission(m, entry_bytes(m.entries[key].record), 0, key)
         IN  IF plan = Failed THEN Failed ELSE apply_hbm_admission(m, plan, key, record)

promote_dram(m, key) ==
    LET bytes == entry_bytes(m.entries[key].record)
        plan  == plan_hbm_admission(m, bytes, bytes, key)
    IN  IF location(m, key) # "Dram" \/ plan = Failed THEN Failed
        ELSE apply_hbm_admission(m, plan, key, m.entries[key].restored)

pin_hbm(m, key) ==
    IF location(m, key) # "Hbm" THEN Failed
    ELSE [m EXCEPT !.entries[key].pin_count = @ + 1, !.recent = Touch(m, key)]

validate_unpin_count(m, key, count) ==
    count # 0 /\ location(m, key) = "Hbm" /\ m.entries[key].pin_count >= count

unpin_count(m, key, count) == [m EXCEPT !.entries[key].pin_count = @ - count]

-----------------------------------------------------------------------------
(* The restore worker of a rank and its quota.                             *)

NewService == [queue |-> <<>>, running |-> NONE, quota |-> 0, poisoned |-> FALSE]

CanReserveSlot(s) == ~s.poisoned /\ s.quota < MaximumOutstanding

\* A full queue drops the command and with it the permit just taken.
CanSubmit(s) == CanReserveSlot(s) /\ Len(s.queue) < MaximumOutstanding

try_submit(s, command) ==
    [s EXCEPT !.quota = @ + 1, !.queue = Append(@, command)]

DropPermit(s) ==
    IF s.quota = 0 THEN [s EXCEPT !.poisoned = TRUE] ELSE [s EXCEPT !.quota = @ - 1]

CanReceive(s) == s.running = NONE /\ s.queue # <<>>

\* Mutant: the command is taken and forgotten.
receive_lost(s) == [s EXCEPT !.queue = Tail(@), !.quota = @ - 1]

receive(s) ==
    [s EXCEPT !.queue = Tail(@),
              !.running = [command |-> Head(s.queue), result |-> NONE]]

\* A missing, stale or unreadable page: its reader treats them alike.
ReadError == [error |-> TRUE]

\* What the read of the page finds in the catalog the reader was opened with.
restore_one(published, request) ==
    LET record == published[request.page_key]
    IN  IF record = NONE THEN ReadError
        ELSE IF record.generation < request.minimum_generation THEN ReadError
        ELSE record

\* The read is over: its permit is dropped before the answer is sent.
Finish(s, result) == [DropPermit(s) EXCEPT !.running.result = result]

Answered(s) == [s EXCEPT !.running = NONE]

=============================================================================
