--------------------------- MODULE SequencePageTable ---------------------------
(***************************************************************************)
(* The active KV page table of the host: glm-cache/src/sequence.rs.        *)
(*                                                                         *)
(* The table owns every physical page slot of the TP_RANKS rank arenas.  A *)
(* slot is free, quarantined (retired, but a rank may still point at it),  *)
(* or live: held by one or more sequences.  Sealed pages are shared, by    *)
(* prefix key or by a fork; the tail a sequence still writes is its own.   *)
(*                                                                         *)
(* Every mutator of the code clones the table and restores the clone on an *)
(* error, so an error is a stuttering step here and an action is the       *)
(* successful call.  The operations are operators on a table value t: the  *)
(* serving coordinator works on clones of the table.                       *)
(***************************************************************************)
EXTENDS Integers, FiniteSets

CONSTANTS
    TP_RANKS,                \* rank arenas; 4 in the code
    PAGE_TOKENS,             \* positions of a page; 64 in the code
    MAXIMUM_CONTEXT_TOKENS,  \* positions of a sequence
    MAXIMUM_TENTATIVE,       \* positions of a tentative tail; 7 in the code
    target_pages_per_rank,   \* PageTableConfig
    draft_pages_per_rank,
    SequenceIds,             \* request ids
    Attachments,             \* PrefixPageAttachment values offered to admission
    Generations,             \* page-table generations a caller may name
    NONE

ASSUME ConfigAssumption ==
    /\ TP_RANKS \in Nat \ {0}
    /\ PAGE_TOKENS \in Nat \ {0}
    /\ MAXIMUM_CONTEXT_TOKENS \in Nat
    /\ MAXIMUM_TENTATIVE \in Nat
    /\ target_pages_per_rank \in Nat \ {0}
    /\ draft_pages_per_rank \in 0..target_pages_per_rank
    /\ Generations \subseteq Nat
    /\ IsFiniteSet(SequenceIds)

ASSUME NoneAssumption ==
    /\ NONE \notin Nat
    /\ NONE \notin Attachments
    /\ \A generation \in Generations : generation # NONE
    /\ \A attachment \in Attachments : attachment.generation \in Nat

VARIABLE table

-----------------------------------------------------------------------------
(* Identifiers and sizes.                                                  *)

Ranks == 0..(TP_RANKS - 1)
TargetIds == 0..(target_pages_per_rank - 1)
DraftIds == 0..(draft_pages_per_rank - 1)
PhysicalPageId == Ranks \X TargetIds
maximum_pages == MAXIMUM_CONTEXT_TOKENS \div PAGE_TOKENS

owner_rank(ordinal) == ordinal % TP_RANKS

PageState == {"HbmMutable", "HbmTentative", "HbmSealed"}

PagesFor(tokens) == (tokens + PAGE_TOKENS - 1) \div PAGE_TOKENS

Least(a, b) == IF a <= b THEN a ELSE b

NoEntries == [x \in {} |-> x]

\* PrefixPageAttachment::relation_to: how a candidate record relates to the
\* record a shared page already carries.
relation_to(current, candidate) ==
    IF current.key # candidate.key \/ current.target # candidate.target
    THEN "Error"
    ELSE CASE candidate.draft = NONE /\ current.draft = NONE -> "Exact"
           [] candidate.draft = NONE /\ current.draft # NONE -> "RetainDraft"
           [] candidate.draft # NONE /\ current.draft = NONE ->
                IF candidate.generation > current.generation
                THEN "DraftUpgrade" ELSE "Error"
           [] OTHER -> IF current.draft = candidate.draft
                       THEN "Exact" ELSE "Error"

-----------------------------------------------------------------------------
(* Allocation and release.                                                 *)

\* taken[o] is what pop_first gives the page at ordinal o when the ordinals
\* are served in increasing order: a free id of the owner rank, the free ids
\* below it having gone to earlier ordinals of the same rank.
PopsFirst(free, ordinals, taken) ==
    \A o \in ordinals :
        /\ taken[o] \in free[owner_rank(o)]
        /\ \A i \in free[owner_rank(o)] :
              i < taken[o] <=> \E p \in ordinals : /\ p < o
                                                   /\ owner_rank(p) = owner_rank(o)
                                                   /\ taken[p] = i

\* Empty when some rank runs out of slots: SequencePageError::Capacity.
TargetAllocations(t, ordinals) ==
    {a \in [ordinals -> TargetIds] : PopsFirst(t.free_target, ordinals, a)}

DraftAllocations(t, ordinals) ==
    {d \in [ordinals -> DraftIds] : PopsFirst(t.free_draft, ordinals, d)}

\* Mutant: first() where the code says pop_first().
WithoutPeeked(free, ordinals, taken) == free

Without(free, ordinals, taken) ==
    [r \in Ranks |->
        {i \in free[r] : \A o \in ordinals : owner_rank(o) = r => taken[o] # i}]

\* release_page for every page of a set: a page loses one reference, and one
\* that loses its last reference leaves the table and the prefix index, its
\* slots going to quarantine.
Unreferenced(t, pages) == {p \in pages : t.physical[p].references = 1}

\* Mutant: the reference is not dropped.
DereferencedKept(t, pages, p) == t.physical[p]

Dereferenced(t, pages, p) ==
    IF p \in pages THEN [t.physical[p] EXCEPT !.references = @ - 1]
                   ELSE t.physical[p]

IndexWithout(t, gone) ==
    [k \in {k \in DOMAIN t.prefixes : \A p \in gone :
                ~(t.physical[p].prefix # NONE /\ t.physical[p].prefix.key = k)} |->
        t.prefixes[k]]

release_page(t, pages) ==
    LET gone == Unreferenced(t, pages)
    IN  [t EXCEPT
          !.physical =
            [p \in DOMAIN t.physical \ gone |-> Dereferenced(t, pages, p)],
          !.prefixes = IndexWithout(t, gone),
          !.quarantined_target =
            [r \in Ranks |-> @[r] \cup {i \in TargetIds : <<r, i>> \in gone}],
          !.quarantined_draft =
            [r \in Ranks |-> @[r] \cup
                {i \in DraftIds : \E p \in gone :
                    p[1] = r /\ t.physical[p].draft = i}]]

\* The Invariant errors of release_page; a call that meets one is undone.
Releasable(t, pages) ==
    \A p \in pages :
        /\ p \in DOMAIN t.physical
        /\ p \in Unreferenced(t, pages) =>
             /\ p[2] \notin t.free_target[p[1]] \cup t.quarantined_target[p[1]]
             /\ t.physical[p].draft # NONE =>
                  t.physical[p].draft \notin
                    t.free_draft[p[1]] \cup t.quarantined_draft[p[1]]
             /\ t.physical[p].prefix # NONE =>
                  /\ t.physical[p].prefix.key \in DOMAIN t.prefixes
                  /\ t.prefixes[t.physical[p].prefix.key] = p

require_unbound_quarantine(t) == t.quarantine_generation = NONE

-----------------------------------------------------------------------------
(* The operations.                                                         *)

new == [free_target |-> [r \in Ranks |-> TargetIds],
        free_draft |-> [r \in Ranks |-> DraftIds],
        quarantined_target |-> [r \in Ranks |-> {}],
        quarantined_draft |-> [r \in Ranks |-> {}],
        quarantine_generation |-> NONE,
        physical |-> NoEntries,
        prefixes |-> NoEntries,
        sequences |-> NoEntries]

\* Admission by prefix.  prefix maps ordinals 0..n-1 to attachments.  A key
\* the index knows must sit on a full sealed page of this very ordinal.
Attachable(t, mtp, prefix) ==
    /\ \A o, p \in DOMAIN prefix : o # p => prefix[o].key # prefix[p].key
    /\ \A o \in DOMAIN prefix :
         /\ mtp => prefix[o].draft # NONE
         /\ prefix[o].key \in DOMAIN t.prefixes =>
              LET p == t.prefixes[prefix[o].key]
              IN  /\ p \in DOMAIN t.physical
                  /\ t.physical[p].state = "HbmSealed"
                  /\ t.physical[p].valid_tokens = PAGE_TOKENS
                  /\ p[1] = owner_rank(o)
                  /\ t.physical[p].prefix # NONE
                  /\ t.physical[p].prefix_ordinal = o
                  /\ relation_to(t.physical[p].prefix, prefix[o]) # "Error"

MissingPages(t, prefix) ==
    {o \in DOMAIN prefix : prefix[o].key \notin DOMAIN t.prefixes}

MissingDrafts(t, mtp, prefix) ==
    {o \in DOMAIN prefix :
        /\ mtp
        /\ \/ o \in MissingPages(t, prefix)
           \/ t.physical[t.prefixes[prefix[o].key]].draft = NONE}

\* The page of ordinal o once it is attached, a being the target slots and d
\* the draft slots that the missing pages and drafts were given.
AttachedPage(t, mtp, prefix, a, d, o) ==
    IF o \in MissingPages(t, prefix)
    THEN [draft |-> IF mtp THEN d[o] ELSE NONE,
          state |-> "HbmSealed", valid_tokens |-> PAGE_TOKENS,
          references |-> 1, prefix |-> prefix[o], prefix_ordinal |-> o]
    ELSE LET page == t.physical[t.prefixes[prefix[o].key]]
         IN  [page EXCEPT
               !.draft = IF o \in MissingDrafts(t, mtp, prefix) THEN d[o] ELSE @,
               !.references = @ + 1,
               !.prefix = IF relation_to(@, prefix[o]) = "DraftUpgrade"
                          THEN prefix[o] ELSE @]

PrefixPages(t, prefix, a) ==
    [o \in DOMAIN prefix |->
        IF o \in MissingPages(t, prefix) THEN <<owner_rank(o), a[o]>>
                                         ELSE t.prefixes[prefix[o].key]]

AttachedPages(t, prefix, a) ==
    {PrefixPages(t, prefix, a)[o] : o \in DOMAIN prefix}

AttachedOrdinal(t, prefix, a, p) ==
    CHOOSE o \in DOMAIN prefix : PrefixPages(t, prefix, a)[o] = p

AdmittedPage(t, mtp, prefix, a, d, p) ==
    IF p \in AttachedPages(t, prefix, a)
    THEN AttachedPage(t, mtp, prefix, a, d, AttachedOrdinal(t, prefix, a, p))
    ELSE t.physical[p]

AdmittedIndex(t, prefix, a, k) ==
    IF k \in DOMAIN t.prefixes THEN t.prefixes[k]
    ELSE PrefixPages(t, prefix, a)[CHOOSE o \in DOMAIN prefix : prefix[o].key = k]

admit_with_prefix(t, id, mtp, n, prefix, a, d) ==
    [t EXCEPT
      !.free_target = Without(t.free_target, MissingPages(t, prefix), a),
      !.free_draft = Without(t.free_draft, MissingDrafts(t, mtp, prefix), d),
      !.physical = [p \in DOMAIN t.physical \cup AttachedPages(t, prefix, a) |->
                        AdmittedPage(t, mtp, prefix, a, d, p)],
      !.prefixes =
        [k \in DOMAIN t.prefixes \cup {prefix[o].key : o \in DOMAIN prefix} |->
            AdmittedIndex(t, prefix, a, k)],
      !.sequences =
        [s \in DOMAIN t.sequences \cup {id} |->
            IF s = id
            THEN [mtp |-> mtp, committed_tokens |-> n * PAGE_TOKENS, page_count |-> n,
                  pages |-> PrefixPages(t, prefix, a), tentative |-> NONE]
            ELSE t.sequences[s]]]

Settled(page, valid, state) ==
    [page EXCEPT !.valid_tokens = valid, !.state = state]

\* Positions left in the tail page a sequence may still write.
TailPage(t, id) == t.sequences[id].pages[t.sequences[id].page_count - 1]

\* Mutant: one position too many.
TailRoomPlusOne(t, id) ==
    IF t.sequences[id].page_count = 0 THEN 0
    ELSE PAGE_TOKENS + 1 - t.physical[TailPage(t, id)].valid_tokens

TailRoom(t, id) ==
    IF t.sequences[id].page_count = 0 THEN 0
    ELSE PAGE_TOKENS - t.physical[TailPage(t, id)].valid_tokens

\* The ordinals of the pages that `tokens` more positions need, and how many of
\* the positions go to each.
FreshOrdinals(t, id, tokens) ==
    LET count == t.sequences[id].page_count
        spill == tokens - Least(tokens, TailRoom(t, id))
    IN  count..(count + PagesFor(spill) - 1)

Written(t, id, tokens, o) ==
    Least(PAGE_TOKENS, tokens - TailRoom(t, id)
                       - (o - t.sequences[id].page_count) * PAGE_TOKENS)

FreshDrafts(t, id, ordinals) == IF t.sequences[id].mtp THEN ordinals ELSE {}

\* allocate_page: the page at ordinal o of a, and what it holds at first.
FreshPages(ordinals, a) == {<<owner_rank(o), a[o]>> : o \in ordinals}

FreshOrdinal(ordinals, a, p) ==
    CHOOSE o \in ordinals : <<owner_rank(o), a[o]>> = p

allocate_page(draft, state, valid) ==
    [draft |-> draft, state |-> state, valid_tokens |-> valid,
     references |-> 1, prefix |-> NONE, prefix_ordinal |-> 0]

\* The pages of sequence id once the fresh ones are pushed behind them.
PushedPages(t, id, fresh, a) ==
    [o \in 0..(t.sequences[id].page_count - 1) \cup fresh |->
        IF o < t.sequences[id].page_count THEN t.sequences[id].pages[o]
                                          ELSE <<owner_rank(o), a[o]>>]

\* A page after `tokens` positions were written behind the tail of id: the tail
\* page is filled first, then the fresh pages in order.  A page that ends up
\* full takes the state `full`, one that does not the state `partial`.
ExtendedPage(t, id, tokens, a, d, full, partial, p) ==
    LET fresh == FreshOrdinals(t, id, tokens)
        room == TailRoom(t, id)
        stateOf(valid) == IF valid = PAGE_TOKENS THEN full ELSE partial
    IN  IF p \in FreshPages(fresh, a)
        THEN LET o == FreshOrdinal(fresh, a, p)
             IN  allocate_page(IF t.sequences[id].mtp THEN d[o] ELSE NONE,
                               stateOf(Written(t, id, tokens, o)),
                               Written(t, id, tokens, o))
        ELSE IF room > 0 /\ p = TailPage(t, id)
        THEN LET valid == t.physical[p].valid_tokens + Least(tokens, room)
             IN  Settled(t.physical[p], valid, stateOf(valid))
        ELSE t.physical[p]

Extended(t, id, tokens, a, d, full, partial, committed, tentative) ==
    LET fresh == FreshOrdinals(t, id, tokens)
    IN  [t EXCEPT
          !.free_target = Without(t.free_target, fresh, a),
          !.free_draft = Without(t.free_draft, FreshDrafts(t, id, fresh), d),
          !.physical =
            [p \in DOMAIN t.physical \cup FreshPages(fresh, a) |->
                ExtendedPage(t, id, tokens, a, d, full, partial, p)],
          !.sequences = [t.sequences EXCEPT ![id] =
            [t.sequences[id] EXCEPT
                !.committed_tokens = committed,
                !.page_count = t.sequences[id].page_count + PagesFor(
                                  tokens - Least(tokens, TailRoom(t, id))),
                !.pages = PushedPages(t, id, fresh, a),
                !.tentative = tentative]]]

TailIsExclusive(t, id, states) ==
    TailRoom(t, id) > 0 => /\ t.physical[TailPage(t, id)].references = 1
                           /\ t.physical[TailPage(t, id)].state \in states

append_committed(t, id, tokens, a, d) ==
    Extended(t, id, tokens, a, d, "HbmSealed", "HbmMutable",
             t.sequences[id].committed_tokens + tokens, NONE)

CanAppend(t, id, tokens) ==
    LET sequence == t.sequences[id]
    IN  /\ sequence.committed_tokens + tokens <= MAXIMUM_CONTEXT_TOKENS
        /\ sequence.tentative = NONE
        /\ TailIsExclusive(t, id, {"HbmMutable"})
        /\ TailRoom(t, id) = 0 /\ sequence.page_count > 0 =>
              t.physical[TailPage(t, id)].state = "HbmSealed"

begin_tentative(t, id, tokens, a, d) ==
    LET sequence == t.sequences[id]
    IN  Extended(t, id, tokens, a, d, "HbmTentative", "HbmTentative",
                 sequence.committed_tokens,
                 [original_page_count |-> sequence.page_count,
                  original_tail_tokens |->
                    IF sequence.page_count = 0 THEN 0
                    ELSE t.physical[TailPage(t, id)].valid_tokens,
                  reserved_tokens |-> tokens])

CanBeginTentative(t, id, tokens) ==
    /\ t.sequences[id].tentative = NONE
    /\ t.sequences[id].committed_tokens + tokens <= MAXIMUM_CONTEXT_TOKENS
    /\ TailIsExclusive(t, id, {"HbmMutable", "HbmTentative"})

\* Mutant: a fork shares the partial tail too.
ForkCopiesNothing(t, source) == {}

\* A full sealed page is shared by a fork; a partial tail is copied to a page
\* of its own.
ForkCopies(t, source) ==
    {o \in 0..(t.sequences[source].page_count - 1) :
        LET page == t.physical[t.sequences[source].pages[o]]
        IN  page.state # "HbmSealed" \/ page.valid_tokens # PAGE_TOKENS}

CanFork(t, source) ==
    /\ t.sequences[source].tentative = NONE
    /\ \A o \in ForkCopies(t, source) :
         LET page == t.physical[t.sequences[source].pages[o]]
         IN  /\ page.state = "HbmMutable"
             /\ page.valid_tokens < PAGE_TOKENS
             /\ page.references = 1

ForkedPages(t, source, a) ==
    [o \in 0..(t.sequences[source].page_count - 1) |->
        IF o \in ForkCopies(t, source) THEN <<owner_rank(o), a[o]>>
                                       ELSE t.sequences[source].pages[o]]

ForkShared(t, source) ==
    {t.sequences[source].pages[o] :
        o \in (0..(t.sequences[source].page_count - 1)) \ ForkCopies(t, source)}

ForkedPage(t, source, a, d, p) ==
    IF p \in FreshPages(ForkCopies(t, source), a)
    THEN LET o == FreshOrdinal(ForkCopies(t, source), a, p)
         IN  allocate_page(IF t.sequences[source].mtp THEN d[o] ELSE NONE,
                           "HbmMutable",
                           t.physical[t.sequences[source].pages[o]].valid_tokens)
    ELSE IF p \in ForkShared(t, source)
    THEN [t.physical[p] EXCEPT !.references = @ + 1]
    ELSE t.physical[p]

fork_sequence(t, source, id, a, d) ==
    LET copies == ForkCopies(t, source)
    IN  [t EXCEPT
          !.free_target = Without(t.free_target, copies, a),
          !.free_draft = Without(t.free_draft, FreshDrafts(t, source, copies), d),
          !.physical = [p \in DOMAIN t.physical \cup FreshPages(copies, a) |->
                            ForkedPage(t, source, a, d, p)],
          !.sequences =
            [s \in DOMAIN t.sequences \cup {id} |->
                IF s = id
                THEN [t.sequences[source] EXCEPT !.pages = ForkedPages(t, source, a)]
                ELSE t.sequences[s]]]

\* The pages of id from ordinal `from` on: the end that a rollback, a partial
\* commit or a removal gives back.
PagesFrom(t, id, from) ==
    {t.sequences[id].pages[o] : o \in from..(t.sequences[id].page_count - 1)}

Truncated(t, id, count, committed) ==
    [release_page(t, PagesFrom(t, id, count)) EXCEPT
        !.sequences = [t.sequences EXCEPT ![id] =
            [t.sequences[id] EXCEPT
                !.committed_tokens = committed,
                !.page_count = count,
                !.pages = [o \in 0..(count - 1) |-> t.sequences[id].pages[o]],
                !.tentative = NONE]]]

CommittedCount(t, id, tokens) ==
    PagesFor(t.sequences[id].committed_tokens + tokens)

CommittedValid(t, id, tokens, o) ==
    LET total == t.sequences[id].committed_tokens + tokens
    IN  IF o + 1 = CommittedCount(t, id, tokens) /\ total % PAGE_TOKENS # 0
        THEN total % PAGE_TOKENS
        ELSE PAGE_TOKENS

\* Mutant: a full page is not sealed.
CommittedStateMutable(valid) == "HbmMutable"

CommittedState(valid) ==
    IF valid = PAGE_TOKENS THEN "HbmSealed" ELSE "HbmMutable"

CanCommitTentative(t, id, tokens) ==
    LET sequence == t.sequences[id]
    IN  /\ sequence.tentative # NONE
        /\ tokens <= sequence.tentative.reserved_tokens
        /\ CommittedCount(t, id, tokens) <= sequence.page_count
        /\ Releasable(t, PagesFrom(t, id, CommittedCount(t, id, tokens)))
        /\ \A o \in 0..(CommittedCount(t, id, tokens) - 1) :
             LET page == t.physical[sequence.pages[o]]
                 valid == CommittedValid(t, id, tokens, o)
             IN  page.state # "HbmTentative" =>
                   page.state = CommittedState(valid) /\ page.valid_tokens = valid

SettledOrdinals(t, id, tokens) ==
    {o \in 0..(CommittedCount(t, id, tokens) - 1) :
        t.physical[t.sequences[id].pages[o]].state = "HbmTentative"}

commit_tentative(t, id, tokens) ==
    LET sequence == t.sequences[id]
        kept == Truncated(t, id, CommittedCount(t, id, tokens),
                          sequence.committed_tokens + tokens)
        settled == SettledOrdinals(t, id, tokens)
        page(p) == IF \E o \in settled : sequence.pages[o] = p
                   THEN LET valid == CommittedValid(t, id, tokens,
                                        CHOOSE o \in settled : sequence.pages[o] = p)
                        IN  Settled(kept.physical[p], valid, CommittedState(valid))
                   ELSE kept.physical[p]
    IN  [kept EXCEPT !.physical = [p \in DOMAIN kept.physical |-> page(p)]]

CanRollbackTentative(t, id) ==
    LET sequence == t.sequences[id]
        count == sequence.tentative.original_page_count
        page == t.physical[sequence.pages[count - 1]]
    IN  /\ sequence.tentative # NONE
        /\ count <= sequence.page_count
        /\ Releasable(t, PagesFrom(t, id, count))
        /\ count # 0 /\ page.state # "HbmTentative" =>
              page.valid_tokens = PAGE_TOKENS /\ page.state = "HbmSealed"

rollback_tentative(t, id) ==
    LET sequence == t.sequences[id]
        count == sequence.tentative.original_page_count
        kept == Truncated(t, id, count, sequence.committed_tokens)
        page(p) == IF /\ count # 0
                      /\ p = sequence.pages[count - 1]
                      /\ kept.physical[p].state = "HbmTentative"
                   THEN Settled(kept.physical[p],
                                sequence.tentative.original_tail_tokens, "HbmMutable")
                   ELSE kept.physical[p]
    IN  [kept EXCEPT !.physical = [p \in DOMAIN kept.physical |-> page(p)]]

remove_sequence(t, id) ==
    LET released == release_page(t, PagesFrom(t, id, 0))
    IN  [released EXCEPT
          !.sequences = [s \in DOMAIN t.sequences \ {id} |-> t.sequences[s]]]

QuarantineIsEmpty(t) ==
    \A r \in Ranks : t.quarantined_target[r] = {} /\ t.quarantined_draft[r] = {}

bind_reuse_quarantine(t, generation) ==
    IF QuarantineIsEmpty(t) THEN t
    ELSE [t EXCEPT !.quarantine_generation = generation]

acknowledge_reuse_quarantine(t) ==
    [t EXCEPT
        !.free_target = [r \in Ranks |-> @[r] \cup t.quarantined_target[r]],
        !.free_draft = [r \in Ranks |-> @[r] \cup t.quarantined_draft[r]],
        !.quarantined_target = [r \in Ranks |-> {}],
        !.quarantined_draft = [r \in Ranks |-> {}],
        !.quarantine_generation = NONE]

-----------------------------------------------------------------------------
(* The specification.                                                      *)

Init == table = new

AdmitWithPrefix(id) ==
    /\ require_unbound_quarantine(table)
    /\ id \notin DOMAIN table.sequences
    /\ \E mtp \in BOOLEAN, n \in 0..maximum_pages :
         \E prefix \in [0..(n - 1) -> Attachments] :
           /\ Attachable(table, mtp, prefix)
           /\ \E a \in TargetAllocations(table, MissingPages(table, prefix)),
                 d \in DraftAllocations(table, MissingDrafts(table, mtp, prefix)) :
                table' = admit_with_prefix(table, id, mtp, n, prefix, a, d)

AppendCommitted(id) ==
    /\ require_unbound_quarantine(table)
    /\ id \in DOMAIN table.sequences
    /\ \E tokens \in 1..MAXIMUM_CONTEXT_TOKENS :
         LET fresh == FreshOrdinals(table, id, tokens)
         IN  /\ CanAppend(table, id, tokens)
             /\ \E a \in TargetAllocations(table, fresh),
                   d \in DraftAllocations(table, FreshDrafts(table, id, fresh)) :
                  table' = append_committed(table, id, tokens, a, d)

ForkSequence(source, id) ==
    /\ require_unbound_quarantine(table)
    /\ id \notin DOMAIN table.sequences
    /\ source \in DOMAIN table.sequences
    /\ CanFork(table, source)
    /\ LET copies == ForkCopies(table, source)
       IN  \E a \in TargetAllocations(table, copies),
              d \in DraftAllocations(table, FreshDrafts(table, source, copies)) :
             table' = fork_sequence(table, source, id, a, d)

BeginTentative(id) ==
    /\ require_unbound_quarantine(table)
    /\ id \in DOMAIN table.sequences
    /\ \E tokens \in 1..MAXIMUM_TENTATIVE :
         LET fresh == FreshOrdinals(table, id, tokens)
         IN  /\ CanBeginTentative(table, id, tokens)
             /\ \E a \in TargetAllocations(table, fresh),
                   d \in DraftAllocations(table, FreshDrafts(table, id, fresh)) :
                  table' = begin_tentative(table, id, tokens, a, d)

CommitTentative(id) ==
    /\ require_unbound_quarantine(table)
    /\ id \in DOMAIN table.sequences
    /\ \E tokens \in 1..MAXIMUM_TENTATIVE :
         /\ CanCommitTentative(table, id, tokens)
         /\ table' = commit_tentative(table, id, tokens)

RollbackTentative(id) ==
    /\ require_unbound_quarantine(table)
    /\ id \in DOMAIN table.sequences
    /\ table.sequences[id].tentative # NONE
    /\ CanRollbackTentative(table, id)
    /\ table' = rollback_tentative(table, id)

RemoveSequence(id) ==
    /\ require_unbound_quarantine(table)
    /\ id \in DOMAIN table.sequences
    /\ table.sequences[id].tentative = NONE
    /\ Releasable(table, PagesFrom(table, id, 0))
    /\ table' = remove_sequence(table, id)

BindReuseQuarantine(generation) ==
    /\ table.quarantine_generation = NONE
    /\ table' = bind_reuse_quarantine(table, generation)

\* Mutant: the generation is not compared.
AcknowledgeAnyGeneration(generation) == table' = acknowledge_reuse_quarantine(table)

AcknowledgeReuseQuarantine(generation) ==
    /\ table.quarantine_generation = generation
    /\ table' = acknowledge_reuse_quarantine(table)

Next ==
    \/ \E id \in SequenceIds :
         \/ AdmitWithPrefix(id)
         \/ AppendCommitted(id)
         \/ BeginTentative(id)
         \/ CommitTentative(id)
         \/ RollbackTentative(id)
         \/ RemoveSequence(id)
         \/ \E source \in SequenceIds : ForkSequence(source, id)
    \/ \E generation \in Generations :
         \/ BindReuseQuarantine(generation)
         \/ AcknowledgeReuseQuarantine(generation)

Spec == Init /\ [][Next]_table

-----------------------------------------------------------------------------
(* Properties.                                                             *)

Page == [draft: DraftIds \cup {NONE}, state: PageState,
         valid_tokens: 0..PAGE_TOKENS, references: Nat \ {0},
         prefix: Attachments \cup {NONE}, prefix_ordinal: Nat]

TentativeTail == [original_page_count: Nat, original_tail_tokens: 0..PAGE_TOKENS,
         reserved_tokens: Nat \ {0}]

Held(t, s) ==
    {t.sequences[s].pages[o] : o \in 0..(t.sequences[s].page_count - 1)}

Holders(t, p) == {s \in DOMAIN t.sequences : p \in Held(t, s)}

DraftUsers(t, r, i) ==
    {p \in DOMAIN t.physical : p[1] = r /\ t.physical[p].draft = i}

IsTable(t) ==
    /\ t.free_target \in [Ranks -> SUBSET TargetIds]
    /\ t.free_draft \in [Ranks -> SUBSET DraftIds]
    /\ t.quarantined_target \in [Ranks -> SUBSET TargetIds]
    /\ t.quarantined_draft \in [Ranks -> SUBSET DraftIds]
    /\ t.quarantine_generation \in Generations \cup {NONE}
    /\ DOMAIN t.physical \subseteq PhysicalPageId
    /\ \A p \in DOMAIN t.physical : t.physical[p] \in Page
    /\ DOMAIN t.prefixes \subseteq {attachment.key : attachment \in Attachments}
    /\ \A k \in DOMAIN t.prefixes : t.prefixes[k] \in PhysicalPageId
    /\ DOMAIN t.sequences \subseteq SequenceIds
    /\ \A s \in DOMAIN t.sequences :
         LET sequence == t.sequences[s]
         IN  /\ sequence.mtp \in BOOLEAN
             /\ sequence.committed_tokens \in Nat
             /\ sequence.page_count \in Nat
             /\ sequence.pages \in
                  [0..(sequence.page_count - 1) -> PhysicalPageId]
             /\ sequence.tentative \in TentativeTail \cup {NONE}

TargetPartition(t) ==
    \A r \in Ranks, i \in TargetIds :
        /\ i \in t.free_target[r] => /\ i \notin t.quarantined_target[r]
                                     /\ <<r, i>> \notin DOMAIN t.physical
        /\ i \in t.quarantined_target[r] => <<r, i>> \notin DOMAIN t.physical
        /\ \/ i \in t.free_target[r]
           \/ i \in t.quarantined_target[r]
           \/ <<r, i>> \in DOMAIN t.physical

DraftPartition(t) ==
    \A r \in Ranks, i \in DraftIds :
        /\ i \in t.free_draft[r] => /\ i \notin t.quarantined_draft[r]
                                    /\ DraftUsers(t, r, i) = {}
        /\ i \in t.quarantined_draft[r] => DraftUsers(t, r, i) = {}
        /\ i \notin t.free_draft[r] \cup t.quarantined_draft[r] =>
             DraftUsers(t, r, i) # {}
        /\ \A p, q \in DraftUsers(t, r, i) : p = q

CountedReferences(t) ==
    /\ \A p \in DOMAIN t.physical :
         t.physical[p].references = Cardinality(Holders(t, p))
    /\ \A s \in DOMAIN t.sequences : Held(t, s) \subseteq DOMAIN t.physical

ExclusiveWriters(t) ==
    \A p \in DOMAIN t.physical :
        t.physical[p].state # "HbmSealed" => Cardinality(Holders(t, p)) = 1

ExactIndex(t) ==
    /\ \A k \in DOMAIN t.prefixes :
         /\ t.prefixes[k] \in DOMAIN t.physical
         /\ t.physical[t.prefixes[k]].prefix # NONE
         /\ t.physical[t.prefixes[k]].prefix.key = k
    /\ \A p \in DOMAIN t.physical :
         t.physical[p].prefix # NONE =>
           /\ t.physical[p].prefix.key \in DOMAIN t.prefixes
           /\ t.prefixes[t.physical[p].prefix.key] = p

\* The fields of the table hold what the struct declares.
TypeOK == IsTable(table)

\* Every target slot of a rank is free, quarantined or live, and only one of
\* the three: no slot is lost, and none is handed out twice.
TargetSlotsArePartitioned == TargetPartition(table)

\* The same of the draft slots, and no two live pages share a draft slot.
DraftSlotsArePartitioned == DraftPartition(table)

\* The reference count of a live page is the number of sequences that hold it,
\* and a sequence holds live pages only: nothing leaks, nothing dangles.
ReferencesCountHolders == CountedReferences(table)

\* Copy on write: a page that may still be written, or whose last positions
\* are tentative, is held by exactly one sequence.
WritablePagesAreExclusive == ExclusiveWriters(table)

\* The prefix index and the records on the pages name each other.
PrefixIndexIsExact == ExactIndex(table)

\* The Invariant and State errors of settling a tail or removing a sequence
\* never strike: whatever was admitted, forked, appended or reserved can be
\* committed, rolled back and removed.
SequencesCanAlwaysSettle ==
    \A s \in DOMAIN table.sequences :
        IF table.sequences[s].tentative = NONE
        THEN Releasable(table, PagesFrom(table, s, 0))
        ELSE /\ CanRollbackTentative(table, s)
             /\ \A tokens \in 1..table.sequences[s].tentative.reserved_tokens :
                  CanCommitTentative(table, s, tokens)

\* A slot becomes allocatable again only when a bound generation is
\* acknowledged, and only if it was in quarantine then.
SlotsReturnOnlyByAcknowledgement ==
    [][\A r \in Ranks :
          /\ \A i \in table'.free_target[r] \ table.free_target[r] :
               /\ i \in table.quarantined_target[r]
               /\ table.quarantine_generation # NONE
               /\ table'.quarantine_generation = NONE
          /\ \A i \in table'.free_draft[r] \ table.free_draft[r] :
               /\ i \in table.quarantined_draft[r]
               /\ table.quarantine_generation # NONE
               /\ table'.quarantine_generation = NONE]_table

=============================================================================
