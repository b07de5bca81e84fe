--------------------------- MODULE PageTableDelta ---------------------------
(***************************************************************************)
(* What the ranks are told of the page table: glm-cache/src/delta.rs.      *)
(*                                                                         *)
(* A delta is the difference between two tables as the ranks see them: for *)
(* every sequence that changed, its pages from the first changed ordinal   *)
(* on, and the sequences that went away.  A rank holds a mirror and        *)
(* applies deltas to it.  Generations and the digests over the fields are  *)
(* left to the users of these operators: a digest is modelled by what it   *)
(* covers.  NONE is the result of a call that returns an error.            *)
(***************************************************************************)
EXTENDS SequencePageTable, Sequences

CONSTANT MAXIMUM_DELTA_SEQUENCES

RankPageEntry(t, id, o) ==
    LET p == t.sequences[id].pages[o]
    IN  [ordinal |-> o, owner_rank |-> p[1], target_local_page_id |-> p[2],
         draft_local_page_id |-> t.physical[p].draft, state |-> t.physical[p].state,
         valid_tokens |-> t.physical[p].valid_tokens]

normalize_snapshot(t, id) ==
    [mtp |-> t.sequences[id].mtp,
     committed_tokens |-> t.sequences[id].committed_tokens,
     tentative_tokens |-> IF t.sequences[id].tentative = NONE THEN 0
                          ELSE t.sequences[id].tentative.reserved_tokens,
     pages |-> [i \in 1..t.sequences[id].page_count |-> RankPageEntry(t, id, i - 1)]]

normalized_snapshots(t) == [id \in DOMAIN t.sequences |-> normalize_snapshot(t, id)]

ValidPage(page, mtp) ==
    /\ page.owner_rank = owner_rank(page.ordinal)
    /\ page.valid_tokens \in 1..PAGE_TOKENS
    /\ (page.draft_local_page_id # NONE) <=> mtp

validate_sequence(sequence) ==
    LET pages     == sequence.pages
        positions == sequence.committed_tokens + sequence.tentative_tokens
        total[i \in 0..Len(pages)] ==
          IF i = 0 THEN 0 ELSE total[i - 1] + pages[i].valid_tokens
    IN  /\ positions <= MAXIMUM_CONTEXT_TOKENS
        /\ Len(pages) = PagesFor(positions)
        /\ \A i, j \in DOMAIN pages : i # j =>
             /\ <<pages[i].owner_rank, pages[i].target_local_page_id>> #
                  <<pages[j].owner_rank, pages[j].target_local_page_id>>
             /\ pages[i].draft_local_page_id # NONE =>
                  <<pages[i].owner_rank, pages[i].draft_local_page_id>> #
                    <<pages[j].owner_rank, pages[j].draft_local_page_id>>
        /\ \A i \in DOMAIN pages :
             /\ pages[i].ordinal = i - 1
             /\ ValidPage(pages[i], sequence.mtp)
             /\ i # Len(pages) => pages[i].valid_tokens = PAGE_TOKENS
             /\ IF sequence.tentative_tokens = 0
                THEN pages[i].state = IF i = Len(pages) /\ pages[i].valid_tokens < PAGE_TOKENS
                                      THEN "HbmMutable" ELSE "HbmSealed"
                ELSE pages[i].state \in {"HbmSealed", "HbmTentative"}
        /\ total[Len(pages)] = positions
        /\ sequence.tentative_tokens # 0 =>
             \E i \in DOMAIN pages : pages[i].state = "HbmTentative"

Representable(view) == \A id \in DOMAIN view : validate_sequence(view[id])

common_prefix(left, right) ==
    LET same == {n \in 0..Len(left) : /\ n <= Len(right)
                                      /\ \A i \in 1..n : left[i] = right[i]}
    IN  CHOOSE n \in same : \A m \in same : m <= n

Changed(before, after) ==
    {id \in DOMAIN after : IF id \in DOMAIN before THEN before[id] # after[id] ELSE TRUE}

SequencePageUpdate(before, after, id) ==
    LET first == IF id \in DOMAIN before
                 THEN common_prefix(before[id].pages, after[id].pages) ELSE 0
    IN  [mtp |-> after[id].mtp, committed_tokens |-> after[id].committed_tokens,
         tentative_tokens |-> after[id].tentative_tokens,
         page_count_after |-> Len(after[id].pages), first_changed_ordinal |-> first,
         changed_pages |-> SubSeq(after[id].pages, first + 1, Len(after[id].pages))]

validate_shape(delta) ==
    /\ DOMAIN delta.updates # {} \/ delta.removed # {}
    /\ Cardinality(DOMAIN delta.updates) <= MAXIMUM_DELTA_SEQUENCES
    /\ Cardinality(delta.removed) <= MAXIMUM_DELTA_SEQUENCES
    /\ DOMAIN delta.updates \cap delta.removed = {}
    /\ \A id \in DOMAIN delta.updates :
         LET update == delta.updates[id]
         IN  /\ update.tentative_tokens <= MAXIMUM_TENTATIVE
             /\ update.committed_tokens <= MAXIMUM_CONTEXT_TOKENS
             /\ Len(update.changed_pages) =
                  update.page_count_after - update.first_changed_ordinal
             /\ \A i \in DOMAIN update.changed_pages :
                  /\ update.changed_pages[i].ordinal = update.first_changed_ordinal + i - 1
                  /\ ValidPage(update.changed_pages[i], update.mtp)

\* between takes the normalized snapshots of the two tables.
between(before, after) ==
    LET delta == [updates |-> [id \in Changed(before, after) |->
                                 SequencePageUpdate(before, after, id)],
                  removed |-> DOMAIN before \ DOMAIN after]
    IN  IF Representable(before) /\ Representable(after) /\ validate_shape(delta)
        THEN delta ELSE NONE

\* A mirror is a view that no two entries of one physical page disagree in,
\* and in which a draft slot belongs to one page.
ValidMirror(view) ==
    LET entries == UNION {{view[id].pages[i] : i \in DOMAIN view[id].pages} : id \in DOMAIN view}
        physical(e) == <<e.owner_rank, e.target_local_page_id>>
    IN  /\ Cardinality(DOMAIN view) <= MAXIMUM_DELTA_SEQUENCES
        /\ Representable(view)
        /\ \A e \in entries :
             /\ e.target_local_page_id \in TargetIds
             /\ e.draft_local_page_id \in DraftIds \cup {NONE}
        /\ \A e, f \in entries :
             /\ physical(e) = physical(f) => e = f
             /\ /\ e.draft_local_page_id # NONE
                /\ e.owner_rank = f.owner_rank
                /\ e.draft_local_page_id = f.draft_local_page_id
                => physical(e) = physical(f)

Updated(view, delta, id) ==
    LET update == delta.updates[id]
        kept   == IF id \in DOMAIN view THEN view[id].pages ELSE <<>>
    IN  [mtp |-> update.mtp, committed_tokens |-> update.committed_tokens,
         tentative_tokens |-> update.tentative_tokens,
         pages |-> SubSeq(kept, 1, update.first_changed_ordinal) \o update.changed_pages]

apply(view, delta) ==
    LET candidate == [id \in (DOMAIN view \ delta.removed) \cup DOMAIN delta.updates |->
                        IF id \in DOMAIN delta.updates THEN Updated(view, delta, id)
                                                       ELSE view[id]]
    IN  IF /\ validate_shape(delta)
           /\ delta.removed \subseteq DOMAIN view
           /\ \A id \in DOMAIN delta.updates :
                /\ id \in DOMAIN view => view[id].mtp = delta.updates[id].mtp
                /\ delta.updates[id].first_changed_ordinal <=
                     (IF id \in DOMAIN view THEN Len(view[id].pages) ELSE 0)
                /\ Len(candidate[id].pages) = delta.updates[id].page_count_after
           /\ ValidMirror(candidate)
        THEN candidate ELSE NONE

=============================================================================
