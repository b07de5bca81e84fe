-------------------------- MODULE PageTableGainProofs --------------------------
(***************************************************************************)
(* What an allocation of slots hands out, and that the operations which    *)
(* write behind the tail of a sequence gain the pages they allocate.       *)
(***************************************************************************)
EXTENDS SequencePageTableInvariant, TLAPS

\* owner_rank of a page ordinal is a rank.
LEMMA OwnerInRanks == \A o \in Nat : owner_rank(o) \in Ranks
  BY ConfigAssumption DEF owner_rank, Ranks

\* The number of pages of a number of positions is a natural number.
LEMMA PagesForNat == \A n \in Nat : PagesFor(n) \in Nat
  BY ConfigAssumption DEF PagesFor

\* pop_first gives two ordinals of one rank two different slots.
LEMMA PopsDistinct ==
  ASSUME NEW free \in [Ranks -> SUBSET Nat], NEW O \in SUBSET Nat,
         NEW taken \in [O -> Nat], PopsFirst(free, O, taken),
         NEW o \in O, NEW p \in O, owner_rank(o) = owner_rank(p), taken[o] = taken[p]
  PROVE  o = p
  BY OwnerInRanks DEF PopsFirst

-----------------------------------------------------------------------------
(* Operations that take slots.                                             *)

\* A step that gains pages preserves the invariant, once the references are
\* known to be counted.
LEMMA GainPreserves ==
  ASSUME NEW t, TableInv(t), NEW id \in SequenceIds, NEW fresh, NEW shared,
         NEW u, Gained(t, u, id, fresh, shared), CountedReferences(u)
  PROVE  TableInv(u)
<1>1. /\ IsTable(t) /\ Shaped(t) /\ TargetPartition(t) /\ DraftPartition(t)
      /\ CountedReferences(t) /\ WritersHoldOneReference(t) /\ ExactIndex(t)
      /\ InjectivePages(t)
  BY SMTT(30) DEF TableInv
<1> DEFINE drafted == Drafted(t, u, fresh)
<1>2. /\ fresh \subseteq PhysicalPageId
      /\ \A p \in fresh : p[2] \in t.free_target[p[1]]
      /\ shared \subseteq DOMAIN t.physical
      /\ DOMAIN u.physical = DOMAIN t.physical \cup fresh
      /\ \A p \in DOMAIN u.physical : u.physical[p] \in Page
      /\ DOMAIN t.physical \subseteq PhysicalPageId
  BY <1>1 DEF Gained, IsTable
<1>3. fresh \cap DOMAIN t.physical = {}
  <2> SUFFICES ASSUME NEW p \in fresh, p \in DOMAIN t.physical PROVE FALSE
    OBVIOUS
  <2>1. p[1] \in Ranks /\ p[2] \in TargetIds /\ p = <<p[1], p[2]>>
    BY <1>2 DEF PhysicalPageId
  <2>2. TargetPartition(t)!(p[1], p[2])
    BY <1>1, <2>1 DEF TargetPartition
  <2> QED BY <1>2, <2>1, <2>2
<1>4. IsTable(u)
  <2>1. /\ u.quarantined_target \in [Ranks -> SUBSET TargetIds]
        /\ u.quarantined_draft \in [Ranks -> SUBSET DraftIds]
        /\ u.quarantine_generation \in Generations \cup {NONE}
    BY <1>1, SMTT(30) DEF Gained, IsTable
  <2>2. u.free_target \in [Ranks -> SUBSET TargetIds]
    BY <1>1 DEF Gained, IsTable
  <2>3. u.free_draft \in [Ranks -> SUBSET DraftIds]
    <3>1. /\ DOMAIN u.free_draft = Ranks
          /\ u.free_draft = [r \in Ranks |-> u.free_draft[r]]
          /\ \A r \in Ranks : u.free_draft[r] \subseteq t.free_draft[r]
      BY DEF Gained
    <3> QED BY <1>1, <3>1 DEF IsTable
  <2>4. DOMAIN u.physical \subseteq PhysicalPageId
    BY <1>2, SMTT(30)
  <2>5. /\ DOMAIN u.prefixes \subseteq {attachment.key : attachment \in Attachments}
        /\ \A k \in DOMAIN u.prefixes : u.prefixes[k] \in PhysicalPageId
    BY <2>4 DEF Gained, ExactIndex
  <2>6. ASSUME NEW s \in DOMAIN u.sequences
        PROVE  /\ s \in SequenceIds
               /\ u.sequences[s].mtp \in BOOLEAN
               /\ u.sequences[s].committed_tokens \in Nat
               /\ u.sequences[s].page_count \in Nat
               /\ u.sequences[s].pages \in
                    [0..(u.sequences[s].page_count - 1) -> PhysicalPageId]
               /\ u.sequences[s].tentative \in TentativeTail \cup {NONE}
    <3>1. s \in DOMAIN t.sequences \cup {id}
      BY DEF Gained
    <3>2. CASE s = id
      BY <3>2 DEF Gained
    <3>3. CASE s # id
      BY <1>1, <3>1, <3>3, Zenon DEF Gained, IsTable
    <3> QED BY <3>2, <3>3, SMTT(30)
  <2> QED BY <1>2, <2>1, <2>2, <2>3, <2>4, <2>5, <2>6, SMTT(30) DEF IsTable
<1>5. Shaped(u)
  <2>1. u.physical \in [DOMAIN u.physical -> Page]
    BY <1>2 DEF Gained
  <2>2. DOMAIN u.sequences = DOMAIN t.sequences \cup {id}
    BY DEF Gained
  <2>3. ASSUME NEW s \in DOMAIN u.sequences
        PROVE  DOMAIN u.sequences[s] =
                 {"mtp", "committed_tokens", "page_count", "pages", "tentative"}
    BY <1>1, <2>2 DEF Gained, Shaped
  <2>4. /\ DOMAIN u = DOMAIN t
        /\ u.prefixes = [k \in DOMAIN u.prefixes |-> u.prefixes[k]]
        /\ u.sequences = [s \in DOMAIN u.sequences |-> u.sequences[s]]
    BY <2>2 DEF Gained
  <2> QED BY <1>1, <2>1, <2>3, <2>4 DEF Shaped
<1>6. TargetPartition(u)
  <2> SUFFICES ASSUME NEW r \in Ranks, NEW i \in TargetIds
               PROVE  TargetPartition(u)!(r, i)
    BY Zenon DEF TargetPartition
  <2>1. TargetPartition(t)!(r, i)
    BY <1>1 DEF TargetPartition
  <2>2. /\ u.quarantined_target = t.quarantined_target
        /\ i \in u.free_target[r] <=> i \in t.free_target[r] /\ <<r, i>> \notin fresh
    BY DEF Gained
  <2>3. <<r, i>> \in fresh => i \in t.free_target[r]
    BY <1>2
  <2> QED BY <1>2, <2>1, <2>2, <2>3
<1>7. DraftPartition(u)
  <2> SUFFICES ASSUME NEW r \in Ranks, NEW i \in DraftIds
               PROVE  DraftPartition(u)!(r, i)
    BY DEF DraftPartition
  <2>1. DraftPartition(t)!(r, i)
    BY <1>1 DEF DraftPartition
  <2>2. /\ u.quarantined_draft = t.quarantined_draft
        /\ i \in u.free_draft[r] <=>
             /\ i \in t.free_draft[r]
             /\ \A p \in drafted : p[1] = r => u.physical[p].draft # i
    BY DEF Gained
  <2>3. i # NONE
    BY NoneAssumption DEF DraftIds
  <2>4. ASSUME NEW p
        PROVE  p \in DraftUsers(u, r, i) <=>
                 \/ p \in DraftUsers(t, r, i)
                 \/ p \in drafted /\ p[1] = r /\ u.physical[p].draft = i
    <3>1. p \in DOMAIN t.physical /\ t.physical[p].draft # NONE =>
            u.physical[p].draft = t.physical[p].draft
      BY DEF Gained
    <3> QED BY <1>2, <1>3, <2>3, <3>1 DEF DraftUsers, Drafted
  <2>5. \A p \in drafted : p[1] = r /\ u.physical[p].draft = i => i \in t.free_draft[r]
    BY DEF Gained
  <2>6. \A p, q \in drafted :
          p[1] = r /\ u.physical[p].draft = i /\ q[1] = r /\ u.physical[q].draft = i => p = q
    BY DEF Gained
  <2> HIDE DEF drafted
  <2> QED BY <2>1, <2>2, <2>4, <2>5, <2>6
<1>8. /\ DOMAIN u.sequences = DOMAIN t.sequences \cup {id}
      /\ \A s \in DOMAIN t.sequences \ {id} : Held(u, s) = Held(t, s)
  <2>1. DOMAIN u.sequences = DOMAIN t.sequences \cup {id}
    BY DEF Gained
  <2>2. \A s \in DOMAIN t.sequences \ {id} : u.sequences[s] = t.sequences[s]
    BY Zenon DEF Gained
  <2> QED BY <2>1, <2>2 DEF Held
<1>12. WritersHoldOneReference(u)
  <2> SUFFICES ASSUME NEW p \in DOMAIN u.physical, u.physical[p].state # "HbmSealed"
               PROVE  u.physical[p].references = 1
    BY DEF WritersHoldOneReference
  <2>1. CASE p \in fresh
    BY <2>1 DEF Gained
  <2>2. CASE p \in DOMAIN t.physical
    BY <2>2 DEF Gained
  <2> QED BY <1>2, <2>1, <2>2
<1>13. ExactIndex(u)
  BY DEF Gained
<1>14. InjectivePages(u)
  <2> SUFFICES ASSUME NEW s \in DOMAIN u.sequences
               PROVE  InjectivePages(u)!(s)
    BY DEF InjectivePages
  <2>1. CASE s # id
    <3>1. s \in DOMAIN t.sequences /\ u.sequences[s] = t.sequences[s]
      BY <1>8, <2>1, Zenon DEF Gained
    <3> QED BY <1>1, <3>1 DEF InjectivePages
  <2>2. CASE s = id
    BY <2>2 DEF Gained
  <2> QED BY <2>1, <2>2
<1> QED
  BY <1>4, <1>5, <1>6, <1>7, <1>12, <1>13, <1>14 DEF TableInv

\* What a target allocation for a set of ordinals hands out: free slots of the
\* owner ranks, none of them live, a different page for every ordinal.
LEMMA AllocatedPages ==
  ASSUME NEW t, TableInv(t), NEW F \in SUBSET Nat, NEW a \in TargetAllocations(t, F)
  PROVE  /\ \A o \in F : /\ <<owner_rank(o), a[o]>> \in PhysicalPageId
                         /\ a[o] \in t.free_target[owner_rank(o)]
                         /\ <<owner_rank(o), a[o]>> \notin DOMAIN t.physical
         /\ \A o, p \in F : <<owner_rank(o), a[o]>> = <<owner_rank(p), a[p]>> => o = p
         /\ Without(t.free_target, F, a) =
              [r \in Ranks |-> {i \in t.free_target[r] : <<r, i>> \notin FreshPages(F, a)}]
<1>1. a \in [F -> TargetIds] /\ PopsFirst(t.free_target, F, a)
  BY DEF TargetAllocations
<1>2. /\ t.free_target \in [Ranks -> SUBSET TargetIds] /\ TargetPartition(t)
      /\ TargetIds \subseteq Nat
  BY ConfigAssumption DEF TableInv, IsTable, TargetIds
<1>3. ASSUME NEW o \in F
      PROVE  /\ <<owner_rank(o), a[o]>> \in PhysicalPageId
             /\ a[o] \in t.free_target[owner_rank(o)]
             /\ <<owner_rank(o), a[o]>> \notin DOMAIN t.physical
  <2>1. owner_rank(o) \in Ranks /\ a[o] \in TargetIds
    BY <1>1, OwnerInRanks
  <2>2. a[o] \in t.free_target[owner_rank(o)]
    BY <1>1 DEF PopsFirst
  <2>3. TargetPartition(t)!(owner_rank(o), a[o])
    BY <1>2, <2>1, Zenon DEF TargetPartition
  <2> QED BY <2>1, <2>2, <2>3 DEF PhysicalPageId
<1>4. \A o, p \in F : <<owner_rank(o), a[o]>> = <<owner_rank(p), a[p]>> => o = p
  <2>1. t.free_target \in [Ranks -> SUBSET Nat] /\ a \in [F -> Nat]
    BY <1>1, <1>2, Zenon
  <2> QED BY <1>1, <2>1, PopsDistinct, Zenon
<1>5. Without(t.free_target, F, a) =
        [r \in Ranks |-> {i \in t.free_target[r] : <<r, i>> \notin FreshPages(F, a)}]
  <2>1. \A r \in Ranks : \A i : <<r, i>> \in FreshPages(F, a) <=>
           \E o \in F : owner_rank(o) = r /\ a[o] = i
    BY DEF FreshPages
  <2> QED BY <2>1 DEF Without
<1> QED BY <1>3, <1>4, <1>5

\* The same of a draft allocation.
LEMMA AllocatedDrafts ==
  ASSUME NEW t, TableInv(t), NEW G \in SUBSET Nat, NEW d \in DraftAllocations(t, G)
  PROVE  /\ \A o \in G : /\ d[o] \in DraftIds /\ d[o] # NONE
                         /\ d[o] \in t.free_draft[owner_rank(o)]
         /\ \A o, p \in G : owner_rank(o) = owner_rank(p) /\ d[o] = d[p] => o = p
<1>1. d \in [G -> DraftIds] /\ PopsFirst(t.free_draft, G, d)
  BY DEF DraftAllocations
<1>2. /\ t.free_draft \in [Ranks -> SUBSET DraftIds] /\ DraftIds \subseteq Nat
      /\ NONE \notin DraftIds
  BY ConfigAssumption, NoneAssumption DEF TableInv, IsTable, DraftIds
<1>3. \A o \in G : d[o] \in DraftIds /\ d[o] # NONE /\ d[o] \in t.free_draft[owner_rank(o)]
  BY <1>1, <1>2 DEF PopsFirst
<1>4. t.free_draft \in [Ranks -> SUBSET Nat] /\ d \in [G -> Nat]
  BY <1>1, <1>2, Zenon
<1>5. \A o, p \in G : owner_rank(o) = owner_rank(p) /\ d[o] = d[p] => o = p
  BY <1>1, <1>4, PopsDistinct
<1> QED BY <1>3, <1>5

\* FreshOrdinal inverts the numbering of fresh pages.
LEMMA FreshOrdinalIs ==
  ASSUME NEW t, TableInv(t), NEW F \in SUBSET Nat, NEW a \in TargetAllocations(t, F),
         NEW p \in FreshPages(F, a)
  PROVE  /\ FreshOrdinal(F, a, p) \in F
         /\ p = <<owner_rank(FreshOrdinal(F, a, p)), a[FreshOrdinal(F, a, p)]>>
  BY DEF FreshPages, FreshOrdinal

\* allocate_page makes a page record.
LEMMA AllocatedRecord ==
  ASSUME NEW draft \in DraftIds \cup {NONE}, NEW state \in PageState,
         NEW valid \in 0..PAGE_TOKENS
  PROVE  LET q == allocate_page(draft, state, valid)
         IN  /\ q \in Page /\ q.references = 1 /\ q.draft = draft
             /\ q.prefix = NONE /\ q.state = state
  BY DEF allocate_page, Page

\* Below the number of pages that n positions need, every page has a position.
LEMMA PagesForBound ==
  ASSUME NEW n \in Nat, NEW k \in Nat, k < PagesFor(n)
  PROVE  k * PAGE_TOKENS < n
<1> DEFINE m == n + PAGE_TOKENS - 1
           q == m \div PAGE_TOKENS
<1>1. PAGE_TOKENS \in Nat /\ PAGE_TOKENS > 0 /\ m \in Nat
  BY ConfigAssumption
<1>2. q \in Nat /\ q * PAGE_TOKENS <= m
  <2> HIDE DEF m
  <2> QED BY <1>1
<1>a. PagesFor(n) = q
  BY DEF PagesFor
<1> HIDE DEF q
<1>3. k + 1 <= q
  BY <1>2, <1>a
<1>4. (k + 1) * PAGE_TOKENS <= q * PAGE_TOKENS
  BY <1>1, <1>2, <1>3
<1>5. (k + 1) * PAGE_TOKENS = k * PAGE_TOKENS + PAGE_TOKENS
  BY <1>1
<1>6. k * PAGE_TOKENS \in Nat /\ q * PAGE_TOKENS \in Nat
  BY <1>1, <1>2
<1> QED BY <1>1, <1>2, <1>4, <1>5, <1>6

\* The draft slots d of the ordinals G went to the pages at[o].
DraftsGoTo(t, u, fresh, G, d, at) ==
    /\ u.free_draft = Without(t.free_draft, G, d)
    /\ \A o \in G : /\ at[o] \in Drafted(t, u, fresh)
                    /\ at[o][1] = owner_rank(o)
                    /\ u.physical[at[o]].draft = d[o]
    /\ \A p \in Drafted(t, u, fresh) : \E o \in G : p = at[o]

\* The draft slots that Without takes are those of the drafted pages.
LEMMA DraftedSlots ==
  ASSUME NEW t, NEW u, NEW fresh, NEW G, NEW d, NEW at,
         DraftsGoTo(t, u, fresh, G, d, at)
  PROVE  u.free_draft =
         [r \in Ranks |-> {i \in t.free_draft[r] :
            \A p \in Drafted(t, u, fresh) : p[1] = r => u.physical[p].draft # i}]
<1> DEFINE drafted == Drafted(t, u, fresh)
<1> HIDE DEF drafted
<1>1. ASSUME NEW r \in Ranks, NEW i
      PROVE  (\A o \in G : owner_rank(o) = r => d[o] # i) <=>
             (\A p \in drafted : p[1] = r => u.physical[p].draft # i)
  BY DEF drafted, DraftsGoTo
<1>2. u.free_draft = [r \in Ranks |-> {i \in t.free_draft[r] :
                        \A o \in G : owner_rank(o) = r => d[o] # i}]
  BY DEF Without, DraftsGoTo
<1>3. ASSUME NEW r \in Ranks
      PROVE  {i \in t.free_draft[r] : \A o \in G : owner_rank(o) = r => d[o] # i} =
             {i \in t.free_draft[r] :
                \A p \in drafted : p[1] = r => u.physical[p].draft # i}
  BY <1>1, SMTT(30)
<1> QED BY <1>2, <1>3 DEF drafted

\* The index stays exact when the records on live pages stay and the new pages
\* carry none.
LEMMA SameIndex ==
  ASSUME NEW t, NEW u, NEW fresh, ExactIndex(t), u.prefixes = t.prefixes,
         DOMAIN u.physical = DOMAIN t.physical \cup fresh,
         \A p \in DOMAIN t.physical : u.physical[p].prefix = t.physical[p].prefix,
         \A p \in fresh : u.physical[p].prefix = NONE
  PROVE  ExactIndex(u)
<1>1. ASSUME NEW k \in DOMAIN u.prefixes
      PROVE  /\ u.prefixes[k] \in DOMAIN u.physical
             /\ u.physical[u.prefixes[k]].prefix # NONE
             /\ u.physical[u.prefixes[k]].prefix.key = k
  <2>1. /\ u.prefixes[k] \in DOMAIN t.physical
        /\ t.physical[u.prefixes[k]].prefix # NONE
        /\ t.physical[u.prefixes[k]].prefix.key = k
    BY DEF ExactIndex
  <2> QED BY <2>1
<1>2. ASSUME NEW p \in DOMAIN u.physical, u.physical[p].prefix # NONE
      PROVE  /\ u.physical[p].prefix.key \in DOMAIN u.prefixes
             /\ u.prefixes[u.physical[p].prefix.key] = p
  <2>1. p \in DOMAIN t.physical /\ u.physical[p].prefix = t.physical[p].prefix
    BY <1>2
  <2> QED BY <1>2, <2>1 DEF ExactIndex
<1> QED BY <1>1, <1>2 DEF ExactIndex

\* The positions a sequence's tail page still has, and what the fresh pages get.
LEMMA WrittenType ==
  ASSUME NEW t, TableInv(t), NEW id \in DOMAIN t.sequences, NEW tokens \in Nat
  PROVE  /\ TailRoom(t, id) \in 0..PAGE_TOKENS
         /\ tokens - Least(tokens, TailRoom(t, id)) \in Nat
         /\ FreshOrdinals(t, id, tokens) \in SUBSET Nat
         /\ \A o \in FreshOrdinals(t, id, tokens) :
              /\ o >= t.sequences[id].page_count
              /\ Written(t, id, tokens, o) \in 0..PAGE_TOKENS
<1> DEFINE count == t.sequences[id].page_count
           room == TailRoom(t, id)
           spill == tokens - Least(tokens, room)
<1>1. count \in Nat /\ PAGE_TOKENS \in Nat
  BY ConfigAssumption DEF TableInv, IsTable
<1>2. room \in 0..PAGE_TOKENS
  <2>1. CASE count = 0
    BY <1>1, <2>1 DEF TailRoom
  <2>2. CASE count # 0
    <3>1. TailPage(t, id) \in Held(t, id)
      BY <1>1, <2>2 DEF TailPage, Held
    <3>2. t.physical[TailPage(t, id)] \in Page
      BY <3>1 DEF TableInv, IsTable, CountedReferences
    <3>3. t.physical[TailPage(t, id)].valid_tokens \in 0..PAGE_TOKENS
      BY <3>2 DEF Page
    <3> QED BY <1>1, <2>2, <3>3 DEF TailRoom
  <2> QED BY <2>1, <2>2
<1> HIDE DEF room
<1>3. spill \in Nat /\ (spill > 0 => spill = tokens - room)
  BY <1>1, <1>2 DEF Least
<1> HIDE DEF spill, count
<1>4. FreshOrdinals(t, id, tokens) = count..(count + PagesFor(spill) - 1)
  BY DEF FreshOrdinals, spill, room, count
<1>5. PagesFor(spill) \in Nat
  BY <1>3, PagesForNat
<1>6. FreshOrdinals(t, id, tokens) \in SUBSET Nat
  BY <1>1, <1>4, <1>5
<1>7. ASSUME NEW o \in FreshOrdinals(t, id, tokens)
      PROVE  o >= count /\ Written(t, id, tokens, o) \in 0..PAGE_TOKENS
  <2> DEFINE k == o - count
  <2>1. o \in Int /\ o >= count /\ k \in Nat /\ k < PagesFor(spill)
    BY <1>1, <1>4, <1>5
  <2>2. Written(t, id, tokens, o) = Least(PAGE_TOKENS, tokens - room - k * PAGE_TOKENS)
    BY DEF Written, room, count
  <2> HIDE DEF k
  <2>3. k * PAGE_TOKENS < spill
    BY <1>3, <2>1, PagesForBound
  <2>4. k * PAGE_TOKENS \in Nat
    BY <1>1, <2>1
  <2>5. spill = tokens - room
    BY <1>3, <2>3, <2>4
  <2> QED BY <1>1, <1>2, <1>3, <2>1, <2>2, <2>3, <2>4, <2>5 DEF Least
<1> QED BY <1>2, <1>3, <1>6, <1>7 DEF room, spill, count

\* Writing positions behind the tail of a sequence whose tail page is its own
\* gains the fresh pages.
LEMMA ExtendTable ==
  ASSUME NEW t, TableInv(t), NEW id \in DOMAIN t.sequences, NEW tokens \in Nat,
         NEW states, TailIsExclusive(t, id, states),
         NEW a \in TargetAllocations(t, FreshOrdinals(t, id, tokens)),
         NEW d \in DraftAllocations(t, FreshDrafts(t, id, FreshOrdinals(t, id, tokens))),
         NEW full \in PageState, NEW partial \in PageState,
         NEW committed \in Nat, NEW tentative \in TentativeTail \cup {NONE}
  PROVE  Gains(t, Extended(t, id, tokens, a, d, full, partial, committed, tentative), id)
<1> DEFINE F == FreshOrdinals(t, id, tokens)
           G == FreshDrafts(t, id, F)
           fresh == FreshPages(F, a)
           count == t.sequences[id].page_count
           more == PagesFor(tokens - Least(tokens, TailRoom(t, id)))
           pages == PushedPages(t, id, F, a)
           page(p) == ExtendedPage(t, id, tokens, a, d, full, partial, p)
           u == Extended(t, id, tokens, a, d, full, partial, committed, tentative)
           row == [t.sequences[id] EXCEPT !.committed_tokens = committed,
                     !.page_count = count + more, !.pages = pages,
                     !.tentative = tentative]
<1>1. /\ IsTable(t) /\ Shaped(t) /\ CountedReferences(t) /\ WritersHoldOneReference(t)
      /\ ExactIndex(t) /\ InjectivePages(t)
  BY DEF TableInv
<1>2. /\ F \in SUBSET Nat /\ TailRoom(t, id) \in 0..PAGE_TOKENS
      /\ tokens - Least(tokens, TailRoom(t, id)) \in Nat
      /\ \A o \in F : o >= count /\ Written(t, id, tokens, o) \in 0..PAGE_TOKENS
  BY WrittenType
<1>3. /\ count \in Nat /\ more \in Nat /\ F = count..(count + more - 1)
      /\ t.sequences[id].pages \in [0..(count - 1) -> PhysicalPageId]
      /\ t.sequences[id].mtp \in BOOLEAN
  BY <1>1, <1>2, PagesForNat, Zenon DEF IsTable, FreshOrdinals
<1>4. G \in SUBSET Nat /\ (t.sequences[id].mtp => G = F) /\ (~t.sequences[id].mtp => G = {})
  BY <1>2, <1>3 DEF FreshDrafts
<1>5. u = [t EXCEPT !.free_target = Without(t.free_target, F, a),
                    !.free_draft = Without(t.free_draft, G, d),
                    !.physical = [p \in DOMAIN t.physical \cup fresh |-> page(p)],
                    !.sequences = [t.sequences EXCEPT ![id] = row]]
  BY DEF Extended
<1> HIDE DEF page, row, F, G, fresh, u
<1>6. /\ DOMAIN u = DOMAIN t
      /\ u.quarantined_target = t.quarantined_target
      /\ u.quarantined_draft = t.quarantined_draft
      /\ u.quarantine_generation = t.quarantine_generation
      /\ u.prefixes = t.prefixes
      /\ u.free_target = Without(t.free_target, F, a)
      /\ u.free_draft = Without(t.free_draft, G, d)
      /\ u.physical = [p \in DOMAIN t.physical \cup fresh |-> page(p)]
      /\ u.sequences = [t.sequences EXCEPT ![id] = row]
  BY <1>1, <1>5 DEF Shaped
<1>7. /\ DOMAIN row = {"mtp", "committed_tokens", "page_count", "pages", "tentative"}
      /\ row.mtp = t.sequences[id].mtp /\ row.committed_tokens = committed
      /\ row.page_count = count + more /\ row.pages = pages /\ row.tentative = tentative
  BY <1>1 DEF row, Shaped
<1>8. /\ \A o \in F : /\ <<owner_rank(o), a[o]>> \in PhysicalPageId
                      /\ a[o] \in t.free_target[owner_rank(o)]
                      /\ <<owner_rank(o), a[o]>> \notin DOMAIN t.physical
      /\ \A o, p \in F : <<owner_rank(o), a[o]>> = <<owner_rank(p), a[p]>> => o = p
      /\ Without(t.free_target, F, a) =
           [r \in Ranks |-> {i \in t.free_target[r] : <<r, i>> \notin fresh}]
  BY <1>2, AllocatedPages DEF F, fresh
<1>9. /\ \A o \in G : /\ d[o] \in DraftIds /\ d[o] # NONE
                      /\ d[o] \in t.free_draft[owner_rank(o)]
      /\ \A o, p \in G : owner_rank(o) = owner_rank(p) /\ d[o] = d[p] => o = p
  BY <1>4, AllocatedDrafts DEF F, G
<1>10. ASSUME NEW o \in F
       PROVE  LET q == page(<<owner_rank(o), a[o]>>)
              IN  /\ q \in Page /\ q.references = 1 /\ q.prefix = NONE
                  /\ q.draft = IF t.sequences[id].mtp THEN d[o] ELSE NONE
  <2> DEFINE p == <<owner_rank(o), a[o]>>
             w == Written(t, id, tokens, o)
             draft == IF t.sequences[id].mtp THEN d[o] ELSE NONE
             state == IF w = PAGE_TOKENS THEN full ELSE partial
  <2>1. p \in fresh
    BY DEF fresh, FreshPages
  <2>2. FreshOrdinal(F, a, p) = o
    BY <1>2, <1>8, <2>1, FreshOrdinalIs, SMTT(30) DEF F, fresh
  <2>3. page(p) = allocate_page(draft, state, w)
    BY <2>1, <2>2 DEF page, ExtendedPage, F, fresh
  <2>4. draft \in DraftIds \cup {NONE} /\ state \in PageState /\ w \in 0..PAGE_TOKENS
    BY <1>2, <1>3, <1>4, <1>9, SMTT(30)
  <2> HIDE DEF p, w, state
  <2> QED BY <2>3, <2>4, AllocatedRecord DEF p
<1>11. ASSUME NEW p \in DOMAIN t.physical
       PROVE  /\ page(p) \in Page
              /\ page(p).references = t.physical[p].references
              /\ page(p).draft = t.physical[p].draft
              /\ page(p).prefix = t.physical[p].prefix
              /\ page(p).state # "HbmSealed" => t.physical[p].references = 1
  <2>1. p \notin fresh
    BY <1>8 DEF fresh, FreshPages
  <2>2. t.physical[p] \in Page
    BY <1>1 DEF IsTable
  <2>3. CASE TailRoom(t, id) > 0 /\ p = TailPage(t, id)
    <3> DEFINE valid == t.physical[p].valid_tokens + Least(tokens, TailRoom(t, id))
               state == IF valid = PAGE_TOKENS THEN full ELSE partial
    <3>1. page(p) = Settled(t.physical[p], valid, state)
      BY <2>1, <2>3 DEF page, ExtendedPage, F, fresh
    <3>2. count # 0 => TailRoom(t, id) = PAGE_TOKENS - t.physical[p].valid_tokens
      BY <2>3 DEF TailRoom
    <3>3. count # 0
      BY <2>3 DEF TailRoom
    <3>4. t.physical[p].valid_tokens \in 0..PAGE_TOKENS /\ PAGE_TOKENS \in Nat
      BY <2>2, ConfigAssumption DEF Page
    <3>5. valid \in 0..PAGE_TOKENS
      BY <3>2, <3>3, <3>4, <1>2 DEF Least
    <3>6. t.physical[p].references = 1
      BY <2>3, SMTT(30) DEF TailIsExclusive
    <3> HIDE DEF valid
    <3> QED BY <2>2, <3>1, <3>5, <3>6, Zenon DEF Settled, Page, PageState
  <2>4. CASE ~(TailRoom(t, id) > 0 /\ p = TailPage(t, id))
    <3>1. page(p) = t.physical[p]
      BY <2>1, <2>4, SMTT(30) DEF page, ExtendedPage, F, fresh
    <3> QED BY <1>1, <2>2, <3>1, SMTT(30) DEF WritersHoldOneReference
  <2> QED BY <2>3, <2>4
<1> HIDE DEF count, more
<1> DEFINE total == count + more
<1>12. \A p \in fresh : \E o \in F : p = <<owner_rank(o), a[o]>>
  BY DEF fresh, FreshPages
<1>13. \A o \in F : <<owner_rank(o), a[o]>> \in fresh
  BY SMTT(30) DEF fresh, FreshPages
<1>14. /\ DOMAIN u.physical = DOMAIN t.physical \cup fresh
       /\ \A p \in DOMAIN u.physical : u.physical[p] = page(p)
       /\ fresh \subseteq PhysicalPageId /\ fresh \cap DOMAIN t.physical = {}
  BY <1>6, <1>8, <1>12, SMTT(30)
<1>15. \A p : p \in Drafted(t, u, fresh) <=> p \in fresh /\ t.sequences[id].mtp
  BY <1>3, <1>4, <1>9, <1>10, <1>11, <1>12, <1>14, SMTT(30) DEF Drafted
<1>16. \A o \in F : t.sequences[id].mtp =>
         u.physical[<<owner_rank(o), a[o]>>].draft = d[o]
  BY <1>10, <1>13, <1>14, SMTT(30)
<1>17. u.free_draft =
         [r \in Ranks |-> {i \in t.free_draft[r] :
            \A p \in Drafted(t, u, fresh) : p[1] = r => u.physical[p].draft # i}]
  <2> DEFINE at == [o \in G |-> <<owner_rank(o), a[o]>>]
  <2>1. \A o \in G : /\ at[o] \in Drafted(t, u, fresh) /\ at[o][1] = owner_rank(o)
                     /\ u.physical[at[o]].draft = d[o]
    BY <1>3, <1>4, <1>13, <1>15, <1>16
  <2>2. \A p \in Drafted(t, u, fresh) : \E o \in G : p = at[o]
    BY <1>4, <1>12, <1>15, Zenon
  <2> HIDE DEF at
  <2>3. DraftsGoTo(t, u, fresh, G, d, at)
    BY <1>6, <2>1, <2>2, SMTT(30) DEF DraftsGoTo
  <2> QED BY <2>3, DraftedSlots, SMTT(30)
<1>18. /\ \A p \in Drafted(t, u, fresh) : u.physical[p].draft \in t.free_draft[p[1]]
       /\ \A p, q \in Drafted(t, u, fresh) :
            p[1] = q[1] /\ u.physical[p].draft = u.physical[q].draft => p = q
  <2>1. ASSUME NEW p \in Drafted(t, u, fresh)
        PROVE  \E o \in G : p = <<owner_rank(o), a[o]>> /\ u.physical[p].draft = d[o]
    <3>1. p \in fresh /\ t.sequences[id].mtp
      BY <1>15
    <3>2. PICK o \in F : p = <<owner_rank(o), a[o]>>
      BY <1>12, <3>1, SMTT(30)
    <3> QED BY <1>4, <1>16, <3>1, <3>2, Zenon
  <2> QED BY <1>9, <2>1
<1>19. u.physical \in [DOMAIN t.physical \cup fresh -> Page]
  BY <1>6, <1>10, <1>11, <1>12
<1>20. ExactIndex(u)
  <2>1. \A p \in DOMAIN t.physical : u.physical[p].prefix = t.physical[p].prefix
    BY <1>11, <1>14, SMTT(30)
  <2>2. \A p \in fresh : u.physical[p].prefix = NONE
    BY <1>10, <1>12, <1>14, SMTT(30)
  <2> QED BY <1>1, <1>6, <1>14, <2>1, <2>2, SameIndex, Zenon
<1>21. /\ u.sequences = [s \in DOMAIN t.sequences \cup {id} |-> u.sequences[s]]
       /\ \A s \in DOMAIN t.sequences \ {id} : u.sequences[s] = t.sequences[s]
       /\ u.sequences[id] = row
  <2>1. t.sequences = [s \in DOMAIN t.sequences |-> t.sequences[s]]
    BY <1>1 DEF Shaped
  <2> QED BY <1>6, <2>1
<1> HIDE DEF total
<1>22. /\ pages \in [0..(total - 1) -> PhysicalPageId]
       /\ \A o \in 0..(count - 1) : pages[o] = t.sequences[id].pages[o]
       /\ \A o \in F : pages[o] = <<owner_rank(o), a[o]>>
  <2>1. 0..(count - 1) \cup F = 0..(total - 1)
    BY <1>3 DEF total
  <2>2. \A o \in F : ~(o < count)
    BY <1>2, <1>3
  <2>3. pages = [o \in 0..(count - 1) \cup F |->
                   IF o < count THEN t.sequences[id].pages[o] ELSE <<owner_rank(o), a[o]>>]
    BY DEF PushedPages, count
  <2> HIDE DEF pages
  <2>4. \A o \in 0..(count - 1) : o < count
    BY <1>3
  <2>5. /\ \A o \in 0..(count - 1) : pages[o] = t.sequences[id].pages[o]
        /\ \A o \in F : pages[o] = <<owner_rank(o), a[o]>>
    BY <2>2, <2>3, <2>4
  <2>6. \A o \in 0..(count - 1) \cup F : pages[o] \in PhysicalPageId
    BY <1>3, <1>8, <2>5, Zenon
  <2>7. pages \in [0..(count - 1) \cup F -> PhysicalPageId]
    BY <2>3, <2>6, Zenon
  <2> QED BY <2>1, <2>5, <2>7
<1> HIDE DEF pages
<1>23. \A o \in 0..(total - 1) : o \in 0..(count - 1) \/ o \in F
  BY <1>3 DEF total
<1>24. \A p : p \in Held(u, id) <=> p \in fresh \/ p \in Held(t, id)
  <2>0. u.sequences[id].pages = pages /\ u.sequences[id].page_count = total
    BY <1>7, <1>21 DEF total
  <2>1. Held(u, id) = {pages[o] : o \in 0..(total - 1)}
    BY <2>0 DEF Held
  <2>2. Held(t, id) = {t.sequences[id].pages[o] : o \in 0..(count - 1)}
    BY DEF Held, count
  <2>3. 0..(count - 1) \subseteq 0..(total - 1) /\ F \subseteq 0..(total - 1)
    BY <1>3 DEF total
  <2>4. ASSUME NEW p \in Held(u, id) PROVE p \in fresh \/ p \in Held(t, id)
    <3>1. PICK o \in 0..(total - 1) : p = pages[o]
      BY <2>1
    <3> QED BY <1>13, <1>22, <1>23, <2>2, <3>1, Zenon
  <2>5. ASSUME NEW p \in fresh PROVE p \in Held(u, id)
    BY <1>12, <1>22, <2>1, <2>3
  <2>6. ASSUME NEW p \in Held(t, id) PROVE p \in Held(u, id)
    <3>1. PICK o \in 0..(count - 1) : p = t.sequences[id].pages[o]
      BY <2>2
    <3> QED BY <1>22, <2>1, <2>3, <3>1
  <2> QED BY <2>4, <2>5, <2>6
<1>25. \A o, p \in 0..(total - 1) : pages[o] = pages[p] => o = p
  <2>1. \A o, p \in 0..(count - 1) :
          t.sequences[id].pages[o] = t.sequences[id].pages[p] => o = p
    BY <1>1, SMTT(30) DEF InjectivePages, count
  <2>2. \A o \in 0..(count - 1) : t.sequences[id].pages[o] \in DOMAIN t.physical
    BY <1>1 DEF CountedReferences, Held, count
  <2> SUFFICES ASSUME NEW o \in 0..(total - 1), NEW p \in 0..(total - 1),
                      pages[o] = pages[p]
               PROVE  o = p
    BY SMTT(30)
  <2>3. CASE o \in F /\ p \in F
    BY <1>8, <1>22, <2>3, SMTT(30)
  <2>4. CASE o \in 0..(count - 1) /\ p \in 0..(count - 1)
    BY <1>22, <2>1, <2>4
  <2>5. CASE o \in F /\ p \in 0..(count - 1)
    BY <1>8, <1>22, <2>2, <2>5, Zenon
  <2>6. CASE o \in 0..(count - 1) /\ p \in F
    BY <1>8, <1>22, <2>2, <2>6, ZenonT(30)
  <2> QED BY <1>23, <2>3, <2>4, <2>5, <2>6, SMTT(30)
<1>26. Gained(t, u, id, fresh, {})
  <2>1. \A p \in fresh : p[2] \in t.free_target[p[1]]
    BY <1>8, <1>12, SMTT(30)
  <2>2. \A p \in DOMAIN t.physical :
         /\ u.physical[p].draft = t.physical[p].draft
         /\ u.physical[p].references = t.physical[p].references
         /\ u.physical[p].state # "HbmSealed" => t.physical[p].references = 1
    BY <1>11, <1>14, SMTT(30)
  <2>3. \A p \in fresh : u.physical[p].references = 1
    BY <1>10, <1>12, <1>14
  <2>4. /\ u.prefixes = [k \in DOMAIN u.prefixes |-> u.prefixes[k]]
        /\ DOMAIN u.prefixes \subseteq {attachment.key : attachment \in Attachments}
    BY <1>1, <1>6, Zenon DEF Shaped, IsTable
  <2>5. /\ DOMAIN u.sequences[id] =
             {"mtp", "committed_tokens", "page_count", "pages", "tentative"}
        /\ u.sequences[id].mtp \in BOOLEAN
        /\ u.sequences[id].committed_tokens \in Nat
        /\ u.sequences[id].page_count = total
        /\ u.sequences[id].page_count \in Nat
        /\ u.sequences[id].pages = pages
        /\ u.sequences[id].tentative \in TentativeTail \cup {NONE}
    BY <1>3, <1>7, <1>21, SMTT(30) DEF total
  <2>6. u.free_target =
         [r \in Ranks |-> {i \in t.free_target[r] : <<r, i>> \notin fresh}]
    BY <1>6, <1>8
  <2>7. /\ u.sequences[id].pages \in
             [0..(u.sequences[id].page_count - 1) -> PhysicalPageId]
        /\ \A o, p \in 0..(u.sequences[id].page_count - 1) :
             u.sequences[id].pages[o] = u.sequences[id].pages[p] => o = p
    BY <1>22, <1>25, <2>5
  <2>8. \A p : p \in Held(u, id) <=>
          \/ p \in fresh \/ p \in {}
          \/ id \in DOMAIN t.sequences /\ p \in Held(t, id)
    BY <1>24
  <2>9. {} \subseteq DOMAIN t.physical /\ {} \cap Held(t, id) = {}
    BY SMTT(30)
  <2>10. \A p \in DOMAIN t.physical :
         /\ t.physical[p].draft # NONE => u.physical[p].draft = t.physical[p].draft
         /\ u.physical[p].references = IF p \in {}
                                       THEN t.physical[p].references + 1
                                       ELSE t.physical[p].references
         /\ u.physical[p].state # "HbmSealed" =>
              p \notin {} /\ t.physical[p].references = 1
    BY <2>2, SMTT(30)
  <2> QED BY <1>6, <1>14, <1>17, <1>18, <1>19, <1>20, <1>21,
             <2>1, <2>3, <2>4, <2>5, <2>6, <2>7, <2>8, <2>9, <2>10, Zenon DEF Gained
<1> QED BY <1>26 DEF Gains, u

\* append_committed gains the fresh pages.
LEMMA AppendTable ==
  ASSUME NEW t, TableInv(t), NEW id \in DOMAIN t.sequences, NEW tokens \in Nat,
         CanAppend(t, id, tokens),
         NEW a \in TargetAllocations(t, FreshOrdinals(t, id, tokens)),
         NEW d \in DraftAllocations(t, FreshDrafts(t, id, FreshOrdinals(t, id, tokens)))
  PROVE  Gains(t, append_committed(t, id, tokens, a, d), id)
<1>1. t.sequences[id].committed_tokens + tokens \in Nat
  BY DEF TableInv, IsTable
<1>2. "HbmSealed" \in PageState /\ "HbmMutable" \in PageState
  BY DEF PageState
<1>3. TailIsExclusive(t, id, {"HbmMutable"})
  BY SMTT(30) DEF CanAppend
<1> QED BY <1>1, <1>2, <1>3, ExtendTable, SMTT(30) DEF append_committed

\* begin_tentative gains the fresh pages.
LEMMA BeginTable ==
  ASSUME NEW t, TableInv(t), NEW id \in DOMAIN t.sequences, NEW tokens \in Nat \ {0},
         CanBeginTentative(t, id, tokens),
         NEW a \in TargetAllocations(t, FreshOrdinals(t, id, tokens)),
         NEW d \in DraftAllocations(t, FreshDrafts(t, id, FreshOrdinals(t, id, tokens)))
  PROVE  Gains(t, begin_tentative(t, id, tokens, a, d), id)
<1> DEFINE count == t.sequences[id].page_count
           tail == IF count = 0 THEN 0 ELSE t.physical[TailPage(t, id)].valid_tokens
           tentative == [original_page_count |-> count, original_tail_tokens |-> tail,
                         reserved_tokens |-> tokens]
<1>1. count \in Nat /\ t.sequences[id].committed_tokens \in Nat /\ PAGE_TOKENS \in Nat
  BY ConfigAssumption DEF TableInv, IsTable
<1>2. tail \in 0..PAGE_TOKENS
  <2>1. CASE count = 0
    BY <1>1, <2>1
  <2>2. CASE count # 0
    <3>1. TailPage(t, id) \in Held(t, id)
      BY <1>1, <2>2 DEF TailPage, Held
    <3>2. t.physical[TailPage(t, id)] \in Page
      BY <3>1, Zenon DEF TableInv, IsTable, CountedReferences
    <3> QED BY <2>2, <3>2 DEF Page
  <2> QED BY <2>1, <2>2
<1> HIDE DEF tail
<1>3. tentative \in TentativeTail
  BY <1>1, <1>2, SMTT(30) DEF TentativeTail
<1>4. begin_tentative(t, id, tokens, a, d) =
        Extended(t, id, tokens, a, d, "HbmTentative", "HbmTentative",
                 t.sequences[id].committed_tokens, tentative)
  BY DEF begin_tentative, tail
<1>5. TailIsExclusive(t, id, {"HbmMutable", "HbmTentative"}) /\ "HbmTentative" \in PageState
  BY DEF CanBeginTentative, PageState
<1> HIDE DEF tentative
<1> QED BY <1>1, <1>3, <1>4, <1>5, ExtendTable, SMTT(30)
=============================================================================
