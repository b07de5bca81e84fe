------------------------ MODULE PageTableReleaseProofs ------------------------
(***************************************************************************)
(* Removal, commit and rollback give pages back; new, bind and acknowledge *)
(* hold no page and preserve the invariant directly.                       *)
(***************************************************************************)
EXTENDS SequencePageTableInvariant, TLAPS

\* SequencePageTable::new establishes the invariant.
LEMMA NewTable == TableInv(new)
<1> DEFINE t == new
<1>1. IsTable(t)
  BY ConfigAssumption, SMTT(30) DEF IsTable, new, NoEntries
<1>2. Shaped(t)
  BY DEF Shaped, new, NoEntries
<1>3. TargetPartition(t)
  BY SMTT(30) DEF TargetPartition, new, NoEntries
<1>4. DraftPartition(t)
  BY SMTT(30) DEF DraftPartition, DraftUsers, new, NoEntries
<1>5. CountedReferences(t) /\ WritersHoldOneReference(t) /\ ExactIndex(t) /\ InjectivePages(t)
  BY DEF CountedReferences, WritersHoldOneReference, ExactIndex, InjectivePages, new, NoEntries
<1> QED BY <1>1, <1>2, <1>3, <1>4, <1>5, SMTT(30) DEF TableInv

\* acknowledge_reuse_quarantine preserves the invariant: the quarantined slots,
\* all of them unused, become the free ones.
LEMMA AckTable ==
  ASSUME NEW t, TableInv(t)
  PROVE  TableInv(acknowledge_reuse_quarantine(t))
<1> DEFINE u == acknowledge_reuse_quarantine(t)
<1> USE DEF TableInv
<1>0. /\ DOMAIN u = DOMAIN t
      /\ u.physical = t.physical /\ u.prefixes = t.prefixes
      /\ u.sequences = t.sequences
      /\ u.free_target = [r \in Ranks |-> t.free_target[r] \cup t.quarantined_target[r]]
      /\ u.free_draft = [r \in Ranks |-> t.free_draft[r] \cup t.quarantined_draft[r]]
      /\ u.quarantined_target = [r \in Ranks |-> {}]
      /\ u.quarantined_draft = [r \in Ranks |-> {}]
      /\ u.quarantine_generation = NONE
  BY DEF acknowledge_reuse_quarantine, Shaped
<1> HIDE DEF u
<1>1. IsTable(u)
  BY <1>0 DEF IsTable
<1>2. Shaped(u)
  BY <1>0 DEF Shaped
<1>3. TargetPartition(u)
  <2> SUFFICES ASSUME NEW r \in Ranks, NEW i \in TargetIds
               PROVE  TargetPartition(u)!(r, i)
    BY Zenon DEF TargetPartition
  <2>1. TargetPartition(t)!(r, i)
    BY DEF TargetPartition
  <2> QED BY <1>0, <2>1
<1>4. DraftPartition(u)
  BY <1>0 DEF DraftPartition, DraftUsers
<1>5. CountedReferences(u)
  BY <1>0, SMTT(30) DEF CountedReferences, Holders, Held
<1>6. WritersHoldOneReference(u) /\ ExactIndex(u) /\ InjectivePages(u)
  BY <1>0 DEF WritersHoldOneReference, ExactIndex, InjectivePages
<1> QED BY <1>1, <1>2, <1>3, <1>4, <1>5, <1>6 DEF u

\* Giving back the pages from an ordinal on preserves the invariant, once the
\* references are known to be counted.
LEMMA GiveBackPreserves ==
  ASSUME NEW t, TableInv(t), NEW id \in DOMAIN t.sequences,
         NEW from \in 0..t.sequences[id].page_count,
         NEW u, GaveBack(t, u, id, from), CountedReferences(u)
  PROVE  TableInv(u)
<1> DEFINE pages == PagesFrom(t, id, from)
           gone == Unreferenced(t, pages)
           count == t.sequences[id].page_count
<1>1. /\ IsTable(t) /\ Shaped(t) /\ TargetPartition(t) /\ DraftPartition(t)
      /\ CountedReferences(t) /\ WritersHoldOneReference(t) /\ ExactIndex(t)
      /\ InjectivePages(t)
  BY DEF TableInv
<1>2. /\ count \in Nat /\ from \in Nat /\ from <= count
      /\ t.sequences[id].pages \in [0..(count - 1) -> PhysicalPageId]
  BY <1>1 DEF IsTable
<1>3. pages \subseteq DOMAIN t.physical
  BY <1>1, <1>2 DEF PagesFrom, CountedReferences, Held
<1>4. gone \subseteq pages /\ \A p \in pages : p \in gone <=> t.physical[p].references = 1
  BY DEF Unreferenced
<1>5. /\ u.quarantined_target =
           [r \in Ranks |-> t.quarantined_target[r]
                              \cup {i \in TargetIds : <<r, i>> \in gone}]
      /\ u.quarantined_draft =
           [r \in Ranks |-> t.quarantined_draft[r] \cup
              {i \in DraftIds : \E p \in gone :
                  p[1] = r /\ t.physical[p].draft = i}]
      /\ u.prefixes =
           [k \in {k \in DOMAIN t.prefixes : \A p \in gone :
                 ~(t.physical[p].prefix # NONE
                   /\ t.physical[p].prefix.key = k)} |-> t.prefixes[k]]
  BY DEF GaveBack
<1>6. /\ DOMAIN u.physical = DOMAIN t.physical \ gone
      /\ \A p \in DOMAIN u.physical : u.physical[p] \in Page
  BY DEF GaveBack
<1> HIDE DEF pages, gone
<1>7. IsTable(u)
  <2>1. /\ u.free_target \in [Ranks -> SUBSET TargetIds]
        /\ u.free_draft \in [Ranks -> SUBSET DraftIds]
        /\ u.quarantine_generation \in Generations \cup {NONE}
    BY <1>1, SMTT(30) DEF GaveBack, IsTable
  <2>2. /\ u.quarantined_target \in [Ranks -> SUBSET TargetIds]
        /\ u.quarantined_draft \in [Ranks -> SUBSET DraftIds]
    BY <1>1, <1>5, SMTT(30) DEF IsTable
  <2>3. /\ DOMAIN u.prefixes \subseteq {attachment.key : attachment \in Attachments}
        /\ \A k \in DOMAIN u.prefixes : u.prefixes[k] \in PhysicalPageId
    BY <1>1, <1>5 DEF IsTable
  <2>4. /\ DOMAIN u.physical \subseteq PhysicalPageId
        /\ \A p \in DOMAIN u.physical : u.physical[p] \in Page
    BY <1>1, <1>6 DEF IsTable
  <2>5. ASSUME NEW s \in DOMAIN u.sequences
        PROVE  /\ s \in SequenceIds
               /\ u.sequences[s].mtp \in BOOLEAN
               /\ u.sequences[s].committed_tokens \in Nat
               /\ u.sequences[s].page_count \in Nat
               /\ u.sequences[s].pages \in
                    [0..(u.sequences[s].page_count - 1) -> PhysicalPageId]
               /\ u.sequences[s].tentative \in TentativeTail \cup {NONE}
    <3>1. CASE s # id
      BY <1>1, <3>1 DEF GaveBack, IsTable
    <3>2. CASE s = id
      <4>1. \A o \in 0..(from - 1) : o \in 0..(count - 1)
        BY <1>2, SMTT(30)
      <4>2. /\ u.sequences[id].mtp = t.sequences[id].mtp
            /\ u.sequences[id].committed_tokens \in Nat
            /\ u.sequences[id].tentative = NONE
            /\ u.sequences[id].page_count = from
            /\ u.sequences[id].pages =
                 [o \in 0..(from - 1) |-> t.sequences[id].pages[o]]
        BY <3>2 DEF GaveBack
      <4>3. u.sequences[id].pages \in [0..(from - 1) -> PhysicalPageId]
        BY <1>2, <4>1, <4>2, Zenon
      <4>4. id \in SequenceIds /\ t.sequences[id].mtp \in BOOLEAN
        BY <1>1, SMTT(30) DEF IsTable
      <4> QED BY <1>2, <3>2, <4>2, <4>3, <4>4
    <3> QED BY <3>1, <3>2, SMTT(30)
  <2> QED BY <2>1, <2>2, <2>3, <2>4, <2>5, SMTT(30) DEF IsTable
<1>8. Shaped(u)
  <2>1. DOMAIN u = DOMAIN t /\ u.physical \in [DOMAIN u.physical -> Page]
    BY <1>6, Zenon DEF GaveBack
  <2>2. u.prefixes = [k \in DOMAIN u.prefixes |-> u.prefixes[k]]
    BY <1>5, SMTT(30)
  <2>3. ASSUME NEW s \in DOMAIN u.sequences
        PROVE  DOMAIN u.sequences[s] =
                 {"mtp", "committed_tokens", "page_count", "pages", "tentative"}
    BY <1>1 DEF GaveBack, Shaped
  <2> QED BY <1>1, <2>1, <2>2, <2>3, Zenon DEF Shaped, GaveBack
<1>9. TargetPartition(u)
  <2> SUFFICES ASSUME NEW r \in Ranks, NEW i \in TargetIds
               PROVE  TargetPartition(u)!(r, i)
    BY Zenon DEF TargetPartition
  <2>1. TargetPartition(t)!(r, i)
    BY <1>1, SMTT(30) DEF TargetPartition
  <2>2. u.free_target = t.free_target
    BY DEF GaveBack
  <2>3. i \in u.quarantined_target[r] <=>
          i \in t.quarantined_target[r] \/ <<r, i>> \in gone
    BY <1>5
  <2>4. <<r, i>> \in gone => <<r, i>> \in DOMAIN t.physical
    BY <1>3, <1>4
  <2> QED BY <1>6, <2>1, <2>2, <2>3, <2>4
<1>10. DraftPartition(u)
  <2> SUFFICES ASSUME NEW r \in Ranks, NEW i \in DraftIds
               PROVE  DraftPartition(u)!(r, i)
    BY DEF DraftPartition
  <2>1. DraftPartition(t)!(r, i)
    BY <1>1, SMTT(30) DEF DraftPartition
  <2>2. u.free_draft = t.free_draft
    BY DEF GaveBack
  <2>3. i \in u.quarantined_draft[r] <=>
          \/ i \in t.quarantined_draft[r]
          \/ \E p \in gone : p[1] = r /\ t.physical[p].draft = i
    BY <1>5
  <2>4. \A p : p \in DraftUsers(u, r, i) <=> p \in DraftUsers(t, r, i) /\ p \notin gone
    BY <1>6 DEF DraftUsers, GaveBack, gone, pages
  <2>5. \A p \in gone : (p[1] = r /\ t.physical[p].draft = i) <=> p \in DraftUsers(t, r, i)
    BY <1>3, <1>4 DEF DraftUsers
  <2> HIDE DEF DraftUsers
  <2> QED BY <2>1, <2>2, <2>3, <2>4, <2>5
<1>14. \A o, p \in 0..(count - 1) :
         t.sequences[id].pages[o] = t.sequences[id].pages[p] => o = p
  BY <1>1, SMTT(30) DEF InjectivePages
<1>21. WritersHoldOneReference(u)
  <2> SUFFICES ASSUME NEW p \in DOMAIN u.physical, u.physical[p].state # "HbmSealed"
               PROVE  u.physical[p].references = 1
    BY DEF WritersHoldOneReference
  <2>1. p \in DOMAIN t.physical /\ p \notin gone
    BY <1>6, SMTT(30)
  <2>2. t.physical[p].state # "HbmSealed"
    BY <2>1 DEF GaveBack, gone, pages
  <2>3. t.physical[p].references = 1
    BY <1>1, <2>1, <2>2 DEF WritersHoldOneReference
  <2>4. p \notin pages
    BY <1>4, <2>1, <2>3
  <2> QED BY <2>1, <2>3, <2>4 DEF GaveBack, gone, pages
<1>22. ExactIndex(u)
  <2>1. \A p \in DOMAIN u.physical : u.physical[p].prefix = t.physical[p].prefix
    BY <1>6 DEF GaveBack, gone, pages
  <2>2. ASSUME NEW k \in DOMAIN u.prefixes
        PROVE  /\ u.prefixes[k] \in DOMAIN u.physical
               /\ u.physical[u.prefixes[k]].prefix # NONE
               /\ u.physical[u.prefixes[k]].prefix.key = k
    <3>1. k \in DOMAIN t.prefixes /\ u.prefixes[k] = t.prefixes[k]
      BY <1>5, SMTT(30)
    <3>2. /\ t.prefixes[k] \in DOMAIN t.physical
          /\ t.physical[t.prefixes[k]].prefix # NONE
          /\ t.physical[t.prefixes[k]].prefix.key = k
      BY <1>1, <3>1 DEF ExactIndex
    <3>3. t.prefixes[k] \notin gone
      BY <1>5, <3>2
    <3> QED BY <1>6, <2>1, <3>1, <3>2, <3>3
  <2>3. ASSUME NEW p \in DOMAIN u.physical, u.physical[p].prefix # NONE
        PROVE  /\ u.physical[p].prefix.key \in DOMAIN u.prefixes
               /\ u.prefixes[u.physical[p].prefix.key] = p
    <3> DEFINE k == t.physical[p].prefix.key
    <3>1. p \in DOMAIN t.physical /\ p \notin gone /\ u.physical[p].prefix.key = k
      BY <1>6, <2>1, SMTT(30)
    <3>2. k \in DOMAIN t.prefixes /\ t.prefixes[k] = p
      BY <1>1, <2>1, <2>3, <3>1, SMTT(30) DEF ExactIndex
    <3>3. \A q \in gone : ~(t.physical[q].prefix # NONE /\ t.physical[q].prefix.key = k)
      BY <1>1, <1>3, <1>4, <3>1, <3>2, SMTT(30) DEF ExactIndex
    <3> HIDE DEF k
    <3>4. k \in DOMAIN u.prefixes /\ u.prefixes[k] = t.prefixes[k]
      BY <1>5, <3>2, <3>3
    <3> QED BY <3>1, <3>2, <3>4
  <2> QED BY <2>2, <2>3, SMTT(30) DEF ExactIndex
<1>23. InjectivePages(u)
  <2> SUFFICES ASSUME NEW s \in DOMAIN u.sequences
               PROVE  InjectivePages(u)!(s)
    BY SMTT(30) DEF InjectivePages
  <2>1. CASE s # id
    BY <1>1, <2>1 DEF InjectivePages, GaveBack
  <2>2. CASE s = id
    <3>1. /\ u.sequences[id].page_count = from
          /\ u.sequences[id].pages =
               [o \in 0..(from - 1) |-> t.sequences[id].pages[o]]
      BY <2>2 DEF GaveBack
    <3> QED BY <1>2, <1>14, <2>2, <3>1, SMTT(30)
  <2> QED BY <2>1, <2>2
<1> QED
  BY <1>7, <1>8, <1>9, <1>10, <1>21, <1>22, <1>23 DEF TableInv

\* What release_page leaves alone, and what it puts into quarantine.
LEMMA ReleaseFields ==
  ASSUME NEW t, TableInv(t), NEW pages \in SUBSET DOMAIN t.physical
  PROVE  LET gone == Unreferenced(t, pages)
             u == release_page(t, pages)
         IN  /\ DOMAIN u = DOMAIN t
             /\ u.free_target = t.free_target
             /\ u.free_draft = t.free_draft
             /\ u.quarantine_generation = t.quarantine_generation
             /\ u.sequences = t.sequences
             /\ u.quarantined_target =
                  [r \in Ranks |-> t.quarantined_target[r]
                                     \cup {i \in TargetIds : <<r, i>> \in gone}]
             /\ u.quarantined_draft =
                  [r \in Ranks |-> t.quarantined_draft[r] \cup
                     {i \in DraftIds : \E p \in gone :
                         p[1] = r /\ t.physical[p].draft = i}]
             /\ u.prefixes =
                  [k \in {k \in DOMAIN t.prefixes : \A p \in gone :
                        ~(t.physical[p].prefix # NONE
                          /\ t.physical[p].prefix.key = k)} |-> t.prefixes[k]]
  BY DEF release_page, IndexWithout, TableInv, Shaped

\* The live pages after release_page.
LEMMA ReleasePhysical ==
  ASSUME NEW t, TableInv(t), NEW pages \in SUBSET DOMAIN t.physical
  PROVE  release_page(t, pages).physical =
           [p \in DOMAIN t.physical \ Unreferenced(t, pages) |->
              Dereferenced(t, pages, p)]
  BY DEF release_page, TableInv, Shaped

\* release_page changes the reference count of a surviving page and nothing else.
LEMMA ReleasedPage ==
  ASSUME NEW t, TableInv(t), NEW pages \in SUBSET DOMAIN t.physical,
         NEW p \in DOMAIN t.physical \ Unreferenced(t, pages)
  PROVE  LET q == release_page(t, pages).physical[p]
         IN  /\ q \in Page
             /\ q.references = IF p \in pages THEN t.physical[p].references - 1
                                              ELSE t.physical[p].references
             /\ q.draft = t.physical[p].draft
             /\ q.prefix = t.physical[p].prefix
             /\ q.state = t.physical[p].state
<1> DEFINE q == release_page(t, pages).physical[p]
<1>0. q = Dereferenced(t, pages, p)
  <2>1. release_page(t, pages).physical =
          [x \in DOMAIN t.physical \ Unreferenced(t, pages) |-> Dereferenced(t, pages, x)]
    BY ReleasePhysical
  <2> QED BY <2>1
<1>1. t.physical[p] \in Page
  BY DEF TableInv, IsTable
<1> HIDE DEF q
<1>2. CASE p \in pages
  <2>1. q = [t.physical[p] EXCEPT !.references = @ - 1]
    BY <1>2, <1>0 DEF Dereferenced
  <2>2. t.physical[p].references # 1
    BY <1>2 DEF Unreferenced
  <2>3. /\ q \in Page
        /\ q.references = t.physical[p].references - 1
        /\ q.draft = t.physical[p].draft
        /\ q.prefix = t.physical[p].prefix
        /\ q.state = t.physical[p].state
    BY <1>1, <2>1, <2>2 DEF Page
  <2> QED BY <1>2, <2>3 DEF q
<1>3. CASE p \notin pages
  <2>1. q = t.physical[p]
    BY <1>3, <1>0 DEF Dereferenced
  <2> QED BY <1>1, <1>3, <2>1 DEF q
<1> QED BY <1>2, <1>3

\* The pages that survive release_page are pages.
LEMMA ReleasedPhysicalType ==
  ASSUME NEW t, TableInv(t), NEW pages \in SUBSET DOMAIN t.physical
  PROVE  release_page(t, pages).physical \in
           [DOMAIN t.physical \ Unreferenced(t, pages) -> Page]
<1>1. release_page(t, pages).physical =
        [p \in DOMAIN t.physical \ Unreferenced(t, pages) |-> Dereferenced(t, pages, p)]
  BY ReleasePhysical
<1>2. \A p \in DOMAIN t.physical \ Unreferenced(t, pages) :
        release_page(t, pages).physical[p] \in Page
  BY ReleasedPage
<1> QED BY <1>1, <1>2

\* The pages a sequence holds are live.
LEMMA HeldIsLive ==
  ASSUME NEW t, TableInv(t), NEW id \in DOMAIN t.sequences, NEW from \in Nat
  PROVE  PagesFrom(t, id, from) \in SUBSET DOMAIN t.physical
  BY DEF TableInv, IsTable, CountedReferences, Held, PagesFrom

\* remove_sequence gives back every page of the sequence.
LEMMA RemoveTable ==
  ASSUME NEW t, TableInv(t), NEW id \in DOMAIN t.sequences
  PROVE  GivesBack(t, remove_sequence(t, id), id)
<1> DEFINE u == remove_sequence(t, id)
           pages == PagesFrom(t, id, 0)
           gone == Unreferenced(t, pages)
           released == release_page(t, pages)
<1>1. 0 \in 0..t.sequences[id].page_count
  BY DEF TableInv, IsTable
<1>2. pages \in SUBSET DOMAIN t.physical
  BY HeldIsLive, SMTT(30)
<1> HIDE DEF pages
<1>3. /\ DOMAIN released = DOMAIN t
      /\ released.free_target = t.free_target
      /\ released.free_draft = t.free_draft
      /\ released.quarantine_generation = t.quarantine_generation
      /\ released.quarantined_target =
           [r \in Ranks |-> t.quarantined_target[r]
                              \cup {i \in TargetIds : <<r, i>> \in gone}]
      /\ released.quarantined_draft =
           [r \in Ranks |-> t.quarantined_draft[r] \cup
              {i \in DraftIds : \E p \in gone :
                  p[1] = r /\ t.physical[p].draft = i}]
      /\ released.prefixes =
           [k \in {k \in DOMAIN t.prefixes : \A p \in gone :
                 ~(t.physical[p].prefix # NONE
                   /\ t.physical[p].prefix.key = k)} |-> t.prefixes[k]]
  BY <1>2, ReleaseFields
<1>4. released.physical \in [DOMAIN t.physical \ gone -> Page]
  BY <1>2, ReleasedPhysicalType, Zenon
<1>5. ASSUME NEW p \in DOMAIN t.physical \ gone
      PROVE  /\ released.physical[p].references =
                  IF p \in pages THEN t.physical[p].references - 1
                                 ELSE t.physical[p].references
             /\ released.physical[p].draft = t.physical[p].draft
             /\ released.physical[p].prefix = t.physical[p].prefix
             /\ released.physical[p].state = t.physical[p].state
  BY <1>2, ReleasedPage
<1> HIDE DEF released
<1>6. u = [released EXCEPT
            !.sequences = [s \in DOMAIN t.sequences \ {id} |-> t.sequences[s]]]
  BY DEF remove_sequence, released, pages
<1>7. /\ DOMAIN u = DOMAIN t
      /\ u.free_target = t.free_target
      /\ u.free_draft = t.free_draft
      /\ u.quarantine_generation = t.quarantine_generation
      /\ u.quarantined_target = released.quarantined_target
      /\ u.quarantined_draft = released.quarantined_draft
      /\ u.prefixes = released.prefixes
      /\ u.physical = released.physical
      /\ u.sequences = [s \in DOMAIN t.sequences \ {id} |-> t.sequences[s]]
  BY <1>3, <1>6, SMTT(30) DEF TableInv, Shaped
<1> HIDE DEF u
<1>8. GaveBack(t, u, id, 0)
  BY <1>3, <1>4, <1>5, <1>7 DEF GaveBack, gone, pages
<1> QED BY <1>1, <1>8 DEF GivesBack, u

\* u is Truncated(t, ...) with some of the kept pages settled: a page changes
\* its state and its valid count alone, and never from sealed to writable.
TruncatedAndSettled(t, u, id, count, committed) ==
    LET released == release_page(t, PagesFrom(t, id, count))
    IN  /\ DOMAIN u = DOMAIN t
        /\ \A f \in DOMAIN t \ {"physical"} :
             u[f] = Truncated(t, id, count, committed)[f]
        /\ u.physical \in
             [DOMAIN t.physical \ Unreferenced(t, PagesFrom(t, id, count)) -> Page]
        /\ \A p \in DOMAIN u.physical :
             /\ u.physical[p].references = released.physical[p].references
             /\ u.physical[p].draft = released.physical[p].draft
             /\ u.physical[p].prefix = released.physical[p].prefix
             /\ u.physical[p].state # "HbmSealed" =>
                  released.physical[p].state # "HbmSealed"

\* Shortening a sequence and settling the pages it keeps gives back the rest.
LEMMA TruncateTable ==
  ASSUME NEW t, TableInv(t), NEW id \in DOMAIN t.sequences,
         NEW count \in 0..t.sequences[id].page_count, NEW committed \in Nat,
         NEW u, TruncatedAndSettled(t, u, id, count, committed)
  PROVE  GivesBack(t, u, id)
<1> DEFINE pages == PagesFrom(t, id, count)
           gone == Unreferenced(t, pages)
           released == release_page(t, pages)
           kept == Truncated(t, id, count, committed)
<1>1. pages \in SUBSET DOMAIN t.physical
  <2>1. count \in Nat
    BY SMTT(30) DEF TableInv, IsTable
  <2> QED BY <2>1, HeldIsLive
<1> HIDE DEF pages
<1>2. /\ DOMAIN released = DOMAIN t
      /\ released.free_target = t.free_target
      /\ released.free_draft = t.free_draft
      /\ released.quarantine_generation = t.quarantine_generation
      /\ released.sequences = t.sequences
      /\ released.quarantined_target =
           [r \in Ranks |-> t.quarantined_target[r]
                              \cup {i \in TargetIds : <<r, i>> \in gone}]
      /\ released.quarantined_draft =
           [r \in Ranks |-> t.quarantined_draft[r] \cup
              {i \in DraftIds : \E p \in gone :
                  p[1] = r /\ t.physical[p].draft = i}]
      /\ released.prefixes =
           [k \in {k \in DOMAIN t.prefixes : \A p \in gone :
                 ~(t.physical[p].prefix # NONE
                   /\ t.physical[p].prefix.key = k)} |-> t.prefixes[k]]
  BY <1>1, ReleaseFields
<1>3. ASSUME NEW p \in DOMAIN t.physical \ gone
      PROVE  /\ released.physical[p].references =
                  IF p \in pages THEN t.physical[p].references - 1
                                 ELSE t.physical[p].references
             /\ released.physical[p].draft = t.physical[p].draft
             /\ released.physical[p].prefix = t.physical[p].prefix
             /\ released.physical[p].state = t.physical[p].state
  BY <1>1, ReleasedPage
<1> HIDE DEF released
<1> DEFINE cut == [t.sequences[id] EXCEPT !.committed_tokens = committed,
                      !.page_count = count,
                      !.pages = [o \in 0..(count - 1) |-> t.sequences[id].pages[o]],
                      !.tentative = NONE]
<1>4. DOMAIN t = {"free_target", "free_draft", "quarantined_target",
                   "quarantined_draft", "quarantine_generation", "physical",
                   "prefixes", "sequences"}
      /\ DOMAIN t.sequences[id] =
           {"mtp", "committed_tokens", "page_count", "pages", "tentative"}
  BY DEF TableInv, Shaped
<1>5. kept = [released EXCEPT !.sequences = [t.sequences EXCEPT ![id] = cut]]
  BY <1>2, <1>4 DEF Truncated, released, pages
<1> HIDE DEF kept
<1>6. cut.mtp = t.sequences[id].mtp
      /\ cut.committed_tokens = committed /\ cut.tentative = NONE /\ cut.page_count = count
      /\ cut.pages = [o \in 0..(count - 1) |-> t.sequences[id].pages[o]]
      /\ DOMAIN cut = DOMAIN t.sequences[id]
  BY <1>4, SMTT(30)
<1> HIDE DEF cut
<1>0. /\ DOMAIN u = DOMAIN t
      /\ \A f \in DOMAIN t \ {"physical"} : u[f] = kept[f]
      /\ u.physical \in [DOMAIN t.physical \ gone -> Page]
      /\ \A p \in DOMAIN u.physical :
           /\ u.physical[p].references = released.physical[p].references
           /\ u.physical[p].draft = released.physical[p].draft
           /\ u.physical[p].prefix = released.physical[p].prefix
           /\ u.physical[p].state # "HbmSealed" =>
                released.physical[p].state # "HbmSealed"
  BY DEF TruncatedAndSettled, kept, released, pages
<1>7. /\ u.free_target = t.free_target
      /\ u.free_draft = t.free_draft
      /\ u.quarantine_generation = t.quarantine_generation
      /\ u.quarantined_target = released.quarantined_target
      /\ u.quarantined_draft = released.quarantined_draft
      /\ u.prefixes = released.prefixes
      /\ u.sequences = [t.sequences EXCEPT ![id] = cut]
  BY <1>0, <1>2, <1>4, <1>5
<1>8. /\ u.sequences = [s \in DOMAIN u.sequences |-> u.sequences[s]]
      /\ DOMAIN u.sequences = DOMAIN t.sequences
      /\ u.sequences[id] = cut
      /\ \A s \in DOMAIN t.sequences \ {id} : u.sequences[s] = t.sequences[s]
  BY <1>7 DEF TableInv, Shaped
<1>9. GaveBack(t, u, id, count)
  <2>1. \A p \in DOMAIN t.physical \ gone :
          /\ u.physical[p].references = IF p \in pages
                                        THEN t.physical[p].references - 1
                                        ELSE t.physical[p].references
          /\ u.physical[p].draft = t.physical[p].draft
          /\ u.physical[p].prefix = t.physical[p].prefix
          /\ u.physical[p].state # "HbmSealed" => t.physical[p].state # "HbmSealed"
    BY <1>0, <1>3, SMTT(30)
  <2>2. /\ DOMAIN u.sequences \subseteq DOMAIN t.sequences
        /\ \A s \in DOMAIN t.sequences \ {id} :
             s \in DOMAIN u.sequences /\ u.sequences[s] = t.sequences[s]
        /\ id \in DOMAIN u.sequences
        /\ DOMAIN u.sequences[id] = DOMAIN t.sequences[id]
        /\ u.sequences[id].mtp = t.sequences[id].mtp
        /\ u.sequences[id].committed_tokens \in Nat
        /\ u.sequences[id].tentative = NONE
        /\ u.sequences[id].page_count = count
        /\ u.sequences[id].pages =
             [o \in 0..(count - 1) |-> t.sequences[id].pages[o]]
    BY <1>6, <1>8
  <2> QED BY <1>0, <1>2, <1>7, <1>8, <2>1, <2>2, Zenon DEF GaveBack, gone, pages
<1> QED BY <1>9 DEF GivesBack

\* Settling a page changes its length and its state only.
LEMMA SettledPage ==
  ASSUME NEW page \in Page, NEW valid \in 0..PAGE_TOKENS, NEW state \in PageState
  PROVE  LET q == Settled(page, valid, state)
         IN  /\ q \in Page
             /\ q.references = page.references
             /\ q.draft = page.draft
             /\ q.prefix = page.prefix
             /\ q.state = state
  BY Zenon DEF Settled, Page

\* The live pages after a truncation are those of the release it makes.
LEMMA TruncatedFields ==
  ASSUME NEW t, TableInv(t), NEW id \in DOMAIN t.sequences,
         NEW count \in 0..t.sequences[id].page_count, NEW committed
  PROVE  LET kept == Truncated(t, id, count, committed)
         IN  /\ DOMAIN kept = DOMAIN t
             /\ kept.physical = release_page(t, PagesFrom(t, id, count)).physical
             /\ "physical" \in DOMAIN t
<1> DEFINE pages == PagesFrom(t, id, count)
           released == release_page(t, pages)
<1>1. pages \in SUBSET DOMAIN t.physical
  <2>1. count \in Nat
    BY DEF TableInv, IsTable
  <2> QED BY <2>1, HeldIsLive
<1> HIDE DEF pages
<1>2. DOMAIN released = DOMAIN t
  BY <1>1, ReleaseFields, Zenon
<1> HIDE DEF released
<1>3. DOMAIN t = {"free_target", "free_draft", "quarantined_target",
                   "quarantined_draft", "quarantine_generation", "physical",
                   "prefixes", "sequences"}
  BY DEF TableInv, Shaped
<1> DEFINE rows == [t.sequences EXCEPT ![id] =
                     [t.sequences[id] EXCEPT
                        !.committed_tokens = committed,
                        !.page_count = count,
                        !.pages = [o \in 0..(count - 1) |-> t.sequences[id].pages[o]],
                        !.tentative = NONE]]
<1>4. Truncated(t, id, count, committed) = [released EXCEPT !.sequences = rows]
  BY DEF Truncated, released, pages
<1> HIDE DEF rows
<1> QED BY <1>2, <1>3, <1>4 DEF released, pages

\* The length commit_tentative computes for a page is at most a page.
LEMMA CommittedValidType ==
  ASSUME NEW t, NEW id, t.sequences[id].committed_tokens \in Nat, NEW tokens \in Nat, NEW o
  PROVE  CommittedValid(t, id, tokens, o) \in 0..PAGE_TOKENS
  BY ConfigAssumption DEF CommittedValid

\* The same when each page that Truncated keeps is settled or not.
LEMMA SettleTable ==
  ASSUME NEW t, TableInv(t), NEW id \in DOMAIN t.sequences,
         NEW count \in 0..t.sequences[id].page_count, NEW committed \in Nat,
         NEW f,
         f = [p \in DOMAIN Truncated(t, id, count, committed).physical |-> f[p]],
         \A p \in DOMAIN Truncated(t, id, count, committed).physical :
            LET q == Truncated(t, id, count, committed).physical[p]
            IN  \/ f[p] = q
                \/ /\ q.state = "HbmTentative"
                   /\ \E valid \in 0..PAGE_TOKENS, state \in PageState :
                        f[p] = Settled(q, valid, state)
  PROVE  GivesBack(t, [Truncated(t, id, count, committed) EXCEPT !.physical = f], id)
<1> DEFINE pages == PagesFrom(t, id, count)
           released == release_page(t, pages)
           kept == Truncated(t, id, count, committed)
           u == [kept EXCEPT !.physical = f]
<1>1. pages \in SUBSET DOMAIN t.physical
  <2>1. count \in Nat
    BY DEF TableInv, IsTable
  <2> QED BY <2>1, HeldIsLive
<1>2. /\ DOMAIN kept = DOMAIN t /\ "physical" \in DOMAIN t
      /\ kept.physical = released.physical
  BY TruncatedFields
<1>3. released.physical \in [DOMAIN t.physical \ Unreferenced(t, pages) -> Page]
  <2> HIDE DEF pages
  <2> QED BY <1>1, ReleasedPhysicalType, Zenon
<1>4. ASSUME NEW p \in DOMAIN kept.physical
      PROVE  /\ f[p] \in Page
             /\ f[p].references = released.physical[p].references
             /\ f[p].draft = released.physical[p].draft
             /\ f[p].prefix = released.physical[p].prefix
             /\ f[p].state # "HbmSealed" => released.physical[p].state # "HbmSealed"
  <2> DEFINE q == kept.physical[p]
  <2>1. q = released.physical[p] /\ q \in Page
    BY <1>2, <1>3
  <2>2. \/ f[p] = q
        \/ /\ q.state = "HbmTentative"
           /\ \E valid \in 0..PAGE_TOKENS, state \in PageState :
                f[p] = Settled(q, valid, state)
    BY Zenon
  <2> HIDE DEF q, kept, released
  <2>3. CASE f[p] = q
    BY <2>1, <2>3
  <2>4. CASE /\ q.state = "HbmTentative"
             /\ \E valid \in 0..PAGE_TOKENS, state \in PageState :
                  f[p] = Settled(q, valid, state)
    <3>1. PICK valid \in 0..PAGE_TOKENS, state \in PageState :
            f[p] = Settled(q, valid, state)
      BY <2>4
    <3> QED BY <2>1, <2>4, <3>1, SettledPage
  <2> QED BY <2>2, <2>3, <2>4
<1> HIDE DEF kept
<1>5. f = [p \in DOMAIN kept.physical |-> f[p]]
  BY DEF kept
<1>6. f \in [DOMAIN t.physical \ Unreferenced(t, pages) -> Page]
  <2> HIDE DEF pages, released
  <2> QED BY <1>2, <1>3, <1>4, <1>5
<1>7. /\ DOMAIN u = DOMAIN t
      /\ u.physical = f
      /\ \A g \in DOMAIN t \ {"physical"} : u[g] = kept[g]
  BY <1>2
<1> HIDE DEF u
<1>8. \A p \in DOMAIN u.physical :
        LET q == released.physical[p]
        IN  /\ u.physical[p].references = q.references
            /\ u.physical[p].draft = q.draft
            /\ u.physical[p].prefix = q.prefix
            /\ u.physical[p].state # "HbmSealed" => q.state # "HbmSealed"
  BY <1>4, <1>5, <1>7, SMTT(30)
<1>9. u.physical \in [DOMAIN t.physical \ Unreferenced(t, pages) -> Page]
  BY <1>6, <1>7
<1>10. TruncatedAndSettled(t, u, id, count, committed)
  BY <1>7, <1>8, <1>9, SMTT(30) DEF TruncatedAndSettled, kept, released, pages
<1> QED BY <1>10, TruncateTable DEF u, kept

\* commit_tentative gives back the pages behind the accepted positions.
LEMMA CommitTable ==
  ASSUME NEW t, TableInv(t), NEW id \in DOMAIN t.sequences, NEW tokens \in Nat,
         CanCommitTentative(t, id, tokens)
  PROVE  GivesBack(t, commit_tentative(t, id, tokens), id)
<1> DEFINE count == CommittedCount(t, id, tokens)
           committed == t.sequences[id].committed_tokens + tokens
           kept == Truncated(t, id, count, committed)
           settled == SettledOrdinals(t, id, tokens)
           valid(p) == CommittedValid(t, id, tokens,
                          CHOOSE o \in settled : t.sequences[id].pages[o] = p)
           page(p) == IF \E o \in settled : t.sequences[id].pages[o] = p
                      THEN Settled(kept.physical[p], valid(p), CommittedState(valid(p)))
                      ELSE kept.physical[p]
           f == [p \in DOMAIN kept.physical |-> page(p)]
<1>1. /\ t.sequences[id].committed_tokens \in Nat
      /\ t.sequences[id].page_count \in Nat
  BY DEF TableInv, IsTable
<1>2. committed \in Nat /\ count \in 0..t.sequences[id].page_count
  <2>1. \A n \in Nat : PagesFor(n) \in Nat
    BY ConfigAssumption DEF PagesFor
  <2>2. committed \in Nat
    BY <1>1
  <2>3. count = PagesFor(committed)
    BY DEF CommittedCount
  <2>4. count \in Nat
    BY <2>1, <2>2, <2>3
  <2>5. count <= t.sequences[id].page_count
    BY Zenon DEF CanCommitTentative
  <2> QED BY <1>1, <2>2, <2>4, <2>5
<1>3. commit_tentative(t, id, tokens) = [kept EXCEPT !.physical = f]
  BY DEF commit_tentative
<1>4. ASSUME NEW p \in DOMAIN kept.physical,
             \E o \in settled : t.sequences[id].pages[o] = p
      PROVE  kept.physical[p].state = "HbmTentative"
  <2> DEFINE pages == PagesFrom(t, id, count)
  <2>1. pages \in SUBSET DOMAIN t.physical
    BY <1>2, HeldIsLive
  <2>2. kept.physical = release_page(t, pages).physical
    BY <1>2, TruncatedFields
  <2>3. t.physical[p].state = "HbmTentative"
    BY <1>4 DEF SettledOrdinals
  <2> HIDE DEF pages, kept
  <2>4. p \in DOMAIN t.physical \ Unreferenced(t, pages)
    BY <2>1, <2>2, ReleasedPhysicalType, Zenon
  <2>5. release_page(t, pages).physical[p].state = t.physical[p].state
    BY <2>1, <2>4, ReleasedPage
  <2> QED BY <2>2, <2>3, <2>5
<1>5. ASSUME NEW p \in DOMAIN kept.physical
      PROVE  LET q == kept.physical[p]
             IN  \/ f[p] = q
                 \/ /\ q.state = "HbmTentative"
                    /\ \E v \in 0..PAGE_TOKENS, state \in PageState :
                         f[p] = Settled(q, v, state)
  <2>1. valid(p) \in 0..PAGE_TOKENS
    BY <1>1, CommittedValidType
  <2> HIDE DEF valid
  <2>2. CommittedState(valid(p)) \in PageState
    BY DEF CommittedState, PageState
  <2> HIDE DEF kept, settled
  <2> QED BY <1>4, <2>1, <2>2
<1> HIDE DEF page
<1>6. f = [p \in DOMAIN kept.physical |-> f[p]]
  OBVIOUS
<1> HIDE DEF f, count, committed, kept
<1>7. GivesBack(t, [kept EXCEPT !.physical = f], id)
  BY <1>2, <1>5, <1>6, SettleTable, SMTT(30) DEF kept
<1> QED BY <1>3, <1>7

\* rollback_tentative gives back the pages the reservation added.
LEMMA RollbackTable ==
  ASSUME NEW t, TableInv(t), NEW id \in DOMAIN t.sequences,
         CanRollbackTentative(t, id)
  PROVE  GivesBack(t, rollback_tentative(t, id), id)
<1> DEFINE count == t.sequences[id].tentative.original_page_count
           committed == t.sequences[id].committed_tokens
           tail == t.sequences[id].tentative.original_tail_tokens
           kept == Truncated(t, id, count, committed)
           page(p) == IF /\ count # 0
                         /\ p = t.sequences[id].pages[count - 1]
                         /\ kept.physical[p].state = "HbmTentative"
                      THEN Settled(kept.physical[p], tail, "HbmMutable")
                      ELSE kept.physical[p]
           f == [p \in DOMAIN kept.physical |-> page(p)]
<1>1. /\ t.sequences[id].committed_tokens \in Nat
      /\ t.sequences[id].page_count \in Nat
      /\ t.sequences[id].tentative \in TentativeTail
  BY Zenon DEF TableInv, IsTable, CanRollbackTentative
<1>2. /\ committed \in Nat /\ count \in 0..t.sequences[id].page_count
      /\ tail \in 0..PAGE_TOKENS /\ "HbmMutable" \in PageState
  <2>1. count <= t.sequences[id].page_count
    BY Zenon DEF CanRollbackTentative
  <2>2. count \in Nat /\ tail \in 0..PAGE_TOKENS
    BY <1>1 DEF TentativeTail
  <2> HIDE DEF count
  <2> QED BY <1>1, <2>1, <2>2 DEF PageState
<1>3. rollback_tentative(t, id) = [kept EXCEPT !.physical = f]
  BY SMTT(30) DEF rollback_tentative
<1> HIDE DEF kept, tail
<1>5. ASSUME NEW p \in DOMAIN kept.physical
      PROVE  LET q == kept.physical[p]
             IN  \/ f[p] = q
                 \/ /\ q.state = "HbmTentative"
                    /\ \E v \in 0..PAGE_TOKENS, state \in PageState :
                         f[p] = Settled(q, v, state)
  BY <1>2, Zenon
<1> HIDE DEF page
<1>6. f = [p \in DOMAIN kept.physical |-> f[p]]
  OBVIOUS
<1> HIDE DEF f, count, committed
<1>7. GivesBack(t, [kept EXCEPT !.physical = f], id)
  BY <1>2, <1>5, <1>6, SettleTable DEF kept
<1> QED BY <1>3, <1>7

-----------------------------------------------------------------------------
(* The table as a whole.                                                   *)

\* bind_reuse_quarantine preserves the invariant.
LEMMA BindTable ==
  ASSUME NEW t, TableInv(t), NEW generation \in Generations
  PROVE  TableInv(bind_reuse_quarantine(t, generation))
<1> DEFINE u == bind_reuse_quarantine(t, generation)
<1>1. CASE QuarantineIsEmpty(t)
  BY <1>1 DEF bind_reuse_quarantine
<1>2. CASE ~QuarantineIsEmpty(t)
  <2>1. u = [t EXCEPT !.quarantine_generation = generation]
    BY <1>2 DEF bind_reuse_quarantine
  <2>2. /\ DOMAIN u = DOMAIN t
        /\ u.physical = t.physical /\ u.prefixes = t.prefixes
        /\ u.sequences = t.sequences
        /\ u.free_target = t.free_target /\ u.free_draft = t.free_draft
        /\ u.quarantined_target = t.quarantined_target
        /\ u.quarantined_draft = t.quarantined_draft
        /\ u.quarantine_generation = generation
    BY <2>1, SMTT(30) DEF TableInv, Shaped
  <2> HIDE DEF u
  <2>3. IsTable(u) /\ Shaped(u)
    BY <2>2, SMTT(30) DEF TableInv, IsTable, Shaped
  <2>4. TargetPartition(u) /\ DraftPartition(u)
    BY <2>2 DEF TableInv, TargetPartition, DraftPartition, DraftUsers
  <2>5. CountedReferences(u)
    <3>1. \A s : Held(u, s) = Held(t, s)
      BY <2>2 DEF Held
    <3>2. \A p : Holders(u, p) = Holders(t, p)
      BY <2>2, <3>1 DEF Holders
    <3> QED BY <2>2, <3>1, <3>2 DEF TableInv, CountedReferences
  <2>6. WritersHoldOneReference(u)
    BY <2>2, SMTT(30) DEF TableInv, WritersHoldOneReference
  <2>7. ExactIndex(u)
    BY <2>2 DEF TableInv, ExactIndex
  <2>8. InjectivePages(u)
    BY <2>2 DEF TableInv, InjectivePages
  <2> QED BY <2>3, <2>4, <2>5, <2>6, <2>7, <2>8 DEF TableInv, u
<1> QED BY <1>1, <1>2
=============================================================================
