------------------------- MODULE PageTableAdmitProofs -------------------------
(***************************************************************************)
(* fork_sequence and admit_with_prefix gain pages, fresh and shared.       *)
(***************************************************************************)
EXTENDS PageTableGainProofs

\* fork_sequence gains pages: shared pages gain a reference and a
\* holder, copied pages are fresh.
LEMMA ForkTable ==
  ASSUME NEW t, TableInv(t), NEW source \in DOMAIN t.sequences,
         NEW id \in SequenceIds \ DOMAIN t.sequences, CanFork(t, source),
         NEW a \in TargetAllocations(t, ForkCopies(t, source)),
         NEW d \in DraftAllocations(t, FreshDrafts(t, source, ForkCopies(t, source)))
  PROVE  Gains(t, fork_sequence(t, source, id, a, d), id)
<1> DEFINE F == ForkCopies(t, source)
           G == FreshDrafts(t, source, F)
           fresh == FreshPages(F, a)
           shared == ForkShared(t, source)
           count == t.sequences[source].page_count
           old == t.sequences[source].pages
           pages == ForkedPages(t, source, a)
           page(p) == ForkedPage(t, source, a, d, p)
           u == fork_sequence(t, source, id, a, d)
           row == [t.sequences[source] EXCEPT !.pages = pages]
<1>1. /\ IsTable(t) /\ Shaped(t) /\ CountedReferences(t) /\ WritersHoldOneReference(t)
      /\ ExactIndex(t) /\ InjectivePages(t)
  BY SMTT(30) DEF TableInv
<1>2. /\ count \in Nat /\ old \in [0..(count - 1) -> PhysicalPageId]
      /\ t.sequences[source].mtp \in BOOLEAN
      /\ t.sequences[source].committed_tokens \in Nat
      /\ t.sequences[source].tentative = NONE
  BY <1>1 DEF IsTable, CanFork
<1>3. /\ \A o \in 0..(count - 1) : old[o] \in DOMAIN t.physical
      /\ \A o, p \in 0..(count - 1) : old[o] = old[p] => o = p
  BY <1>1 DEF CountedReferences, Held, InjectivePages
<1>4. F \subseteq 0..(count - 1) /\ F \in SUBSET Nat
  <2>1. F \subseteq 0..(count - 1)
    BY Zenon DEF ForkCopies
  <2> QED BY <1>2, <2>1
<1>5. G \in SUBSET Nat /\ (t.sequences[source].mtp => G = F)
      /\ (~t.sequences[source].mtp => G = {})
  BY <1>2, <1>4 DEF FreshDrafts
<1>6. shared = {old[o] : o \in (0..(count - 1)) \ F}
  BY DEF ForkShared
<1>7. \A o \in (0..(count - 1)) \ F : t.physical[old[o]].state = "HbmSealed"
  BY Zenon DEF ForkCopies
<1>8. u = [t EXCEPT !.free_target = Without(t.free_target, F, a),
                    !.free_draft = Without(t.free_draft, G, d),
                    !.physical = [p \in DOMAIN t.physical \cup fresh |-> page(p)],
                    !.sequences = [s \in DOMAIN t.sequences \cup {id} |->
                                     IF s = id THEN row ELSE t.sequences[s]]]
  BY DEF fork_sequence
<1>9. /\ DOMAIN row = {"mtp", "committed_tokens", "page_count", "pages", "tentative"}
      /\ row.mtp = t.sequences[source].mtp /\ row.pages = pages /\ row.page_count = count
      /\ row.committed_tokens = t.sequences[source].committed_tokens
      /\ row.tentative = NONE
  BY <1>1, <1>2 DEF Shaped
<1>10. pages = [o \in 0..(count - 1) |-> IF o \in F THEN <<owner_rank(o), a[o]>> ELSE old[o]]
  BY DEF ForkedPages
<1> HIDE DEF page, row, F, G, fresh, shared, u, pages
<1>11. /\ DOMAIN u = DOMAIN t
       /\ u.quarantined_target = t.quarantined_target
       /\ u.quarantined_draft = t.quarantined_draft
       /\ u.quarantine_generation = t.quarantine_generation
       /\ u.prefixes = t.prefixes
       /\ u.free_target = Without(t.free_target, F, a)
       /\ u.free_draft = Without(t.free_draft, G, d)
       /\ u.physical = [p \in DOMAIN t.physical \cup fresh |-> page(p)]
       /\ u.sequences = [s \in DOMAIN t.sequences \cup {id} |->
                           IF s = id THEN row ELSE t.sequences[s]]
  BY <1>1, <1>8, Zenon DEF Shaped
<1>12. /\ \A o \in F : /\ <<owner_rank(o), a[o]>> \in PhysicalPageId
                       /\ a[o] \in t.free_target[owner_rank(o)]
                       /\ <<owner_rank(o), a[o]>> \notin DOMAIN t.physical
       /\ \A o, p \in F : <<owner_rank(o), a[o]>> = <<owner_rank(p), a[p]>> => o = p
       /\ Without(t.free_target, F, a) =
            [r \in Ranks |-> {i \in t.free_target[r] : <<r, i>> \notin fresh}]
  BY <1>4, AllocatedPages DEF F, fresh
<1>13. /\ \A o \in G : /\ d[o] \in DraftIds /\ d[o] # NONE
                       /\ d[o] \in t.free_draft[owner_rank(o)]
       /\ \A o, p \in G : owner_rank(o) = owner_rank(p) /\ d[o] = d[p] => o = p
  BY <1>5, AllocatedDrafts DEF F, G
<1>14. ASSUME NEW o \in F
       PROVE  LET q == page(<<owner_rank(o), a[o]>>)
              IN  /\ q \in Page /\ q.references = 1 /\ q.prefix = NONE
                  /\ q.draft = IF t.sequences[source].mtp THEN d[o] ELSE NONE
  <2> DEFINE p == <<owner_rank(o), a[o]>>
             w == t.physical[old[o]].valid_tokens
             draft == IF t.sequences[source].mtp THEN d[o] ELSE NONE
  <2>1. p \in fresh
    BY DEF fresh, FreshPages
  <2>2. FreshOrdinal(F, a, p) = o
    BY <1>4, <1>12, <2>1, FreshOrdinalIs, SMTT(30) DEF F, fresh
  <2>3. page(p) = allocate_page(draft, "HbmMutable", w)
    BY <2>1, <2>2 DEF page, ForkedPage, F, fresh
  <2>4. t.physical[old[o]] \in Page
    BY <1>1, <1>3, <1>4 DEF IsTable
  <2>5. draft \in DraftIds \cup {NONE} /\ "HbmMutable" \in PageState /\ w \in 0..PAGE_TOKENS
    BY <1>2, <1>5, <1>13, <2>4, Zenon DEF PageState, Page
  <2> HIDE DEF p, w
  <2> QED BY <2>3, <2>5, AllocatedRecord DEF p
<1>15. ASSUME NEW p \in DOMAIN t.physical
       PROVE  /\ page(p) \in Page
              /\ page(p).references = IF p \in shared THEN t.physical[p].references + 1
                                                      ELSE t.physical[p].references
              /\ page(p).draft = t.physical[p].draft
              /\ page(p).prefix = t.physical[p].prefix
              /\ page(p).state # "HbmSealed" =>
                   p \notin shared /\ t.physical[p].references = 1
  <2>1. p \notin fresh
    BY <1>12 DEF fresh, FreshPages
  <2>2. t.physical[p] \in Page
    BY <1>1 DEF IsTable
  <2>3. CASE p \in shared
    <3>1. page(p) = [t.physical[p] EXCEPT !.references = @ + 1]
      BY <2>1, <2>3 DEF page, ForkedPage, F, fresh, shared
    <3>2. t.physical[p].state = "HbmSealed"
      BY <1>6, <1>7, <2>3
    <3> QED BY <2>2, <2>3, <3>1, <3>2 DEF Page
  <2>4. CASE p \notin shared
    <3>1. page(p) = t.physical[p]
      BY <2>1, <2>4 DEF page, ForkedPage, F, fresh, shared
    <3> QED BY <1>1, <2>2, <2>4, <3>1 DEF WritersHoldOneReference
  <2> QED BY <2>3, <2>4
<1>16. /\ \A p \in fresh : \E o \in F : p = <<owner_rank(o), a[o]>>
       /\ \A o \in F : <<owner_rank(o), a[o]>> \in fresh
  BY DEF fresh, FreshPages
<1>17. /\ DOMAIN u.physical = DOMAIN t.physical \cup fresh
       /\ \A p \in DOMAIN u.physical : u.physical[p] = page(p)
       /\ fresh \subseteq PhysicalPageId /\ fresh \cap DOMAIN t.physical = {}
       /\ shared \subseteq DOMAIN t.physical
  BY <1>3, <1>6, <1>11, <1>12, <1>16
<1>18. \A p : p \in Drafted(t, u, fresh) <=> p \in fresh /\ t.sequences[source].mtp
  <2>1. ASSUME NEW p \in DOMAIN t.physical PROVE p \notin Drafted(t, u, fresh) /\ p \notin fresh
    BY <1>15, <1>17 DEF Drafted
  <2>2. ASSUME NEW p \in fresh
        PROVE  p \in Drafted(t, u, fresh) <=> t.sequences[source].mtp
    <3>1. PICK o \in F : p = <<owner_rank(o), a[o]>>
      BY <1>16
    <3>2. u.physical[p].draft = IF t.sequences[source].mtp THEN d[o] ELSE NONE
      BY <1>14, <1>17, <3>1
    <3>3. t.sequences[source].mtp => d[o] # NONE
      BY <1>5, <1>13, <3>1
    <3> QED BY <1>2, <1>17, <3>2, <3>3 DEF Drafted
  <2>3. \A p \in Drafted(t, u, fresh) : p \in DOMAIN t.physical \/ p \in fresh
    BY <1>17 DEF Drafted
  <2> QED BY <2>1, <2>2, <2>3
<1>19. \A o \in F : t.sequences[source].mtp =>
         u.physical[<<owner_rank(o), a[o]>>].draft = d[o]
  BY <1>14, <1>16, <1>17
<1>20. u.free_draft =
         [r \in Ranks |-> {i \in t.free_draft[r] :
            \A p \in Drafted(t, u, fresh) : p[1] = r => u.physical[p].draft # i}]
  <2> DEFINE at == [o \in G |-> <<owner_rank(o), a[o]>>]
  <2>1. \A o \in G : /\ at[o] \in Drafted(t, u, fresh) /\ at[o][1] = owner_rank(o)
                     /\ u.physical[at[o]].draft = d[o]
    BY <1>2, <1>5, <1>16, <1>18, <1>19
  <2>2. \A p \in Drafted(t, u, fresh) : \E o \in G : p = at[o]
    BY <1>5, <1>16, <1>18, Zenon
  <2> HIDE DEF at
  <2>3. DraftsGoTo(t, u, fresh, G, d, at)
    BY <1>11, <2>1, <2>2, SMTT(30) DEF DraftsGoTo
  <2> QED BY <2>3, DraftedSlots
<1>21. /\ \A p \in Drafted(t, u, fresh) : u.physical[p].draft \in t.free_draft[p[1]]
       /\ \A p, q \in Drafted(t, u, fresh) :
            p[1] = q[1] /\ u.physical[p].draft = u.physical[q].draft => p = q
  <2>1. ASSUME NEW p \in Drafted(t, u, fresh)
        PROVE  \E o \in G : p = <<owner_rank(o), a[o]>> /\ u.physical[p].draft = d[o]
    <3>1. p \in fresh /\ t.sequences[source].mtp
      BY <1>18
    <3>2. PICK o \in F : p = <<owner_rank(o), a[o]>>
      BY <1>16, <3>1
    <3> QED BY <1>5, <1>19, <3>1, <3>2, Zenon
  <2> QED BY <1>13, <2>1
<1>22. u.physical \in [DOMAIN t.physical \cup fresh -> Page]
  BY <1>11, <1>14, <1>15, <1>16
<1>23. ExactIndex(u)
  <2>1. \A p \in DOMAIN t.physical : u.physical[p].prefix = t.physical[p].prefix
    BY <1>15, <1>17
  <2>2. \A p \in fresh : u.physical[p].prefix = NONE
    BY <1>14, <1>16, <1>17
  <2> QED BY <1>1, <1>11, <1>17, <2>1, <2>2, SameIndex, Zenon
<1>24. /\ u.sequences = [s \in DOMAIN t.sequences \cup {id} |-> u.sequences[s]]
       /\ \A s \in DOMAIN t.sequences \ {id} : u.sequences[s] = t.sequences[s]
       /\ u.sequences[id] = row
  BY <1>11
<1> HIDE DEF count, old
<1>25. /\ pages \in [0..(count - 1) -> PhysicalPageId]
       /\ \A o \in (0..(count - 1)) \ F : pages[o] = old[o]
       /\ \A o \in F : pages[o] = <<owner_rank(o), a[o]>>
  BY <1>2, <1>4, <1>10, <1>12
<1>26. \A p : p \in Held(u, id) <=> p \in fresh \/ p \in shared
  <2>0. u.sequences[id].pages = pages /\ u.sequences[id].page_count = count
    BY <1>9, <1>24
  <2>1. Held(u, id) = {pages[o] : o \in 0..(count - 1)}
    BY <2>0 DEF Held
  <2>2. ASSUME NEW p \in Held(u, id) PROVE p \in fresh \/ p \in shared
    <3>1. PICK o \in 0..(count - 1) : p = pages[o]
      BY <2>1
    <3>2. CASE o \in F
      BY <1>16, <1>25, <3>1, <3>2, Zenon
    <3>3. CASE o \notin F
      <4>1. o \in (0..(count - 1)) \ F /\ p = old[o]
        BY <1>25, <3>1, <3>3
      <4> QED BY <1>6, <4>1
    <3> QED BY <3>2, <3>3
  <2>3. ASSUME NEW p \in fresh PROVE p \in Held(u, id)
    BY <1>4, <1>16, <1>25, <2>1
  <2>4. ASSUME NEW p \in shared PROVE p \in Held(u, id)
    <3>1. PICK o \in (0..(count - 1)) \ F : p = old[o]
      BY <1>6
    <3> QED BY <1>25, <2>1, <3>1
  <2> QED BY <2>2, <2>3, <2>4
<1>27. \A o, p \in 0..(count - 1) : pages[o] = pages[p] => o = p
  <2> SUFFICES ASSUME NEW o \in 0..(count - 1), NEW p \in 0..(count - 1),
                      pages[o] = pages[p]
               PROVE  o = p
    OBVIOUS
  <2>1. CASE o \in F /\ p \in F
    BY <1>12, <1>25, <2>1
  <2>2. CASE o \notin F /\ p \notin F
    BY <1>3, <1>25, <2>2
  <2>a. \A x \in F : pages[x] \notin DOMAIN t.physical
    BY <1>12, <1>25, Zenon
  <2>b. \A x \in (0..(count - 1)) \ F : pages[x] \in DOMAIN t.physical
    BY <1>3, <1>25
  <2>3. CASE o \in F /\ p \notin F
    BY <2>a, <2>b, <2>3
  <2>4. CASE o \notin F /\ p \in F
    BY <2>a, <2>b, <2>4
  <2> QED BY <2>1, <2>2, <2>3, <2>4
<1>28. Gained(t, u, id, fresh, shared)
  <2>1. \A p \in fresh : p[2] \in t.free_target[p[1]]
    BY <1>12, <1>16
  <2>2. \A p \in DOMAIN t.physical :
         /\ t.physical[p].draft # NONE => u.physical[p].draft = t.physical[p].draft
         /\ u.physical[p].references = IF p \in shared
                                       THEN t.physical[p].references + 1
                                       ELSE t.physical[p].references
         /\ u.physical[p].state # "HbmSealed" =>
              p \notin shared /\ t.physical[p].references = 1
    BY <1>15, <1>17
  <2>3. \A p \in fresh : u.physical[p].references = 1
    BY <1>14, <1>16, <1>17
  <2>4. /\ u.prefixes = [k \in DOMAIN u.prefixes |-> u.prefixes[k]]
        /\ DOMAIN u.prefixes \subseteq {attachment.key : attachment \in Attachments}
    BY <1>1, <1>11 DEF Shaped, IsTable
  <2>5. /\ DOMAIN u.sequences[id] =
             {"mtp", "committed_tokens", "page_count", "pages", "tentative"}
        /\ u.sequences[id].mtp \in BOOLEAN
        /\ u.sequences[id].committed_tokens \in Nat
        /\ u.sequences[id].page_count = count
        /\ u.sequences[id].page_count \in Nat
        /\ u.sequences[id].pages = pages
        /\ u.sequences[id].tentative \in TentativeTail \cup {NONE}
    BY <1>2, <1>9, <1>24
  <2>6. u.free_target =
         [r \in Ranks |-> {i \in t.free_target[r] : <<r, i>> \notin fresh}]
    BY <1>11, <1>12
  <2>7. /\ u.sequences[id].pages \in
             [0..(u.sequences[id].page_count - 1) -> PhysicalPageId]
        /\ \A o, p \in 0..(u.sequences[id].page_count - 1) :
             u.sequences[id].pages[o] = u.sequences[id].pages[p] => o = p
    BY <1>25, <1>27, <2>5
  <2>8. \A p : p \in Held(u, id) <=>
          \/ p \in fresh \/ p \in shared
          \/ id \in DOMAIN t.sequences /\ p \in Held(t, id)
    BY <1>26, SMTT(30)
  <2> QED BY <1>11, <1>17, <1>20, <1>21, <1>22, <1>23, <1>24,
             <2>1, <2>2, <2>3, <2>4, <2>5, <2>6, <2>7, <2>8, Zenon DEF Gained
<1> QED BY <1>28 DEF Gains, u

\* What attaching the page of prefix[o] makes of its record: one reference
\* more, and a draft if it had none and the sequence needs one.
Attaches(t, mtp, prefix, a, d, o) ==
    LET p == t.prefixes[prefix[o].key]
        q == AttachedPage(t, mtp, prefix, a, d, o)
    IN  /\ p \in DOMAIN t.physical
        /\ q \in Page
        /\ q.references = t.physical[p].references + 1
        /\ q.state = "HbmSealed"
        /\ q.draft = IF o \in MissingDrafts(t, mtp, prefix) THEN d[o] ELSE t.physical[p].draft
        /\ q.prefix # NONE /\ q.prefix.key = prefix[o].key
        /\ p[1] = owner_rank(o)

\* A record that is attached to a page of the table stays a page record.
LEMMA AttachedRecord ==
  ASSUME NEW t, TableInv(t), NEW mtp \in BOOLEAN, NEW prefix, NEW a, NEW d,
         NEW o \in DOMAIN prefix \ MissingPages(t, prefix),
         prefix[o] \in Attachments, Attachable(t, mtp, prefix),
         o \in MissingDrafts(t, mtp, prefix) => d[o] \in DraftIds
  PROVE  Attaches(t, mtp, prefix, a, d, o)
<1> DEFINE p == t.prefixes[prefix[o].key]
           page == t.physical[p]
           draft == IF o \in MissingDrafts(t, mtp, prefix) THEN d[o] ELSE page.draft
           record == IF relation_to(page.prefix, prefix[o]) = "DraftUpgrade"
                     THEN prefix[o] ELSE page.prefix
           q == AttachedPage(t, mtp, prefix, a, d, o)
<1>1. prefix[o].key \in DOMAIN t.prefixes
  BY DEF MissingPages
<1>2. /\ p \in DOMAIN t.physical /\ page.state = "HbmSealed"
      /\ p[1] = owner_rank(o) /\ page.prefix # NONE
      /\ page.prefix.key = prefix[o].key
  BY <1>1, Zenon DEF Attachable, TableInv, ExactIndex
<1>3. page \in Page
  BY <1>2 DEF TableInv, IsTable
<1>4. q = [page EXCEPT !.draft = draft, !.references = page.references + 1,
                       !.prefix = record]
  BY SMTT(30) DEF AttachedPage
<1>5. draft \in DraftIds \cup {NONE} /\ page.references + 1 \in Nat \ {0}
  BY <1>3 DEF Page
<1>6. record \in Attachments \cup {NONE} /\ record # NONE /\ record.key = prefix[o].key
  BY <1>2, <1>3, NoneAssumption, Zenon DEF Page
<1> HIDE DEF draft, record, page, p, q
<1>7. /\ q \in Page /\ q.references = page.references + 1 /\ q.state = page.state
      /\ q.draft = draft /\ q.prefix = record
  BY <1>3, <1>4, <1>5, <1>6, Zenon DEF Page
<1> QED BY <1>2, <1>6, <1>7, Zenon DEF Attaches, draft, page, p, q

\* A record made for a missing page.
LEMMA MissingRecord ==
  ASSUME NEW t, NEW mtp \in BOOLEAN, NEW prefix, NEW a, NEW d,
         NEW o \in MissingPages(t, prefix), o \in Nat,
         prefix[o] \in Attachments, mtp => d[o] \in DraftIds
  PROVE  LET q == AttachedPage(t, mtp, prefix, a, d, o)
         IN  /\ q \in Page /\ q.references = 1
             /\ q.draft = IF mtp THEN d[o] ELSE NONE
             /\ q.prefix = prefix[o]
  BY ConfigAssumption DEF AttachedPage, Page, PageState

\* admit_with_prefix gains pages: attached pages gain a reference and
\* a holder, missing pages and drafts are fresh.
LEMMA AdmitTable ==
  ASSUME NEW t, TableInv(t), NEW id \in SequenceIds \ DOMAIN t.sequences,
         NEW mtp \in BOOLEAN, NEW n \in Nat, NEW prefix \in [0..(n - 1) -> Attachments],
         Attachable(t, mtp, prefix),
         NEW a \in TargetAllocations(t, MissingPages(t, prefix)),
         NEW d \in DraftAllocations(t, MissingDrafts(t, mtp, prefix))
  PROVE  Gains(t, admit_with_prefix(t, id, mtp, n, prefix, a, d), id)
<1> DEFINE D == 0..(n - 1)
           F == MissingPages(t, prefix)
           G == MissingDrafts(t, mtp, prefix)
           fresh == FreshPages(F, a)
           shared == {t.prefixes[prefix[o].key] : o \in D \ F}
           pages == PrefixPages(t, prefix, a)
           attached == AttachedPages(t, prefix, a)
           page(p) == AdmittedPage(t, mtp, prefix, a, d, p)
           made(o) == AttachedPage(t, mtp, prefix, a, d, o)
           index(k) == AdmittedIndex(t, prefix, a, k)
           keys == {prefix[o].key : o \in D}
           u == admit_with_prefix(t, id, mtp, n, prefix, a, d)
           row == [mtp |-> mtp, committed_tokens |-> n * PAGE_TOKENS, page_count |-> n,
                   pages |-> pages, tentative |-> NONE]
<1>1. /\ IsTable(t) /\ Shaped(t) /\ CountedReferences(t) /\ WritersHoldOneReference(t)
      /\ ExactIndex(t) /\ InjectivePages(t)
  BY DEF TableInv
<1>2. /\ DOMAIN prefix = D /\ D \in SUBSET Nat /\ F \subseteq D /\ G \subseteq D
      /\ F \in SUBSET Nat /\ G \in SUBSET Nat
      /\ \A o \in D : prefix[o] \in Attachments
      /\ mtp => F \subseteq G
      /\ ~mtp => G = {}
  <2>1. DOMAIN prefix = D /\ D \in SUBSET Nat /\ \A o \in D : prefix[o] \in Attachments
    OBVIOUS
  <2> HIDE DEF D
  <2>2. F \subseteq D /\ G \subseteq D
    BY <2>1, Zenon DEF MissingPages, MissingDrafts
  <2>3. (mtp => F \subseteq G) /\ (~mtp => G = {})
    BY <2>1, Zenon DEF MissingPages, MissingDrafts
  <2> QED BY <2>1, <2>2, <2>3
<1> HIDE DEF D
<1>3. \A o, p \in D : prefix[o].key = prefix[p].key => o = p
  BY <1>2, Zenon DEF Attachable
<1>4. /\ \A o \in F : prefix[o].key \notin DOMAIN t.prefixes
      /\ \A o \in D \ F : prefix[o].key \in DOMAIN t.prefixes
  BY <1>2 DEF MissingPages
<1>5. \A o \in G \ F : t.physical[t.prefixes[prefix[o].key]].draft = NONE
  BY ZenonT(30) DEF MissingDrafts
<1>6. \A o \in D \ F : /\ t.prefixes[prefix[o].key] \in DOMAIN t.physical
                       /\ t.physical[t.prefixes[prefix[o].key]].prefix.key = prefix[o].key
  BY <1>1, <1>4 DEF ExactIndex
<1>7. u = [t EXCEPT !.free_target = Without(t.free_target, F, a),
                    !.free_draft = Without(t.free_draft, G, d),
                    !.physical = [p \in DOMAIN t.physical \cup attached |-> page(p)],
                    !.prefixes = [k \in DOMAIN t.prefixes \cup keys |-> index(k)],
                    !.sequences = [s \in DOMAIN t.sequences \cup {id} |->
                                     IF s = id THEN row ELSE t.sequences[s]]]
  BY <1>2 DEF admit_with_prefix
<1>8. pages = [o \in D |-> IF o \in F THEN <<owner_rank(o), a[o]>>
                                      ELSE t.prefixes[prefix[o].key]]
  BY <1>2 DEF PrefixPages
<1>9. attached = {pages[o] : o \in D}
  BY <1>2 DEF AttachedPages
<1>10. /\ DOMAIN row = {"mtp", "committed_tokens", "page_count", "pages", "tentative"}
       /\ row.mtp = mtp /\ row.pages = pages /\ row.page_count = n
       /\ row.committed_tokens = n * PAGE_TOKENS /\ row.tentative = NONE
       /\ n * PAGE_TOKENS \in Nat
  BY ConfigAssumption
<1> HIDE DEF page, row, F, G, fresh, u, pages, attached, index, keys, made
<1>11. /\ DOMAIN u = DOMAIN t
       /\ u.quarantined_target = t.quarantined_target
       /\ u.quarantined_draft = t.quarantined_draft
       /\ u.quarantine_generation = t.quarantine_generation
       /\ u.prefixes = [k \in DOMAIN t.prefixes \cup keys |-> index(k)]
       /\ u.free_target = Without(t.free_target, F, a)
       /\ u.free_draft = Without(t.free_draft, G, d)
       /\ u.physical = [p \in DOMAIN t.physical \cup attached |-> page(p)]
       /\ u.sequences = [s \in DOMAIN t.sequences \cup {id} |->
                           IF s = id THEN row ELSE t.sequences[s]]
  BY <1>1, <1>7, Zenon DEF Shaped
<1>12. /\ \A o \in F : /\ <<owner_rank(o), a[o]>> \in PhysicalPageId
                       /\ a[o] \in t.free_target[owner_rank(o)]
                       /\ <<owner_rank(o), a[o]>> \notin DOMAIN t.physical
       /\ \A o, p \in F : <<owner_rank(o), a[o]>> = <<owner_rank(p), a[p]>> => o = p
       /\ Without(t.free_target, F, a) =
            [r \in Ranks |-> {i \in t.free_target[r] : <<r, i>> \notin fresh}]
  BY <1>2, AllocatedPages DEF F, fresh
<1>13. /\ \A o \in G : /\ d[o] \in DraftIds /\ d[o] # NONE
                       /\ d[o] \in t.free_draft[owner_rank(o)]
       /\ \A o, p \in G : owner_rank(o) = owner_rank(p) /\ d[o] = d[p] => o = p
  BY <1>2, AllocatedDrafts DEF G
<1>14. /\ \A o \in F : pages[o] = <<owner_rank(o), a[o]>>
       /\ \A o \in D \ F : pages[o] = t.prefixes[prefix[o].key]
  BY <1>2, <1>8
<1>15. /\ \A o \in F : pages[o] \in fresh /\ pages[o] \notin DOMAIN t.physical
       /\ \A o \in D \ F : pages[o] \in shared /\ pages[o] \in DOMAIN t.physical
       /\ \A p \in fresh : \E o \in F : p = pages[o]
       /\ \A p \in shared : \E o \in D \ F : p = pages[o]
  <2>1. \A p : p \in fresh <=> \E o \in F : p = <<owner_rank(o), a[o]>>
    BY DEF fresh, FreshPages
  <2>2. \A p : p \in shared <=> \E o \in D \ F : p = t.prefixes[prefix[o].key]
    OBVIOUS
  <2> HIDE DEF shared
  <2>3. ASSUME NEW o \in F PROVE pages[o] \in fresh /\ pages[o] \notin DOMAIN t.physical
    <3>1. pages[o] = <<owner_rank(o), a[o]>>
      BY <1>14
    <3>2. <<owner_rank(o), a[o]>> \notin DOMAIN t.physical
      BY <1>12, SMTT(30)
    <3> QED BY <2>1, <3>1, <3>2
  <2>4. \A o \in D \ F : pages[o] \in shared /\ pages[o] \in DOMAIN t.physical
    BY <1>6, <1>14, <2>2
  <2>5. \A p \in fresh : \E o \in F : p = pages[o]
    BY <1>14, <2>1
  <2>6. \A p \in shared : \E o \in D \ F : p = pages[o]
    BY <1>14, <2>2
  <2> QED BY <2>3, <2>4, <2>5, <2>6
<1> HIDE DEF shared
<1>16. \A o, p \in D : pages[o] = pages[p] => o = p
  <2> SUFFICES ASSUME NEW o \in D, NEW p \in D, pages[o] = pages[p] PROVE o = p
    OBVIOUS
  <2>1. CASE o \in F /\ p \in F
    BY <1>12, <1>14, <2>1
  <2>2. CASE o \notin F /\ p \notin F
    <3>1. t.prefixes[prefix[o].key] = t.prefixes[prefix[p].key]
      BY <1>14, <2>2, SMTT(30)
    <3>2. prefix[o].key = prefix[p].key
      BY <1>6, <2>2, <3>1, Zenon
    <3> QED BY <1>3, <3>2
  <2>3. CASE o \in F /\ p \notin F
    BY <1>15, <2>3
  <2>4. CASE o \notin F /\ p \in F
    BY <1>15, <2>4
  <2> QED BY <2>1, <2>2, <2>3, <2>4
<1>17. ASSUME NEW o \in D PROVE pages[o] \in attached /\ page(pages[o]) = made(o)
  <2>1. pages[o] \in attached
    BY <1>9
  <2>2. AttachedOrdinal(t, prefix, a, pages[o]) = o
    BY <1>2, <1>16 DEF AttachedOrdinal, pages
  <2> QED BY <2>1, <2>2 DEF page, AdmittedPage, made, attached
<1>18. \A p \in DOMAIN t.physical : p \notin attached => page(p) = t.physical[p]
  BY DEF page, AdmittedPage, attached
<1>19. ASSUME NEW o \in F
       PROVE  /\ made(o) \in Page /\ made(o).references = 1
              /\ made(o).draft = IF mtp THEN d[o] ELSE NONE
              /\ made(o).prefix = prefix[o]
  <2>1. o \in Nat /\ prefix[o] \in Attachments /\ (mtp => d[o] \in DraftIds)
    BY <1>2, <1>13, SMTT(30)
  <2> QED BY <2>1, MissingRecord, SMTT(30) DEF made, F
<1>20. ASSUME NEW o \in D \ F
       PROVE  /\ made(o) \in Page
              /\ made(o).references = t.physical[pages[o]].references + 1
              /\ made(o).state = "HbmSealed"
              /\ made(o).draft = IF o \in G THEN d[o] ELSE t.physical[pages[o]].draft
              /\ made(o).prefix # NONE /\ made(o).prefix.key = prefix[o].key
              /\ pages[o][1] = owner_rank(o)
  <2>1. /\ o \in DOMAIN prefix \ MissingPages(t, prefix) /\ prefix[o] \in Attachments
        /\ o \in MissingDrafts(t, mtp, prefix) => d[o] \in DraftIds
    BY <1>2, <1>13 DEF F, G
  <2>2. pages[o] = t.prefixes[prefix[o].key]
    BY <1>14, SMTT(30)
  <2>3. Attaches(t, mtp, prefix, a, d, o)
    BY <2>1, AttachedRecord, Zenon
  <2> QED BY <2>2, <2>3, Zenon DEF made, G, Attaches
<1>21. /\ attached = fresh \cup shared
       /\ shared \subseteq DOMAIN t.physical
       /\ fresh \subseteq PhysicalPageId /\ fresh \cap DOMAIN t.physical = {}
  <2>1. \A p \in attached : \E o \in D : p = pages[o]
    BY <1>9
  <2>2. \A p \in fresh \cup shared : p \in attached
    BY <1>2, <1>15, <1>17
  <2>3. ASSUME NEW p \in fresh PROVE p \in PhysicalPageId
    <3>1. PICK o \in F : p = pages[o]
      BY <1>15
    <3>2. pages[o] = <<owner_rank(o), a[o]>> /\ <<owner_rank(o), a[o]>> \in PhysicalPageId
      BY <1>12, <1>14, SMTT(30)
    <3> QED BY <3>1, <3>2
  <2> QED BY <1>15, <2>1, <2>2, <2>3, SMTT(30)
<1>22. /\ DOMAIN u.physical = DOMAIN t.physical \cup fresh
       /\ \A p \in DOMAIN u.physical : u.physical[p] = page(p)
       /\ \A o \in D : pages[o] \in DOMAIN u.physical /\ u.physical[pages[o]] = made(o)
  BY <1>11, <1>17, <1>21, SMTT(30)
<1>23. \A p \in DOMAIN t.physical : p \notin shared => u.physical[p] = t.physical[p]
  BY <1>18, <1>21, <1>22
<1>24. \A p \in Drafted(t, u, fresh) : \E o \in G : p = pages[o]
  <2> SUFFICES ASSUME NEW p \in Drafted(t, u, fresh) PROVE \E o \in G : p = pages[o]
    OBVIOUS
  <2>1. /\ p \in DOMAIN u.physical /\ u.physical[p].draft # NONE
        /\ p \in fresh \/ t.physical[p].draft = NONE
    BY DEF Drafted
  <2>2. CASE p \in fresh
    <3>1. PICK o \in F : p = pages[o]
      BY <1>15, <2>2
    <3>2. u.physical[p] = made(o)
      BY <1>2, <1>22, <3>1, SMTT(30)
    <3>3. mtp
      BY <1>19, <2>1, <3>2
    <3> QED BY <1>2, <3>1, <3>3
  <2>3. CASE p \notin fresh
    <3>1. p \in DOMAIN t.physical /\ t.physical[p].draft = NONE
      BY <1>22, <2>1, <2>3, SMTT(30)
    <3>2. p \in shared
      BY <1>23, <2>1, <3>1
    <3>3. PICK o \in D \ F : p = pages[o]
      BY <1>15, <3>2, SMTT(30)
    <3>4. u.physical[p].draft = IF o \in G THEN d[o] ELSE t.physical[p].draft
      BY <1>20, <1>22, <3>3, SMTT(30)
    <3> QED BY <2>1, <3>1, <3>3, <3>4, SMTT(30)
  <2> QED BY <2>2, <2>3
<1>25. ASSUME NEW o \in G
       PROVE  /\ pages[o] \in Drafted(t, u, fresh)
              /\ pages[o][1] = owner_rank(o)
              /\ u.physical[pages[o]].draft = d[o]
  <2>1. o \in D /\ mtp /\ d[o] # NONE
    BY <1>2, <1>13
  <2>2. CASE o \in F
    <3>1. u.physical[pages[o]].draft = d[o]
      BY <1>19, <1>22, <2>1, <2>2
    <3>2. pages[o] \in fresh /\ pages[o] = <<owner_rank(o), a[o]>>
      BY <1>14, <1>15, <2>2, SMTT(30)
    <3> QED BY <1>22, <2>1, <3>1, <3>2, SMTT(30) DEF Drafted
  <2>3. CASE o \notin F
    <3>1. u.physical[pages[o]].draft = d[o] /\ pages[o][1] = owner_rank(o)
      BY <1>20, <1>22, <2>1, <2>3, SMTT(30)
    <3>2. t.physical[pages[o]].draft = NONE
      BY <1>5, <1>14, <2>1, <2>3, SMTT(30)
    <3> QED BY <1>22, <2>1, <3>1, <3>2, SMTT(30) DEF Drafted
  <2> QED BY <2>2, <2>3, SMTT(30)
<1>26. u.free_draft =
         [r \in Ranks |-> {i \in t.free_draft[r] :
            \A p \in Drafted(t, u, fresh) : p[1] = r => u.physical[p].draft # i}]
  <2>1. DraftsGoTo(t, u, fresh, G, d, pages)
    BY <1>11, <1>24, <1>25, Zenon DEF DraftsGoTo
  <2> QED BY <2>1, DraftedSlots
<1>27. /\ \A p \in Drafted(t, u, fresh) : u.physical[p].draft \in t.free_draft[p[1]]
       /\ \A p, q \in Drafted(t, u, fresh) :
            p[1] = q[1] /\ u.physical[p].draft = u.physical[q].draft => p = q
  <2>1. ASSUME NEW p \in Drafted(t, u, fresh)
        PROVE  \E o \in G : /\ p = pages[o] /\ p[1] = owner_rank(o)
                            /\ u.physical[p].draft = d[o]
    BY <1>24, <1>25
  <2> QED BY <1>13, <2>1, SMTT(30)
<1>28. u.physical \in [DOMAIN t.physical \cup fresh -> Page]
  <2>1. ASSUME NEW p \in DOMAIN t.physical \cup fresh PROVE u.physical[p] \in Page
    <3>1. CASE p \in fresh
      BY <1>2, <1>15, <1>19, <1>22, <3>1, SMTT(30)
    <3>2. CASE p \in shared
      BY <1>15, <1>20, <1>22, <3>2, SMTT(30)
    <3>3. CASE p \notin fresh /\ p \notin shared
      BY <1>1, <1>23, <3>3, SMTT(30) DEF IsTable
    <3> QED BY <3>1, <3>2, <3>3
  <2>2. u.physical = [p \in DOMAIN t.physical \cup fresh |-> page(p)]
    BY <1>11, <1>21, SMTT(30)
  <2> QED BY <1>22, <2>1, <2>2, Zenon
<1>29. \A p \in DOMAIN t.physical :
         /\ t.physical[p].draft # NONE => u.physical[p].draft = t.physical[p].draft
         /\ u.physical[p].references = IF p \in shared
                                       THEN t.physical[p].references + 1
                                       ELSE t.physical[p].references
         /\ u.physical[p].state # "HbmSealed" =>
              p \notin shared /\ t.physical[p].references = 1
  <2> SUFFICES ASSUME NEW p \in DOMAIN t.physical PROVE <1>29!(p)
    BY SMTT(30)
  <2>1. CASE p \in shared
    <3>1. PICK o \in D \ F : p = pages[o]
      BY <1>15, <2>1, SMTT(30)
    <3>2. u.physical[p] = made(o)
      BY <1>22, <3>1, SMTT(30)
    <3>3. o \in G => t.physical[p].draft = NONE
      BY <1>5, <1>14, <3>1, SMTT(30)
    <3> QED BY <1>20, <2>1, <3>1, <3>2, <3>3, SMTT(30)
  <2>2. CASE p \notin shared
    BY <1>1, <1>23, <2>2, SMTT(30) DEF WritersHoldOneReference
  <2> QED BY <2>1, <2>2, SMTT(30)
<1>30. /\ DOMAIN u.prefixes = DOMAIN t.prefixes \cup keys
       /\ \A k \in DOMAIN t.prefixes : u.prefixes[k] = t.prefixes[k]
       /\ \A o \in F : u.prefixes[prefix[o].key] = pages[o]
       /\ \A k \in keys : \E o \in D : k = prefix[o].key
       /\ \A o \in D : prefix[o].key \in keys
  <2>1. DOMAIN u.prefixes = DOMAIN t.prefixes \cup keys
        /\ \A k \in DOMAIN t.prefixes \cup keys : u.prefixes[k] = index(k)
    BY <1>11
  <2>2. /\ \A k \in keys : \E o \in D : k = prefix[o].key
        /\ \A o \in D : prefix[o].key \in keys
    BY DEF keys
  <2>3. \A k \in DOMAIN t.prefixes : index(k) = t.prefixes[k]
    BY DEF index, AdmittedIndex
  <2>4. ASSUME NEW o \in F PROVE index(prefix[o].key) = pages[o]
    <3>1. (CHOOSE x \in DOMAIN prefix : prefix[x].key = prefix[o].key) = o
      BY <1>2, <1>3, SMTT(30)
    <3> QED BY <1>4, <3>1, Zenon DEF index, AdmittedIndex, pages
  <2> QED BY <1>2, <2>1, <2>2, <2>3, <2>4, SMTT(30)
<1>31. \A o \in D : /\ u.prefixes[prefix[o].key] = pages[o]
                    /\ u.physical[pages[o]].prefix # NONE
                    /\ u.physical[pages[o]].prefix.key = prefix[o].key
  <2>1. \A o \in F : prefix[o] # NONE
    BY <1>2, NoneAssumption, SMTT(30)
  <2>2. ASSUME NEW o \in F PROVE <1>31!(o)
    BY <1>2, <1>19, <1>22, <1>30, <2>1, <2>2, SMTT(30)
  <2>3. ASSUME NEW o \in D \ F PROVE <1>31!(o)
    BY <1>4, <1>14, <1>20, <1>22, <1>30, SMTT(30)
  <2> QED BY <2>2, <2>3
<1>32. ExactIndex(u)
  <2>1. ASSUME NEW k \in DOMAIN u.prefixes
        PROVE  /\ u.prefixes[k] \in DOMAIN u.physical
               /\ u.physical[u.prefixes[k]].prefix # NONE
               /\ u.physical[u.prefixes[k]].prefix.key = k
    <3>1. CASE k \in keys
      BY <1>22, <1>30, <1>31, <3>1, SMTT(30)
    <3>2. CASE k \notin keys
      <4>1. /\ k \in DOMAIN t.prefixes /\ u.prefixes[k] = t.prefixes[k]
            /\ t.prefixes[k] \in DOMAIN t.physical
            /\ t.physical[t.prefixes[k]].prefix # NONE
            /\ t.physical[t.prefixes[k]].prefix.key = k
        BY <1>1, <1>30, <3>2, Zenon DEF ExactIndex
      <4>2. t.prefixes[k] \notin shared
        <5> SUFFICES ASSUME t.prefixes[k] \in shared PROVE FALSE
          OBVIOUS
        <5>1. PICK o \in D \ F : t.prefixes[k] = pages[o]
          BY <1>15, SMTT(30)
        <5>2. prefix[o].key = k
          BY <1>6, <1>14, <4>1, <5>1, Zenon
        <5> QED BY <3>2, <5>2 DEF keys
      <4> QED BY <1>22, <1>23, <4>1, <4>2
    <3> QED BY <3>1, <3>2, SMTT(30)
  <2>2. ASSUME NEW p \in DOMAIN u.physical, u.physical[p].prefix # NONE
        PROVE  /\ u.physical[p].prefix.key \in DOMAIN u.prefixes
               /\ u.prefixes[u.physical[p].prefix.key] = p
    <3>1. CASE \E o \in D : p = pages[o]
      BY <1>30, <1>31, <3>1, SMTT(30)
    <3>2. CASE ~\E o \in D : p = pages[o]
      <4>1. p \in DOMAIN t.physical /\ p \notin shared
        BY <1>2, <1>15, <1>22, <3>2
      <4>2. u.physical[p] = t.physical[p]
        BY <1>23, <4>1, SMTT(30)
      <4>3. /\ t.physical[p].prefix.key \in DOMAIN t.prefixes
            /\ t.prefixes[t.physical[p].prefix.key] = p
        BY <1>1, <2>2, <4>1, <4>2, SMTT(30) DEF ExactIndex
      <4> QED BY <1>30, <4>2, <4>3, SMTT(30)
    <3> QED BY <3>1, <3>2, SMTT(30)
  <2> QED BY <2>1, <2>2, Zenon DEF ExactIndex
<1>33. /\ u.sequences = [s \in DOMAIN t.sequences \cup {id} |-> u.sequences[s]]
       /\ \A s \in DOMAIN t.sequences \ {id} : u.sequences[s] = t.sequences[s]
       /\ u.sequences[id] = row
  BY <1>11, SMTT(30)
<1>34. /\ DOMAIN u.sequences[id] =
            {"mtp", "committed_tokens", "page_count", "pages", "tentative"}
       /\ u.sequences[id].mtp \in BOOLEAN
       /\ u.sequences[id].committed_tokens \in Nat
       /\ u.sequences[id].page_count \in Nat
       /\ u.sequences[id].pages = pages
       /\ 0..(u.sequences[id].page_count - 1) = D
       /\ u.sequences[id].tentative \in TentativeTail \cup {NONE}
  BY <1>10, <1>33, SMTT(30) DEF D
<1>35. pages \in [D -> PhysicalPageId]
  <2>1. \A o \in D : pages[o] \in PhysicalPageId
    BY <1>1, <1>2, <1>15, <1>21, Zenon DEF IsTable
  <2> QED BY <1>8, <2>1, SMTT(30)
<1>36. \A p : p \in Held(u, id) <=> p \in fresh \/ p \in shared
  <2>1. Held(u, id) = {pages[o] : o \in D}
    BY <1>34, SMTT(30) DEF Held
  <2> QED BY <1>9, <1>21, <2>1
<1>37. Gained(t, u, id, fresh, shared)
  <2>1. ASSUME NEW p \in fresh PROVE p[2] \in t.free_target[p[1]]
    <3>1. PICK o \in F : p = pages[o]
      BY <1>15
    <3>2. pages[o] = <<owner_rank(o), a[o]>> /\ a[o] \in t.free_target[owner_rank(o)]
      BY <1>12, <1>14, Zenon
    <3> QED BY <3>1, <3>2
  <2>2. \A p \in fresh : u.physical[p].references = 1
    BY <1>2, <1>15, <1>19, <1>22, SMTT(30)
  <2>3. u.prefixes = [k \in DOMAIN u.prefixes |-> u.prefixes[k]]
    BY <1>11
  <2>4. DOMAIN u.prefixes \subseteq {attachment.key : attachment \in Attachments}
    <3>1. \A k \in keys : \E attachment \in Attachments : k = attachment.key
      BY <1>2, Zenon DEF keys
    <3>2. DOMAIN t.prefixes \subseteq {attachment.key : attachment \in Attachments}
      BY <1>1, SMTT(30) DEF IsTable
    <3> QED BY <1>30, <3>1, <3>2
  <2>5. u.free_target =
         [r \in Ranks |-> {i \in t.free_target[r] : <<r, i>> \notin fresh}]
    BY <1>11, <1>12
  <2>6. /\ u.sequences[id].pages \in
             [0..(u.sequences[id].page_count - 1) -> PhysicalPageId]
        /\ \A o, p \in 0..(u.sequences[id].page_count - 1) :
             u.sequences[id].pages[o] = u.sequences[id].pages[p] => o = p
    BY <1>16, <1>34, <1>35, Zenon
  <2>7. \A p : p \in Held(u, id) <=>
          \/ p \in fresh \/ p \in shared
          \/ id \in DOMAIN t.sequences /\ p \in Held(t, id)
    BY <1>36
  <2> QED BY <1>11, <1>21, <1>26, <1>27, <1>28, <1>29, <1>32, <1>33, <1>34,
             <2>1, <2>2, <2>3, <2>4, <2>5, <2>6, <2>7, Zenon DEF Gained
<1> QED BY <1>37, SMTT(30) DEF Gains, u
=============================================================================
