------------------------ MODULE SequencePageTableProofs ------------------------
(***************************************************************************)
(* The invariants of the page table, proved for every configuration.       *)
(*                                                                         *)
(* TableInv is an invariant of a table value.  Each operation that changes *)
(* who holds what gives back or gains pages, by PageTableReleaseProofs,    *)
(* PageTableGainProofs and PageTableAdmitProofs, and both kinds of step    *)
(* preserve TableInv; the count of references is first.                    *)
(***************************************************************************)
EXTENDS PageTableReleaseProofs, PageTableAdmitProofs, FiniteSetTheorems

-----------------------------------------------------------------------------
(* The reference count of a page stays the number of its holders in the    *)
(* two kinds of step that change who holds what.                           *)

\* The holders of a page are finitely many, so that they can be counted.
LEMMA HoldersFinite ==
  ASSUME NEW t, IsTable(t), NEW p
  PROVE  /\ IsFiniteSet(Holders(t, p))
         /\ Cardinality(Holders(t, p)) \in Nat
<1>1. Holders(t, p) \subseteq SequenceIds
  BY DEF Holders, IsTable
<1>2. IsFiniteSet(SequenceIds)
  BY ConfigAssumption
<1>3. IsFiniteSet(Holders(t, p))
  BY <1>1, <1>2, FS_Subset
<1> QED BY <1>3, FS_CardinalityType

\* Giving back pages takes one holder from each page given back, as release_page
\* takes one reference.
LEMMA GiveBackCounts ==
  ASSUME NEW t, TableInv(t), NEW id \in DOMAIN t.sequences,
         NEW from \in 0..t.sequences[id].page_count,
         NEW u, GaveBack(t, u, id, from)
  PROVE  CountedReferences(u)
<1> DEFINE pages == PagesFrom(t, id, from)
           gone == Unreferenced(t, pages)
           count == t.sequences[id].page_count
<1>1. /\ IsTable(t) /\ Shaped(t) /\ TargetPartition(t) /\ DraftPartition(t)
      /\ CountedReferences(t) /\ WritersHoldOneReference(t) /\ ExactIndex(t)
      /\ InjectivePages(t)
  BY DEF TableInv
<1>2. /\ count \in Nat /\ from \in Nat /\ from <= count
      /\ t.sequences[id].pages \in [0..(count - 1) -> PhysicalPageId]
  BY <1>1 DEF IsTable
<1>3. pages \subseteq DOMAIN t.physical
  BY <1>1, <1>2 DEF PagesFrom, CountedReferences, Held
<1>4. gone \subseteq pages /\ \A p \in pages : p \in gone <=> t.physical[p].references = 1
  BY SMTT(30) DEF Unreferenced
<1>6. /\ DOMAIN u.physical = DOMAIN t.physical \ gone
      /\ \A p \in DOMAIN u.physical : u.physical[p] \in Page
  BY SMTT(30) DEF GaveBack
<1> HIDE DEF pages, gone
<1>11. \A s \in DOMAIN u.sequences \ {id} : Held(u, s) = Held(t, s)
  BY DEF GaveBack, Held
<1>12. id \in DOMAIN u.sequences =>
         Held(u, id) = {t.sequences[id].pages[o] : o \in 0..(from - 1)}
  <2> SUFFICES ASSUME id \in DOMAIN u.sequences
               PROVE  Held(u, id) = {t.sequences[id].pages[o] : o \in 0..(from - 1)}
    BY SMTT(30)
  <2>1. /\ u.sequences[id].page_count = from
        /\ u.sequences[id].pages =
             [o \in 0..(from - 1) |-> t.sequences[id].pages[o]]
    BY DEF GaveBack
  <2> QED BY <2>1 DEF Held
<1>13. /\ pages = {t.sequences[id].pages[o] : o \in from..(count - 1)}
       /\ Held(t, id) = {t.sequences[id].pages[o] : o \in 0..(count - 1)}
  BY DEF pages, PagesFrom, Held
<1>14. \A o, p \in 0..(count - 1) :
         t.sequences[id].pages[o] = t.sequences[id].pages[p] => o = p
  BY <1>1 DEF InjectivePages
<1>15. id \in DOMAIN u.sequences =>
         \A p : p \in Held(u, id) <=> p \in Held(t, id) /\ p \notin pages
  <2> SUFFICES ASSUME id \in DOMAIN u.sequences, NEW p
               PROVE  p \in Held(u, id) <=> p \in Held(t, id) /\ p \notin pages
    OBVIOUS
  <2> DEFINE at(o) == t.sequences[id].pages[o]
  <2>1. /\ p \in Held(u, id) <=> \E o \in 0..(from - 1) : p = at(o)
        /\ p \in Held(t, id) <=> \E o \in 0..(count - 1) : p = at(o)
        /\ p \in pages <=> \E o \in from..(count - 1) : p = at(o)
    BY <1>12, <1>13
  <2>2. \A o, q \in 0..(count - 1) : at(o) = at(q) => o = q
    BY <1>14
  <2> HIDE DEF at, count
  <2>3. ASSUME NEW o \in 0..(from - 1), p = at(o)
        PROVE  p \in Held(t, id) /\ p \notin pages
    <3>1. o \in 0..(count - 1) /\ \A q \in from..(count - 1) : q \in 0..(count - 1) /\ q # o
      BY <1>2
    <3> QED BY <2>1, <2>2, <2>3, <3>1, SMTT(30)
  <2>4. ASSUME NEW o \in 0..(count - 1), o \notin from..(count - 1)
        PROVE  o \in 0..(from - 1)
    BY <1>2, <2>4, SMTT(30)
  <2> QED BY <2>1, <2>3, <2>4
<1>16. id \notin DOMAIN u.sequences => Held(t, id) = pages
  BY <1>13, SMTT(30) DEF GaveBack
<1>17. DOMAIN u.sequences \subseteq DOMAIN t.sequences
       /\ DOMAIN t.sequences \ {id} \subseteq DOMAIN u.sequences
  BY DEF GaveBack
<1>18. ASSUME NEW p
       PROVE  Holders(u, p) = IF p \in pages THEN Holders(t, p) \ {id} ELSE Holders(t, p)
  <2>1. \A s : s \in Holders(u, p) <=> s \in DOMAIN u.sequences /\ p \in Held(u, s)
    BY DEF Holders
  <2>2. \A s : s \in Holders(t, p) <=> s \in DOMAIN t.sequences /\ p \in Held(t, s)
    BY DEF Holders
  <2>3. p \in pages => p \in Held(t, id)
    BY <1>2, <1>13
  <2> QED BY <1>11, <1>15, <1>16, <1>17, <2>1, <2>2, <2>3, Zenon
<1>19. \A p \in pages : id \in Holders(t, p)
  BY <1>2, <1>13 DEF Holders
<1>20. ASSUME NEW p \in DOMAIN u.physical
      PROVE  u.physical[p].references = Cardinality(Holders(u, p))
  <2>1. p \in DOMAIN t.physical /\ p \notin gone
    BY <1>6
  <2>2. t.physical[p].references = Cardinality(Holders(t, p))
    BY <1>1, <2>1, SMTT(30) DEF CountedReferences
  <2>3. u.physical[p].references = IF p \in pages
                                   THEN t.physical[p].references - 1
                                   ELSE t.physical[p].references
    BY <2>1 DEF GaveBack, gone, pages
  <2>4. CASE p \in pages
    <3>1. Cardinality(Holders(t, p) \ {id}) = Cardinality(Holders(t, p)) - 1
      BY <1>1, <1>19, <2>4, HoldersFinite, FS_RemoveElement, Zenon
    <3> QED BY <1>18, <2>2, <2>3, <2>4, <3>1, SMTT(30)
  <2>5. CASE p \notin pages
    BY <1>18, <2>2, <2>3, <2>5, SMTT(30)
  <2> QED BY <2>4, <2>5
<1>21. ASSUME NEW s \in DOMAIN u.sequences, NEW p \in Held(u, s)
      PROVE  p \in DOMAIN u.physical
  <2>1. s \in Holders(u, p)
    BY DEF Holders
  <2>2. s \in Holders(t, p) /\ p \in DOMAIN t.physical
    BY <1>1, <1>18, <2>1 DEF CountedReferences, Holders
  <2>3. ASSUME p \in gone PROVE FALSE
    <3>1. p \in pages /\ t.physical[p].references = 1
      BY <1>4, <2>3
    <3>2. Cardinality(Holders(t, p)) = 1
      BY <1>1, <2>2, <3>1, SMTT(30) DEF CountedReferences
    <3>3. id \in Holders(t, p) /\ s # id
      BY <1>18, <1>19, <2>1, <3>1, SMTT(30)
    <3>4. PICK x : Holders(t, p) = {x}
      BY <1>1, <3>2, HoldersFinite, FS_Singleton, Zenon
    <3> QED BY <2>2, <3>3, <3>4, SMTT(30)
  <2> QED BY <1>6, <2>2, <2>3
<1> QED BY <1>20, <1>21 DEF CountedReferences

\* Gaining pages adds one holder to each page shared and gives each fresh page
\* its first, as the reference counts say.
LEMMA GainCounts ==
  ASSUME NEW t, TableInv(t), NEW id \in SequenceIds, NEW fresh, NEW shared,
         NEW u, Gained(t, u, id, fresh, shared)
  PROVE  CountedReferences(u)
<1>1. /\ IsTable(t) /\ Shaped(t) /\ TargetPartition(t) /\ DraftPartition(t)
      /\ CountedReferences(t) /\ WritersHoldOneReference(t) /\ ExactIndex(t)
      /\ InjectivePages(t)
  BY DEF TableInv
<1>2. /\ fresh \subseteq PhysicalPageId
      /\ \A p \in fresh : p[2] \in t.free_target[p[1]]
      /\ shared \subseteq DOMAIN t.physical
      /\ DOMAIN u.physical = DOMAIN t.physical \cup fresh
      /\ \A p \in DOMAIN u.physical : u.physical[p] \in Page
      /\ DOMAIN t.physical \subseteq PhysicalPageId
  BY <1>1, Zenon DEF Gained, IsTable
<1>3. fresh \cap DOMAIN t.physical = {}
  <2> SUFFICES ASSUME NEW p \in fresh, p \in DOMAIN t.physical PROVE FALSE
    OBVIOUS
  <2>1. p[1] \in Ranks /\ p[2] \in TargetIds /\ p = <<p[1], p[2]>>
    BY <1>2 DEF PhysicalPageId
  <2>2. TargetPartition(t)!(p[1], p[2])
    BY <1>1, <2>1 DEF TargetPartition
  <2> QED BY <1>2, <2>1, <2>2
<1>8. /\ DOMAIN u.sequences = DOMAIN t.sequences \cup {id}
      /\ \A s \in DOMAIN t.sequences \ {id} : Held(u, s) = Held(t, s)
  <2>1. DOMAIN u.sequences = DOMAIN t.sequences \cup {id}
    BY SMTT(30) DEF Gained
  <2>2. \A s \in DOMAIN t.sequences \ {id} : u.sequences[s] = t.sequences[s]
    BY Zenon DEF Gained
  <2> QED BY <2>1, <2>2, SMTT(30) DEF Held
<1>9. \A p : p \in Held(u, id) <=>
        \/ p \in fresh \/ p \in shared
        \/ id \in DOMAIN t.sequences /\ p \in Held(t, id)
  BY DEF Gained
<1>10. \A s \in DOMAIN t.sequences : Held(t, s) \subseteq DOMAIN t.physical
  BY <1>1 DEF CountedReferences
<1>11. ASSUME NEW s \in DOMAIN u.sequences PROVE Held(u, s) \subseteq DOMAIN u.physical
  BY <1>2, <1>8, <1>9, <1>10, SMTT(30)
<1>12. ASSUME NEW p \in DOMAIN t.physical
      PROVE  u.physical[p].references = Cardinality(Holders(u, p))
  <2>1. t.physical[p].references = Cardinality(Holders(t, p))
    BY <1>1, SMTT(30) DEF CountedReferences
  <2>2. u.physical[p].references = IF p \in shared THEN t.physical[p].references + 1
                                                  ELSE t.physical[p].references
    BY DEF Gained
  <2>3. p \notin fresh
    BY <1>3
  <2>4. CASE p \in shared
    <3>1. id \notin Holders(t, p)
      BY <2>4 DEF Holders, Gained
    <3>2. Holders(u, p) = Holders(t, p) \cup {id}
      BY <1>8, <1>9, <2>4 DEF Holders
    <3>3. IsFiniteSet(Holders(t, p))
      <4>1. Holders(t, p) \subseteq SequenceIds
        BY <1>1 DEF Holders, IsTable
      <4> QED BY <4>1, ConfigAssumption, FS_Subset, SMTT(30)
    <3>4. Cardinality(Holders(t, p) \cup {id}) = Cardinality(Holders(t, p)) + 1
      BY <3>1, <3>3, FS_AddElement, Zenon
    <3> QED BY <2>1, <2>2, <2>4, <3>2, <3>4, SMTT(30)
  <2>5. CASE p \notin shared
    <3>1. Holders(u, p) = Holders(t, p)
      BY <1>8, <1>9, <2>3, <2>5, SMTT(30) DEF Holders
    <3> QED BY <2>1, <2>2, <2>5, <3>1, SMTT(30)
  <2> QED BY <2>4, <2>5
<1>13. ASSUME NEW p \in fresh
      PROVE  u.physical[p].references = Cardinality(Holders(u, p))
  <2>1. Holders(u, p) = {id}
    BY <1>3, <1>8, <1>9, <1>10 DEF Holders
  <2>2. Cardinality({id}) = 1
    BY FS_Singleton, Zenon
  <2> QED BY <2>1, <2>2, Zenon DEF Gained
<1> QED BY <1>2, <1>11, <1>12, <1>13, SMTT(30) DEF CountedReferences
-----------------------------------------------------------------------------
(* The calls of the page table.                                            *)

\* Every call of the page table is one of five kinds: a sequence gains pages, a
\* sequence gives pages back, the quarantine is bound to a generation, the
\* generation is acknowledged, or nothing changes.
Kinds ==
    \/ \E id \in SequenceIds : Gains(table, table', id)
    \/ \E id \in DOMAIN table.sequences : GivesBack(table, table', id)
    \/ \E generation \in Generations : table' = bind_reuse_quarantine(table, generation)
    \/ /\ table.quarantine_generation \in Generations
       /\ table' = acknowledge_reuse_quarantine(table)
    \/ UNCHANGED table

LEMMA NextIsOfAKind == TableInv(table) /\ [Next]_table => Kinds
<1> SUFFICES ASSUME TableInv(table), [Next]_table PROVE Kinds
  OBVIOUS
<1>a. ASSUME NEW id \in SequenceIds, Gains(table, table', id) PROVE Kinds
  BY <1>a, Zenon DEF Kinds
<1>b. ASSUME NEW id \in DOMAIN table.sequences, GivesBack(table, table', id) PROVE Kinds
  BY <1>b, Zenon DEF Kinds
<1>1. ASSUME NEW id \in SequenceIds, AdmitWithPrefix(id) PROVE Kinds
  <2>1. id \in SequenceIds \ DOMAIN table.sequences
    BY <1>1 DEF AdmitWithPrefix
  <2>2. PICK mtp \in BOOLEAN, n \in 0..maximum_pages :
          \E prefix \in [0..(n - 1) -> Attachments] :
            /\ Attachable(table, mtp, prefix)
            /\ \E a \in TargetAllocations(table, MissingPages(table, prefix)),
                  d \in DraftAllocations(table, MissingDrafts(table, mtp, prefix)) :
                 table' = admit_with_prefix(table, id, mtp, n, prefix, a, d)
    BY <1>1 DEF AdmitWithPrefix
  <2>3. n \in Nat
    OBVIOUS
  <2> QED BY <1>a, <2>1, <2>2, <2>3, AdmitTable, SMTT(30)
<1>2. ASSUME NEW id \in SequenceIds, AppendCommitted(id) PROVE Kinds
  <2>1. id \in DOMAIN table.sequences
    BY <1>2 DEF AppendCommitted
  <2>2. PICK tokens \in 1..MAXIMUM_CONTEXT_TOKENS :
          /\ CanAppend(table, id, tokens)
          /\ \E a \in TargetAllocations(table, FreshOrdinals(table, id, tokens)),
                d \in DraftAllocations(table,
                        FreshDrafts(table, id, FreshOrdinals(table, id, tokens))) :
               table' = append_committed(table, id, tokens, a, d)
    BY <1>2 DEF AppendCommitted
  <2>3. tokens \in Nat
    OBVIOUS
  <2> QED BY <1>a, <2>1, <2>2, <2>3, AppendTable, SMTT(30)
<1>3. ASSUME NEW id \in SequenceIds, BeginTentative(id) PROVE Kinds
  <2>1. id \in DOMAIN table.sequences
    BY <1>3 DEF BeginTentative
  <2>2. PICK tokens \in 1..MAXIMUM_TENTATIVE :
          /\ CanBeginTentative(table, id, tokens)
          /\ \E a \in TargetAllocations(table, FreshOrdinals(table, id, tokens)),
                d \in DraftAllocations(table,
                        FreshDrafts(table, id, FreshOrdinals(table, id, tokens))) :
               table' = begin_tentative(table, id, tokens, a, d)
    BY <1>3 DEF BeginTentative
  <2>3. tokens \in Nat \ {0}
    OBVIOUS
  <2> QED BY <1>a, <2>1, <2>2, <2>3, BeginTable, SMTT(30)
<1>4. ASSUME NEW id \in SequenceIds, CommitTentative(id) PROVE Kinds
  <2>1. id \in DOMAIN table.sequences
    BY <1>4 DEF CommitTentative
  <2>2. PICK tokens \in 1..MAXIMUM_TENTATIVE :
          /\ CanCommitTentative(table, id, tokens)
          /\ table' = commit_tentative(table, id, tokens)
    BY <1>4 DEF CommitTentative
  <2>3. tokens \in Nat
    OBVIOUS
  <2> QED BY <1>b, <2>1, <2>2, <2>3, CommitTable, SMTT(30)
<1>5. ASSUME NEW id \in SequenceIds, RollbackTentative(id) PROVE Kinds
  BY <1>5, <1>b, RollbackTable DEF RollbackTentative
<1>6. ASSUME NEW id \in SequenceIds, RemoveSequence(id) PROVE Kinds
  BY <1>6, <1>b, RemoveTable DEF RemoveSequence
<1>7. ASSUME NEW id \in SequenceIds, NEW source \in SequenceIds, ForkSequence(source, id)
      PROVE  Kinds
  <2>1. id \in SequenceIds \ DOMAIN table.sequences /\ source \in DOMAIN table.sequences
    BY <1>7 DEF ForkSequence
  <2>2. CanFork(table, source)
    BY <1>7 DEF ForkSequence
  <2>3. PICK a \in TargetAllocations(table, ForkCopies(table, source)),
             d \in DraftAllocations(table,
                     FreshDrafts(table, source, ForkCopies(table, source))) :
          table' = fork_sequence(table, source, id, a, d)
    BY <1>7 DEF ForkSequence
  <2> QED BY <1>a, <2>1, <2>2, <2>3, ForkTable, SMTT(30)
<1>8. ASSUME NEW generation \in Generations, BindReuseQuarantine(generation)
      PROVE  Kinds
  BY <1>8, Zenon DEF BindReuseQuarantine, Kinds
<1>9. ASSUME NEW generation \in Generations, AcknowledgeReuseQuarantine(generation)
      PROVE  Kinds
  BY <1>9, Zenon DEF AcknowledgeReuseQuarantine, Kinds
<1>10. CASE UNCHANGED table
  BY <1>10, Zenon DEF Kinds
<1> QED
  BY <1>1, <1>2, <1>3, <1>4, <1>5, <1>6, <1>7, <1>8, <1>9, <1>10, SMTT(30) DEF Next

\* Every kind of step preserves the invariant of the table.
LEMMA NextTable == TableInv(table) /\ [Next]_table => TableInv(table')
<1> SUFFICES ASSUME TableInv(table), Kinds PROVE TableInv(table')
  BY NextIsOfAKind, Zenon
<1>1. ASSUME NEW id \in SequenceIds, Gains(table, table', id) PROVE TableInv(table')
  BY <1>1, GainCounts, GainPreserves DEF Gains
<1>2. ASSUME NEW id \in DOMAIN table.sequences, GivesBack(table, table', id)
      PROVE  TableInv(table')
  BY <1>2, GiveBackCounts, GiveBackPreserves DEF GivesBack
<1>3. ASSUME NEW generation \in Generations, table' = bind_reuse_quarantine(table, generation)
      PROVE  TableInv(table')
  BY <1>3, BindTable, Zenon
<1>4. CASE table' = acknowledge_reuse_quarantine(table)
  BY <1>4, AckTable, Zenon
<1>5. CASE UNCHANGED table
  BY <1>5, Zenon
<1> QED BY <1>1, <1>2, <1>3, <1>4, <1>5, Zenon DEF Kinds

\* A kind of step frees only slots of an acknowledged quarantine.
LEMMA KindsFree ==
  ASSUME TableInv(table), Kinds, NEW r \in Ranks
  PROVE  /\ \A i \in table'.free_target[r] \ table.free_target[r] :
              /\ i \in table.quarantined_target[r]
              /\ table.quarantine_generation # NONE
              /\ table'.quarantine_generation = NONE
         /\ \A i \in table'.free_draft[r] \ table.free_draft[r] :
              /\ i \in table.quarantined_draft[r]
              /\ table.quarantine_generation # NONE
              /\ table'.quarantine_generation = NONE
<1>1. ASSUME NEW id, NEW fresh, NEW shared, Gained(table, table', id, fresh, shared)
      PROVE  /\ table'.free_target[r] \subseteq table.free_target[r]
             /\ table'.free_draft[r] \subseteq table.free_draft[r]
  <2>1. /\ table'.free_target =
             [s \in Ranks |-> {i \in table.free_target[s] : <<s, i>> \notin fresh}]
        /\ table'.free_draft =
             [s \in Ranks |-> {i \in table.free_draft[s] :
                \A p \in Drafted(table, table', fresh) : p[1] = s => table'.physical[p].draft # i}]
    BY <1>1, Zenon DEF Gained
  <2> QED BY <2>1
<1>2. ASSUME NEW id, NEW from, GaveBack(table, table', id, from)
      PROVE  table'.free_target = table.free_target /\ table'.free_draft = table.free_draft
  BY <1>2, Zenon DEF GaveBack
<1>3. ASSUME NEW generation \in Generations, table' = bind_reuse_quarantine(table, generation)
      PROVE  table'.free_target = table.free_target /\ table'.free_draft = table.free_draft
  BY <1>3 DEF bind_reuse_quarantine, TableInv, Shaped
<1>4. CASE /\ table.quarantine_generation \in Generations
           /\ table' = acknowledge_reuse_quarantine(table)
  <2>1. /\ table'.free_target = [s \in Ranks |-> table.free_target[s] \cup table.quarantined_target[s]]
        /\ table'.free_draft = [s \in Ranks |-> table.free_draft[s] \cup table.quarantined_draft[s]]
        /\ table'.quarantine_generation = NONE
    BY <1>4 DEF acknowledge_reuse_quarantine, TableInv, Shaped
  <2>2. table.quarantine_generation # NONE
    BY <1>4, NoneAssumption
  <2> QED BY <2>1, <2>2
<1> QED BY <1>1, <1>2, <1>3, <1>4, Zenon DEF Kinds, Gains, GivesBack

\* The inductive invariant as a state predicate.
IInv == TableInv(table)

\* IInv is an inductive invariant of the page table: new() establishes it
\* and every call preserves it.
THEOREM TableInvariant == Spec => []IInv
<1>1. Init => IInv
  BY NewTable DEF Init, IInv
<1>2. IInv /\ [Next]_table => IInv'
  BY NextTable DEF IInv
<1> QED BY <1>1, <1>2, PTL DEF Spec

\* The fields of the table keep the types that the struct declares.
THEOREM TypeCorrect == Spec => []TypeOK
<1>1. IInv => TypeOK
  BY DEF IInv, TableInv, TypeOK
<1> QED BY <1>1, TableInvariant, PTL

\* Every target and every draft slot of every rank is always in exactly one of
\* the free set, the quarantine and the live pages: the allocator of
\* sequence.rs neither loses a slot nor hands one out twice.
THEOREM SlotsArePartitioned ==
    Spec => [](TargetSlotsArePartitioned /\ DraftSlotsArePartitioned)
<1>1. IInv => TargetSlotsArePartitioned /\ DraftSlotsArePartitioned
  BY DEF IInv, TableInv, TargetSlotsArePartitioned, DraftSlotsArePartitioned
<1> QED BY <1>1, TableInvariant, PTL

\* The reference count of every live page is the number of sequences holding it,
\* and no sequence holds a page that is not live.
THEOREM ReferencesAreExact == Spec => []ReferencesCountHolders
<1>1. IInv => ReferencesCountHolders
  BY SMTT(30) DEF IInv, TableInv, ReferencesCountHolders
<1> QED BY <1>1, TableInvariant, PTL

\* Copy on write holds: a page that may still be written has one holder.
THEOREM WritersAreAlone == Spec => []WritablePagesAreExclusive
<1>1. IInv => WritablePagesAreExclusive
  BY DEF IInv, TableInv, WritablePagesAreExclusive, ExclusiveWriters,
         WritersHoldOneReference, CountedReferences
<1> QED BY <1>1, TableInvariant, PTL

\* The prefix index names exactly the live pages that carry a prefix record.
THEOREM IndexIsExact == Spec => []PrefixIndexIsExact
<1>1. IInv => PrefixIndexIsExact
  BY DEF IInv, TableInv, PrefixIndexIsExact
<1> QED BY <1>1, TableInvariant, PTL

\* A slot whose page was freed goes through the quarantine: release_page never
\* puts it back on a free list, and only the acknowledgement of the generation
\* bound by bind_reuse_quarantine does, so no slot is handed out while a rank
\* may still write to it.
THEOREM SlotsReturnByAcknowledgement == Spec => SlotsReturnOnlyByAcknowledgement
<1>1. IInv /\ [Next]_table =>
        [\A r \in Ranks :
          /\ \A i \in table'.free_target[r] \ table.free_target[r] :
               /\ i \in table.quarantined_target[r]
               /\ table.quarantine_generation # NONE
               /\ table'.quarantine_generation = NONE
          /\ \A i \in table'.free_draft[r] \ table.free_draft[r] :
               /\ i \in table.quarantined_draft[r]
               /\ table.quarantine_generation # NONE
               /\ table'.quarantine_generation = NONE]_table
  BY NextIsOfAKind, KindsFree, Zenon DEF IInv
<1> QED BY <1>1, TableInvariant, PTL DEF Spec, SlotsReturnOnlyByAcknowledgement
=============================================================================
