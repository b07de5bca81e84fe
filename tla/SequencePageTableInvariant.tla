---------------------- MODULE SequencePageTableInvariant ----------------------
(***************************************************************************)
(* The inductive invariant of the page table.                              *)
(***************************************************************************)
EXTENDS SequencePageTable

\* The fields a table and its entries have: what the provers need to see through
\* the EXCEPTs of the operations.
Shaped(t) ==
    /\ DOMAIN t = {"free_target", "free_draft", "quarantined_target",
                   "quarantined_draft", "quarantine_generation", "physical",
                   "prefixes", "sequences"}
    /\ \A s \in DOMAIN t.sequences :
         DOMAIN t.sequences[s] =
           {"mtp", "committed_tokens", "page_count", "pages", "tentative"}
    /\ t.physical \in [DOMAIN t.physical -> Page]
    /\ t.sequences = [s \in DOMAIN t.sequences |-> t.sequences[s]]
    /\ t.prefixes = [k \in DOMAIN t.prefixes |-> t.prefixes[k]]

\* No sequence holds one physical page at two ordinals.
InjectivePages(t) ==
    \A s \in DOMAIN t.sequences :
        \A o, p \in 0..(t.sequences[s].page_count - 1) :
            t.sequences[s].pages[o] = t.sequences[s].pages[p] => o = p

\* A page that may still be written carries one reference.
WritersHoldOneReference(t) ==
    \A p \in DOMAIN t.physical :
        t.physical[p].state # "HbmSealed" => t.physical[p].references = 1

\* The inductive invariant of a table value.  InjectivePages is the strengthening
\* that makes one release per ordinal one release per holder.
TableInv(t) ==
    /\ IsTable(t)
    /\ Shaped(t)
    /\ TargetPartition(t)
    /\ DraftPartition(t)
    /\ CountedReferences(t)
    /\ WritersHoldOneReference(t)
    /\ ExactIndex(t)
    /\ InjectivePages(t)

\* What remove_sequence, commit_tentative and rollback_tentative have in common:
\* u is t after sequence id gave back its pages from ordinal `from` on.
GaveBack(t, u, id, from) ==
    LET pages == PagesFrom(t, id, from)
        gone == Unreferenced(t, pages)
    IN  /\ DOMAIN u = DOMAIN t
        /\ u.free_target = t.free_target
        /\ u.free_draft = t.free_draft
        /\ u.quarantine_generation = t.quarantine_generation
        /\ u.quarantined_target =
             [r \in Ranks |-> t.quarantined_target[r]
                                \cup {i \in TargetIds : <<r, i>> \in gone}]
        /\ u.quarantined_draft =
             [r \in Ranks |-> t.quarantined_draft[r] \cup
                {i \in DraftIds : \E p \in gone :
                    p[1] = r /\ t.physical[p].draft = i}]
        /\ u.prefixes =
             [k \in {k \in DOMAIN t.prefixes : \A p \in gone :
                   ~(t.physical[p].prefix # NONE
                     /\ t.physical[p].prefix.key = k)} |-> t.prefixes[k]]
        /\ u.physical \in [DOMAIN t.physical \ gone -> Page]
        /\ \A p \in DOMAIN t.physical \ gone :
             /\ u.physical[p].references = IF p \in pages
                                           THEN t.physical[p].references - 1
                                           ELSE t.physical[p].references
             /\ u.physical[p].draft = t.physical[p].draft
             /\ u.physical[p].prefix = t.physical[p].prefix
             /\ u.physical[p].state # "HbmSealed" => t.physical[p].state # "HbmSealed"
        /\ u.sequences = [s \in DOMAIN u.sequences |-> u.sequences[s]]
        /\ DOMAIN u.sequences \subseteq DOMAIN t.sequences
        /\ \A s \in DOMAIN t.sequences \ {id} :
             s \in DOMAIN u.sequences /\ u.sequences[s] = t.sequences[s]
        /\ id \notin DOMAIN u.sequences => from = 0
        /\ id \in DOMAIN u.sequences =>
             /\ DOMAIN u.sequences[id] = DOMAIN t.sequences[id]
             /\ u.sequences[id].mtp = t.sequences[id].mtp
             /\ u.sequences[id].committed_tokens \in Nat
             /\ u.sequences[id].tentative = NONE
             /\ u.sequences[id].page_count = from
             /\ u.sequences[id].pages =
                  [o \in 0..(from - 1) |-> t.sequences[id].pages[o]]

\* u is t after sequence id gave back the pages behind some ordinal.
GivesBack(t, u, id) ==
    \E from \in 0..t.sequences[id].page_count : GaveBack(t, u, id, from)

\* The pages of u that were given a draft slot on the way from t.
Drafted(t, u, fresh) ==
    {p \in DOMAIN u.physical :
        u.physical[p].draft # NONE /\ (p \in fresh \/ t.physical[p].draft = NONE)}

\* What admission, fork, append and reservation have in common: u is t after
\* sequence id came to hold the new pages `fresh` and the live pages `shared`.
Gained(t, u, id, fresh, shared) ==
    /\ DOMAIN u = DOMAIN t
    /\ u.quarantined_target = t.quarantined_target
    /\ u.quarantined_draft = t.quarantined_draft
    /\ u.quarantine_generation = t.quarantine_generation
    /\ fresh \subseteq PhysicalPageId
    /\ \A p \in fresh : p[2] \in t.free_target[p[1]]
    /\ shared \subseteq DOMAIN t.physical
    /\ u.free_target =
         [r \in Ranks |-> {i \in t.free_target[r] : <<r, i>> \notin fresh}]
    /\ u.free_draft =
         [r \in Ranks |-> {i \in t.free_draft[r] :
            \A p \in Drafted(t, u, fresh) : p[1] = r => u.physical[p].draft # i}]
    /\ u.physical \in [DOMAIN t.physical \cup fresh -> Page]
    /\ \A p \in Drafted(t, u, fresh) : u.physical[p].draft \in t.free_draft[p[1]]
    /\ \A p, q \in Drafted(t, u, fresh) :
         p[1] = q[1] /\ u.physical[p].draft = u.physical[q].draft => p = q
    /\ \A p \in DOMAIN t.physical :
         /\ t.physical[p].draft # NONE => u.physical[p].draft = t.physical[p].draft
         /\ u.physical[p].references = IF p \in shared
                                       THEN t.physical[p].references + 1
                                       ELSE t.physical[p].references
         /\ u.physical[p].state # "HbmSealed" =>
              p \notin shared /\ t.physical[p].references = 1
    /\ \A p \in fresh : u.physical[p].references = 1
    /\ u.prefixes = [k \in DOMAIN u.prefixes |-> u.prefixes[k]]
    /\ DOMAIN u.prefixes \subseteq {attachment.key : attachment \in Attachments}
    /\ ExactIndex(u)
    /\ u.sequences = [s \in DOMAIN t.sequences \cup {id} |-> u.sequences[s]]
    /\ \A s \in DOMAIN t.sequences \ {id} : u.sequences[s] = t.sequences[s]
    /\ DOMAIN u.sequences[id] =
         {"mtp", "committed_tokens", "page_count", "pages", "tentative"}
    /\ u.sequences[id].mtp \in BOOLEAN
    /\ u.sequences[id].committed_tokens \in Nat
    /\ u.sequences[id].page_count \in Nat
    /\ u.sequences[id].pages \in
         [0..(u.sequences[id].page_count - 1) -> PhysicalPageId]
    /\ u.sequences[id].tentative \in TentativeTail \cup {NONE}
    /\ \A p : p \in Held(u, id) <=>
         \/ p \in fresh \/ p \in shared
         \/ id \in DOMAIN t.sequences /\ p \in Held(t, id)
    /\ id \in DOMAIN t.sequences => shared \cap Held(t, id) = {}
    /\ \A o, p \in 0..(u.sequences[id].page_count - 1) :
         u.sequences[id].pages[o] = u.sequences[id].pages[p] => o = p

\* u is t after sequence id came to hold more pages.
Gains(t, u, id) == \E fresh, shared : Gained(t, u, id, fresh, shared)
=============================================================================
