---------------------------- MODULE MemoryPlan ----------------------------
(***************************************************************************)
(* What each rank's memory has to hold: glm-engine/src/memory.rs.  A plan  *)
(* comes from the measured inputs of the ranks, or from the reviewed       *)
(* profile budget, whose arithmetic is derived a second time.              *)
(*                                                                         *)
(* The terms that the plan only adds up (modules, graphs, workspace,       *)
(* collectives, staging, page tables, padding) are the one term fixed; the *)
(* records of a slot in all layers and indexer groups are SLOT_BYTES.      *)
(* NONE is an error.                                                       *)
(***************************************************************************)
EXTENDS Integers, FiniteSets, FiniteSetsExt

CONSTANTS
    RANK_SET_SIZE,
    PAGE_TOKENS,
    MAXIMUM_ACTIVE_SEQUENCES, MAXIMUM_VERIFIER_ROWS,
    MIN_LOCAL_CAPACITY_TOKENS, MIN_ESCROW_BYTES, CAPACITY_EXL3_RANK_WEIGHT_BYTES,
    MAXIMUM_PHYSICAL_PAGES_PER_RANK,
    SLOT_BYTES,           \* of a target and of a draft slot: [target |-> n, draft |-> m]
    MaxU64,
    NONE

PlanRanks == 0..RANK_SET_SIZE - 1

MIN_PAGE_SLACK_SLOTS_PER_RANK == MAXIMUM_ACTIVE_SEQUENCES * PAGE_TOKENS
MIN_MTP0_TENTATIVE_SLOTS_PER_RANK == MAXIMUM_ACTIVE_SEQUENCES
MIN_MTP_TENTATIVE_SLOTS_PER_RANK == MAXIMUM_VERIFIER_ROWS

is_serving(profile) == profile \in {"CapacityExl3", "HybridServe"}

round_up_to_page(slots) == ((slots + PAGE_TOKENS - 1) \div PAGE_TOKENS) * PAGE_TOKENS

bytes_for(slots, kind) == slots * SLOT_BYTES[kind]

required(terms) == terms.weights + terms.fixed + terms.model_metadata
                     + terms.escrow + terms.target + terms.draft

Slots(arena) == round_up_to_page(arena.committed + arena.slack + arena.tentative)

ArenaFloor(arena, tentative) ==
    arena.slack >= MIN_PAGE_SLACK_SLOTS_PER_RANK /\ arena.tentative >= tentative

\* RankMemoryPlan::build
build_rank(input) ==
    LET target == Slots(input.target)
        draft == Slots(input.draft)
        tentative == IF input.mtp_enabled THEN MIN_MTP_TENTATIVE_SLOTS_PER_RANK
                                          ELSE MIN_MTP0_TENTATIVE_SLOTS_PER_RANK
        terms == [weights |-> input.weights, fixed |-> input.fixed,
                  model_metadata |-> input.model_metadata, escrow |-> input.escrow,
                  target |-> bytes_for(target, "target"), draft |-> bytes_for(draft, "draft")]
    IN  IF /\ input.rank \in PlanRanks
           /\ is_serving(input.profile) =>
                /\ input.target.committed >= MIN_LOCAL_CAPACITY_TOKENS
                /\ input.escrow >= MIN_ESCROW_BYTES
                /\ ArenaFloor(input.target, tentative)
                /\ input.mtp_enabled =>
                     /\ input.draft.committed >= MIN_LOCAL_CAPACITY_TOKENS
                     /\ ArenaFloor(input.draft, tentative)
           /\ IF input.mtp_enabled THEN draft <= target ELSE draft = 0
           /\ required(terms) <= MaxU64
           /\ required(terms) <= input.measured
        THEN [rank |-> input.rank, profile |-> input.profile, mtp_enabled |-> input.mtp_enabled,
              measured |-> input.measured, target |-> input.target, draft |-> input.draft,
              target_slots |-> target, draft_slots |-> draft, terms |-> terms,
              required |-> required(terms), headroom |-> input.measured - required(terms)]
        ELSE NONE

\* inputs is a function over 1..n; the plans are put in the order of the ranks.
plan_system_memory(inputs) ==
    LET plans == {build_rank(inputs[i]) : i \in DOMAIN inputs}
        Of(r) == CHOOSE plan \in plans : plan.rank = r
        Shape(plan) == <<plan.profile, plan.mtp_enabled, plan.target, plan.draft>>
        target_pages == Of(0).target_slots \div PAGE_TOKENS
        draft_pages == Of(0).draft_slots \div PAGE_TOKENS
    IN  IF \/ Cardinality(DOMAIN inputs) # RANK_SET_SIZE
           \/ NONE \in plans
           \/ {plan.rank : plan \in plans} # PlanRanks
           \/ Cardinality({Shape(plan) : plan \in plans}) # 1
           \/ target_pages = 0
           \/ target_pages > MAXIMUM_PHYSICAL_PAGES_PER_RANK
           \/ draft_pages > target_pages
        THEN NONE
        ELSE [ranks |-> [r \in PlanRanks |-> Of(r)],
              cache_arena |-> [target_pages_per_rank |-> target_pages,
                               draft_pages_per_rank |-> draft_pages],
              aggregate |-> FoldSet(LAMBDA r, sum : sum + Of(r).required, 0, PlanRanks),
              headroom |-> Min({plan.headroom : plan \in plans}),
              admitted |-> Min({plan.target.committed : plan \in plans})]

Input(plan) ==
    [rank |-> plan.rank, profile |-> plan.profile, mtp_enabled |-> plan.mtp_enabled,
     measured |-> plan.measured, target |-> plan.target, draft |-> plan.draft,
     weights |-> plan.terms.weights, fixed |-> plan.terms.fixed,
     model_metadata |-> plan.terms.model_metadata, escrow |-> plan.terms.escrow]

\* SystemMemoryPlan::validate builds the plan again from its own terms.
validate(plan) == plan_system_memory([i \in 1..RANK_SET_SIZE |-> Input(plan.ranks[i - 1])]) = plan

-----------------------------------------------------------------------------
(* The profile budget.                                                     *)

ServingArena ==
    [committed |-> MIN_LOCAL_CAPACITY_TOKENS, slack |-> MIN_PAGE_SLACK_SLOTS_PER_RANK,
     tentative |-> MIN_MTP_TENTATIVE_SLOTS_PER_RANK]

\* Refused if the slots fill no whole number of pages.
capacity_exl3_cache_terms ==
    LET slots == ServingArena.committed + ServingArena.slack + ServingArena.tentative
    IN  IF slots % PAGE_TOKENS # 0 THEN NONE
        ELSE [target |-> bytes_for(slots, "target"), draft |-> bytes_for(slots, "draft")]

ValidBudgetRank(rank) ==
    /\ rank.terms.weights = CAPACITY_EXL3_RANK_WEIGHT_BYTES
    /\ rank.terms.escrow >= MIN_ESCROW_BYTES
    /\ capacity_exl3_cache_terms =
         [target |-> rank.terms.target, draft |-> rank.terms.draft]
    /\ required(rank.terms) <= MaxU64 /\ required(rank.terms) = rank.required
    /\ rank.observed - rank.required = rank.headroom /\ rank.headroom >= 0
    /\ rank.floor <= rank.observed
    /\ rank.required <= rank.floor

\* ProfileBudgetArtifact::validate
validate_budget(budget) ==
    LET ranks == {budget.ranks[i] : i \in DOMAIN budget.ranks}
        floor == Min({rank.floor : rank \in ranks})
        measured == {rank.measured : rank \in ranks}
    IN  /\ budget.identity
        /\ budget.target = ServingArena /\ budget.draft = ServingArena
        /\ Cardinality(DOMAIN budget.ranks) = RANK_SET_SIZE
        /\ {rank.rank : rank \in ranks} = PlanRanks
        /\ \A rank \in ranks : ValidBudgetRank(rank) /\ rank.floor = floor
        /\ CASE budget.status = "pending" ->
                  ~budget.conversion_allowed /\ budget.blockers # {} /\ measured = {NONE}
             [] budget.status = "complete" ->
                  /\ budget.conversion_allowed /\ budget.blockers = {}
                  /\ NONE \notin measured
                  /\ Min(measured) = floor
                  /\ \A rank \in ranks : rank.required <= rank.measured
             [] OTHER -> FALSE

\* ProfileBudgetArtifact::system_memory_plan
system_memory_plan(budget) ==
    LET inputs == [i \in DOMAIN budget.ranks |->
                     LET rank == budget.ranks[i]
                     IN  [rank |-> rank.rank, profile |-> "CapacityExl3", mtp_enabled |-> TRUE,
                          measured |-> rank.measured, target |-> budget.target,
                          draft |-> budget.draft, weights |-> rank.terms.weights,
                          fixed |-> rank.terms.fixed,
                          model_metadata |-> rank.terms.model_metadata,
                          escrow |-> rank.terms.escrow]]
        plan == plan_system_memory(inputs)
    IN  IF \/ ~validate_budget(budget)
           \/ budget.status # "complete" \/ ~budget.conversion_allowed
           \/ plan = NONE
           \/ \E i \in DOMAIN budget.ranks :
                LET planned == plan.ranks[budget.ranks[i].rank]
                IN  \/ planned.required # budget.ranks[i].required
                    \/ planned.terms # budget.ranks[i].terms
        THEN NONE ELSE plan

-----------------------------------------------------------------------------
(* What the pages of a plan are for.                                       *)

\* Pages a sequence of n positions has on a rank: page i belongs to rank i % R.
PagesOn(r, n) ==
    LET pages == (n + PAGE_TOKENS - 1) \div PAGE_TOKENS
    IN  Cardinality({page \in 0..pages - 1 : page % RANK_SET_SIZE = r})

\* The committed lengths of the sequences a plan admits together, and the
\* positions each of them may reserve above its committed ones.
Loads(plan) ==
    LET capacity == RANK_SET_SIZE * plan.admitted
    IN  {load \in [1..MAXIMUM_ACTIVE_SEQUENCES -> 0..capacity] :
           FoldSet(LAMBDA s, sum : sum + load[s], 0, 1..MAXIMUM_ACTIVE_SEQUENCES) <= capacity}

MaximumTentative(plan) ==
    IF plan.ranks[0].mtp_enabled THEN MAXIMUM_VERIFIER_ROWS \div MAXIMUM_ACTIVE_SEQUENCES ELSE 1

\* The committed lengths of the most sequences a step serves, together as long
\* as the committed slots of all ranks, and all positions these sequences may
\* reserve on top, find their pages on every rank, however the lengths are
\* spread: "rank-local page allocation cannot depend on a step fallback"
\* (docs/offline-engine-contract.md).
ArenaHoldsLoad(plan) ==
    \A load \in Loads(plan), r \in PlanRanks :
        FoldSet(LAMBDA s, sum : sum + PagesOn(r, load[s] + MaximumTentative(plan)), 0,
                1..MAXIMUM_ACTIVE_SEQUENCES) <= plan.cache_arena.target_pages_per_rank
=============================================================================
