----------------------------- MODULE RankSetLoad -----------------------------
(***************************************************************************)
(* One four-rank checkpoint load after another: the process-wide           *)
(* RankSetLoadCoordinator and the RankArenaLifecycle of each rank's owner  *)
(* thread (glm-engine/src/checkpoint_load.rs).  A digest is the value it   *)
(* is computed from.  Messages are never removed, so they may be           *)
(* delivered late, twice, in any order, and to the attempt after theirs.   *)
(***************************************************************************)
EXTENDS Naturals, FiniteSets

CONSTANTS
    Ranks,         \* RANK_SET_SIZE of them
    Plans,         \* the plans an attempt may be started with
    MaxAttempts,   \* bound: load attempts
    Faults,        \* what may fail: "rank", "timeout", "evidence", "stale"
    NONE

Evidence == [rank: Ranks, plan: Plans, generation: Nat]

Receipt == [rank: Ranks, plan: Plans, generation: Nat, expected: Plans \X Ranks,
            evidence: Evidence]

ArenaState == {"Allocated", "Staging", "Prepared", "Adopted", "Executable", "Aborted"}

Arena == [rank: Ranks, plan: Plans, generation: Nat, prepared: Receipt \cup {NONE},
          set: [Ranks -> Receipt] \cup {NONE}, state: ArenaState]

ASSUME RankSetAssumption ==
    /\ IsFiniteSet(Ranks) /\ Ranks # {} /\ MaxAttempts \in Nat
    /\ NONE \notin Arena

VARIABLES
    coordinator,   \* RankSetLoadCoordinator of the current attempt
    arenas,        \* RankArenaLifecycle of each rank, NONE before allocation
    messages,      \* everything ever sent
    freed          \* how often each <<rank, generation>> was released

vars == <<coordinator, arenas, messages, freed>>
-----------------------------------------------------------------------------
(* Evidence and receipts.                                                  *)

\* What the plan expects of a rank: file payload, uploaded planes, arena.
Expected(plan, rank) == <<plan, rank>>

\* RankLoadVerificationEvidence::new: everything measured is what was planned.
VerificationEvidence(plan, rank, generation, payload, upload, arena) ==
    IF /\ payload = Expected(plan, rank)
       /\ upload = Expected(plan, rank)
       /\ arena = <<Expected(plan, rank), generation>>
    THEN [rank |-> rank, plan |-> plan, generation |-> generation]
    ELSE NONE

PreparedRankReceipt(plan, rank, generation, evidence) ==
    IF /\ evidence # NONE
       /\ evidence.rank = rank
       /\ evidence.plan = plan
       /\ evidence.generation = generation
    THEN [rank |-> rank, plan |-> plan, generation |-> generation,
          expected |-> Expected(plan, rank), evidence |-> evidence]
    ELSE NONE

\* PreparedRankReceipt::validate: rebuild the receipt and compare.
ValidReceipt(receipt, plan) ==
    receipt = [rank |-> receipt.rank, plan |-> plan, generation |-> receipt.generation,
               expected |-> Expected(plan, receipt.rank), evidence |-> receipt.evidence]

\* PreparedRankSet::new; the set's digest is its receipts.
PreparedRankSet(plan, receipts) ==
    IF \A r \in Ranks : receipts[r].rank = r /\ ValidReceipt(receipts[r], plan)
    THEN [plan |-> plan, receipts |-> receipts]
    ELSE NONE

AdoptionAcknowledgement(set, rank, generation) ==
    [rank |-> rank, plan |-> set.plan, set |-> set.receipts, generation |-> generation]

\* PreparedRankSet::complete_adoption
complete_adoption(set, acknowledgements) ==
    IF \A r \in Ranks :
        acknowledgements[r] = AdoptionAcknowledgement(set, r, set.receipts[r].generation)
    THEN [plan |-> set.plan, set |-> set.receipts]
    ELSE NONE
-----------------------------------------------------------------------------
(* RankSetLoadCoordinator: each report returns the coordinator after it    *)
(* and the action it asks for.                                             *)

NewCoordinator(plan, attempt, owner_allocation_generations) ==
    [plan |-> plan, attempt |-> attempt,
     generations |-> owner_allocation_generations,
     state |-> "Preparing",
     prepared |-> [r \in Ranks |-> NONE],
     set |-> NONE,
     acknowledgements |-> [r \in Ranks |-> NONE],
     adopted |-> NONE,
     terminal_error |-> NONE]

Action(c, kind, value) ==
    [coordinator |-> c,
     action |-> [kind |-> kind, attempt |-> c.attempt, value |-> value]]

fail(c, error) ==
    Action([c EXCEPT !.state = "Aborted",
                     !.prepared = [r \in Ranks |-> NONE],
                     !.set = NONE,
                     !.acknowledgements = [r \in Ranks |-> NONE],
                     !.adopted = NONE,
                     !.terminal_error = IF @ = NONE THEN error ELSE @],
           "Abort", c.plan)

\* A receipt of an earlier attempt at the same plan is as valid as a new one.
report_prepared_of_any(c, receipt) ==
    LET prepared == [c.prepared EXCEPT ![receipt.rank] = receipt]
    IN  IF c.state # "Preparing" \/ c.prepared[receipt.rank] # NONE
            \/ ~ValidReceipt(receipt, c.plan)
        THEN fail(c, "Receipt")
        ELSE IF \E r \in Ranks : prepared[r] = NONE
        THEN Action([c EXCEPT !.prepared = prepared], "Wait", NONE)
        ELSE LET set == PreparedRankSet(c.plan, prepared)
             IN  Action([c EXCEPT !.prepared = prepared, !.set = set,
                                  !.state = "Adopting"], "Adopt", set)

report_prepared(c, receipt) ==
    LET rank == receipt.rank
        prepared == [c.prepared EXCEPT ![rank] = receipt]
        set == PreparedRankSet(c.plan, prepared)
    IN  CASE c.state = "Aborted" -> Action(c, "Abort", c.plan)
          [] c.state \in {"Adopting", "Adopted"} -> fail(c, "Transition")
          [] c.state = "Preparing" ->
               IF \/ c.prepared[rank] # NONE
                  \/ receipt.generation # c.generations[rank]
                  \/ ~ValidReceipt(receipt, c.plan)
               THEN fail(c, "Receipt")
               ELSE IF \E r \in Ranks : prepared[r] = NONE
               THEN Action([c EXCEPT !.prepared = prepared], "Wait", NONE)
               ELSE IF set = NONE THEN fail(c, "Receipt")
               ELSE Action([c EXCEPT !.prepared = prepared, !.set = set,
                                     !.state = "Adopting"], "Adopt", set)

report_rank_failure(c, rank, error) ==
    IF c.state = "Aborted" THEN Action(c, "Abort", c.plan) ELSE fail(c, error)

\* One acknowledgement speaks for the set.
report_adoption_of_one(c, acknowledgement) ==
    IF c.state # "Adopting" THEN fail(c, "Transition")
    ELSE LET adopted == [plan |-> c.plan, set |-> c.set.receipts]
         IN  Action([c EXCEPT !.state = "Adopted", !.adopted = adopted], "Complete", adopted)

report_adoption_acknowledgement(c, acknowledgement) ==
    LET rank == acknowledgement.rank
        acknowledgements == [c.acknowledgements EXCEPT ![rank] = acknowledgement]
        adopted == complete_adoption(c.set, acknowledgements)
    IN  CASE c.state = "Aborted" -> Action(c, "Abort", c.plan)
          [] c.state \in {"Preparing", "Adopted"} -> fail(c, "Transition")
          [] c.state = "Adopting" ->
               IF \/ c.acknowledgements[rank] # NONE
                  \/ acknowledgement # AdoptionAcknowledgement(
                                          c.set, rank, c.set.receipts[rank].generation)
               THEN fail(c, "Adoption")
               ELSE IF \E r \in Ranks : acknowledgements[r] = NONE
               THEN Action([c EXCEPT !.acknowledgements = acknowledgements], "Wait", NONE)
               ELSE IF adopted = NONE THEN fail(c, "Adoption")
               ELSE Action([c EXCEPT !.acknowledgements = acknowledgements,
                                     !.adopted = adopted,
                                     !.state = "Adopted"], "Complete", adopted)
-----------------------------------------------------------------------------
(* RankArenaLifecycle.  "Executable" is the arena whose lifecycle          *)
(* execution_permit consumed.                                              *)

allocated(plan, rank, generation) ==
    [rank |-> rank, plan |-> plan, generation |-> generation,
     prepared |-> NONE, set |-> NONE, state |-> "Allocated"]

begin_staging(a) == IF a.state = "Allocated" THEN [a EXCEPT !.state = "Staging"] ELSE NONE

prepare(a, plan, receipt) ==
    IF /\ a.state = "Staging" /\ a.plan = plan
       /\ receipt.rank = a.rank /\ receipt.generation = a.generation
       /\ ValidReceipt(receipt, plan)
    THEN [a EXCEPT !.prepared = receipt, !.state = "Prepared"]
    ELSE NONE

acknowledge_adoption(a, set) ==
    IF a.state = "Prepared" /\ set.plan = a.plan /\ set.receipts[a.rank] = a.prepared
    THEN [a EXCEPT !.set = set.receipts, !.state = "Adopted"]
    ELSE NONE

execution_permit(a, adopted) ==
    IF a.state = "Adopted" /\ a.plan = adopted.plan /\ a.set = adopted.set
    THEN [a EXCEPT !.state = "Executable"]
    ELSE NONE

abort(a) ==
    [arena |-> [a EXCEPT !.state = "Aborted", !.prepared = NONE, !.set = NONE],
     release |-> a.state # "Aborted"]
-----------------------------------------------------------------------------
(* The attempt.                                                            *)

\* What the caller names the owners of an attempt: no two attempts share one.
\* A receipt names its rank, so the ranks of an attempt may.
OwnerGenerations(attempt) == [r \in Ranks |-> attempt]

Init ==
    /\ \E plan \in Plans : coordinator = NewCoordinator(plan, 1, OwnerGenerations(1))
    /\ arenas = [r \in Ranks |-> NONE]
    /\ messages = {}
    /\ freed = [x \in Ranks \X (1..MaxAttempts) |-> 0]

Message(kind, value) == [kind |-> kind, attempt |-> coordinator.attempt, value |-> value]
Sent(kind) == {m \in messages : m.kind = kind}

\* Without "stale" a message reaches only the attempt it was sent in.
Deliverable(kind) ==
    {m \in Sent(kind) : "stale" \in Faults \/ m.attempt = coordinator.attempt}

Allocate(r) ==
    /\ arenas[r] = NONE
    /\ arenas' = [arenas EXCEPT
                    ![r] = allocated(coordinator.plan, r, coordinator.generations[r])]
    /\ UNCHANGED <<coordinator, messages, freed>>

Stage(r) ==
    /\ arenas[r] # NONE
    /\ \E a \in {begin_staging(arenas[r])} \ {NONE} : arenas' = [arenas EXCEPT ![r] = a]
    /\ UNCHANGED <<coordinator, messages, freed>>

\* The rank answers with a receipt, or with an error when what it measured
\* is not what was planned.
Prepare(r) ==
    /\ arenas[r] # NONE
    /\ arenas[r].state = "Staging"
    /\ Message("failure", r) \notin messages
    /\ LET a == arenas[r]
           planned == Expected(a.plan, r)
           Measures == {planned} \union (IF "evidence" \in Faults THEN {NONE} ELSE {})
       IN \E payload, upload, device \in Measures :
            LET evidence == VerificationEvidence(a.plan, r, a.generation, payload, upload,
                                                 <<device, a.generation>>)
                receipt == PreparedRankReceipt(a.plan, r, a.generation, evidence)
            IN IF receipt = NONE
               THEN /\ messages' = messages \union {Message("failure", r)}
                    /\ UNCHANGED arenas
               ELSE /\ messages' = messages \union {Message("prepared", receipt)}
                    /\ arenas' = [arenas EXCEPT ![r] = prepare(a, a.plan, receipt)]
    /\ UNCHANGED <<coordinator, freed>>

\* A rank may fail at any point before it executes.
RankFails(r) ==
    /\ "rank" \in Faults
    /\ coordinator.state # "Aborted"
    /\ messages' = messages \union {Message("failure", r)}
    /\ UNCHANGED <<coordinator, arenas, freed>>

Acknowledge(r) ==
    /\ arenas[r] # NONE
    /\ \E m \in Deliverable("Adopt") :
         \E a \in {acknowledge_adoption(arenas[r], m.value)} \ {NONE} :
            /\ arenas' = [arenas EXCEPT ![r] = a]
            /\ messages' = messages \union
                 {Message("acknowledged", AdoptionAcknowledgement(m.value, r, a.generation))}
    /\ UNCHANGED <<coordinator, freed>>

Finalize(r) ==
    /\ arenas[r] # NONE
    /\ \E m \in Deliverable("Complete") :
         \E a \in {execution_permit(arenas[r], m.value)} \ {NONE} :
            arenas' = [arenas EXCEPT ![r] = a]
    /\ UNCHANGED <<coordinator, messages, freed>>

\* A rank that never allocated has nothing to release.
AbortRank(r) ==
    /\ \E m \in Sent("Abort") : m.attempt = coordinator.attempt
    /\ \E a \in {abort(IF arenas[r] = NONE
                       THEN [allocated(coordinator.plan, r, coordinator.generations[r])
                                EXCEPT !.state = "Aborted"]
                       ELSE arenas[r])} :
         /\ arenas' = [arenas EXCEPT ![r] = a.arena]
         /\ freed' = [freed EXCEPT ![<<r, coordinator.attempt>>] =
                        IF a.release THEN @ + 1 ELSE @]
    /\ UNCHANGED <<coordinator, messages>>

Report(result) ==
    /\ coordinator' = result.coordinator
    /\ messages' = IF result.action.kind = "Wait" THEN messages
                   ELSE messages \union {result.action}
    /\ UNCHANGED <<arenas, freed>>

DeliverPrepared ==
    \E m \in Deliverable("prepared") : Report(report_prepared(coordinator, m.value))
DeliverAcknowledgement ==
    \E m \in Deliverable("acknowledged") :
        Report(report_adoption_acknowledgement(coordinator, m.value))
DeliverFailure ==
    \E m \in Deliverable("failure") : Report(report_rank_failure(coordinator, m.value, "Rank"))

\* The dispatcher gives a silent rank up.
PhaseTimeout ==
    /\ "timeout" \in Faults
    /\ \E r \in Ranks : Report(report_rank_failure(coordinator, r, "Timeout"))

\* The next load, after every rank released the last one's arena.
NextAttempt ==
    /\ coordinator.state = "Aborted"
    /\ coordinator.attempt < MaxAttempts
    /\ \A r \in Ranks : arenas[r] # NONE /\ arenas[r].state = "Aborted"
    /\ LET attempt == coordinator.attempt + 1
       IN  \E plan \in Plans :
             coordinator' = NewCoordinator(plan, attempt, OwnerGenerations(attempt))
    /\ arenas' = [r \in Ranks |-> NONE]
    /\ UNCHANGED <<messages, freed>>

RankStep(r) == Allocate(r) \/ Stage(r) \/ Prepare(r) \/ Acknowledge(r) \/ Finalize(r)
CoordinatorStep == DeliverPrepared \/ DeliverAcknowledgement \/ DeliverFailure

Next ==
    \/ \E r \in Ranks : RankStep(r) \/ AbortRank(r) \/ RankFails(r)
    \/ CoordinatorStep \/ PhaseTimeout \/ NextAttempt

Spec == Init /\ [][Next]_vars

-----------------------------------------------------------------------------
\* The set the coordinator sends for adoption is made of receipts of this
\* attempt's allocations: report_prepared lets no receipt of an earlier
\* attempt stand in for a rank, though it names the same plan.
SetIsOfThisAttempt ==
    coordinator.set # NONE =>
        \A r \in Ranks : coordinator.set.receipts[r].generation = coordinator.attempt

\* An arena is executable only after every rank acknowledged the very set
\* its own receipt is in, as the comment on RankArenaLifecycle requires.
PermitNeedsEveryRank ==
    \A r \in Ranks :
        arenas[r] # NONE /\ arenas[r].state = "Executable" =>
            \A q \in Ranks :
                /\ arenas[r].set[q].generation = coordinator.attempt
                /\ \E m \in Sent("acknowledged") :
                     m.value = [rank |-> q, plan |-> coordinator.plan, set |-> arenas[r].set,
                                generation |-> coordinator.attempt]

\* Neither the set nor a permit ever rests on a receipt of an earlier attempt.
PermitsAreOfThisAttempt == SetIsOfThisAttempt /\ PermitNeedsEveryRank

\* The messages of the load implement the one decision of AtomicAdoption.
ArenaView(r) ==
    IF arenas[r] = NONE THEN "empty"
    ELSE CASE arenas[r].state \in {"Allocated", "Staging", "Prepared"} -> "quarantined"
           [] arenas[r].state = "Adopted" -> "pledged"
           [] arenas[r].state = "Executable" -> "executable"
           [] arenas[r].state = "Aborted" -> "released"

Atomic == INSTANCE AtomicAdoption WITH
            aborted <- coordinator.state = "Aborted",
            decided <- \E m \in Sent("Complete") : m.attempt = coordinator.attempt,
            arena <- [r \in Ranks |-> ArenaView(r)]

\* The load refines AtomicAdoption: one decision for all ranks.
AdoptionIsAtomic == Atomic!AtomicSpec

=============================================================================
