--------------------------- MODULE MCWorkerPool ---------------------------
(***************************************************************************)
(* The pool of rank threads, and the two ways it is started.  A behaviour  *)
(* is one of these, and the variables of the others stay as they are:      *)
(*                                                                         *)
(*   "serve"    three ranks and two callers, deltas and steps, up to two   *)
(*              outstanding;                                               *)
(*   "weights"  the same pool loads and sheds weights, with the faults of  *)
(*              these calls;                                               *)
(*   "startup"  three ranks go through the startup stages, where one or    *)
(*              all of them deviate from a stage on before, at or after    *)
(*              the load of the weights;                                   *)
(*   "native"   two rank files, each of which may be replaced twice while  *)
(*              the command opens them, and budgets, inputs, files and     *)
(*              configurations with one thing wrong.                       *)
(*                                                                         *)
(* The ranks and the callers of the pool are interchangeable: no action    *)
(* compares them with anything but equality.                               *)
(***************************************************************************)
EXTENDS WorkerPool, TLC

VARIABLES
    duty,
    coordinator, run, workers, responses, deviation,    \* of Startup
    request, paths, replaced, process                   \* of NativeStartup

startupVars == <<coordinator, run, workers, responses, deviation>>
nativeVars == <<request, paths, replaced, process>>

Symmetric == Permutations(Ranks) \cup Permutations(Callers)

Weights == INSTANCE WorkerPool WITH
  Kinds <- {"DeviceIdentities", "LoadWeights", "ShutdownWeights"},
  Calls <- 3,
  Faults <- {"memory", "load", "acknowledge", "finalize", "release", "panic",
             "timeout", "identity"}

-----------------------------------------------------------------------------
Deviations ==
    [ranks : {{0}, {0, 1, 2}}, kind : {"reject", "digests", "adopted", "blank"},
     stage : {"HostValidated", "ModulesReady", "WeightsLoaded", "KvReady"}]
      \cup {[ranks |-> {}, kind |-> "reject", stage |-> "Healthy"]}

Starting == INSTANCE Startup WITH Ranks <- 0..2, ZERO <- "zero"

-----------------------------------------------------------------------------
(* The payload of a rank is 5 bytes; aligned in its arenas it takes 6.     *)

Pinned(id, metadata, primary, auxiliary) ==
    [tensor_id |-> id, role_id |-> 1, codec_id |-> 1, descriptor_flags |-> 0,
     metadata_bytes |-> metadata, primary_bytes |-> primary,
     auxiliary_bytes |-> auxiliary, alignment |-> 2]
Contract == <<Pinned(0, 0, 1, 0), Pinned(1, 1, 2, 1)>>

File(r, conversion) ==
    [rank |-> r, identity |-> conversion, file_uuid |-> <<conversion, r>>,
     profile |-> "CapacityExl3", payload_bytes |-> 5, descriptors |-> Contract, budget |-> 1,
     operations |-> 1, policy |-> "pinned", readable |-> TRUE]
Files == [r \in 0..1 |-> File(r, "one")]
SecondFile(field, value) == [Files EXCEPT ![1] = [@ EXCEPT ![field] = value]]
Replacements ==
    [r \in 0..1 |-> {File(r, "one"), File(r, "two"), [File(r, "one") EXCEPT !.readable = FALSE],
                     [File(r, "three") EXCEPT !.budget = 2]}]

Arena == [committed |-> 8, slack |-> 8, tentative |-> 4]
NoArena == [committed |-> 0, slack |-> 0, tentative |-> 0]

BudgetRank(r, metadata) ==
    [rank |-> r, floor |-> 69 + metadata, observed |-> 80, measured |-> 69 + metadata + r,
     required |-> 69 + metadata, headroom |-> 11 - metadata,
     terms |-> [weights |-> 5, fixed |-> 3, model_metadata |-> metadata, escrow |-> 1,
                target |-> 40, draft |-> 20]]
BudgetWith(metadata) ==
    [identity |-> TRUE, target |-> Arena, draft |-> Arena,
     ranks |-> <<BudgetRank(1, metadata), BudgetRank(0, metadata)>>,
     status |-> "complete", conversion_allowed |-> TRUE, blockers |-> {}]
Budget == BudgetWith(2)
FirstRank(field, value) == [Budget EXCEPT !.ranks[1] = [@ EXCEPT ![field] = value]]
Budgets ==
    {BudgetWith(metadata) : metadata \in 0..2}
      \cup {FirstRank("rank", 0), FirstRank("measured", 70), FirstRank("measured", NONE),
            FirstRank("required", 70), FirstRank("floor", 72), [Budget EXCEPT !.status = "done"],
            [Budget EXCEPT !.identity = FALSE], [Budget EXCEPT !.target.slack = 4],
            [Budget EXCEPT !.blockers = {"graphs"}],
            [Budget EXCEPT !.status = "pending", !.conversion_allowed = FALSE,
                           !.blockers = {"graphs"}, !.ranks = [i \in 1..2 |->
                              [BudgetRank(i - 1, 2) EXCEPT !.measured = NONE]]]}

Mtp(r) ==
    [rank |-> r, profile |-> "CapacityExl3", mtp_enabled |-> TRUE, measured |-> 90,
     target |-> Arena, draft |-> Arena, weights |-> 5, fixed |-> 3, model_metadata |-> 2,
     escrow |-> 1]
Mtp0(r) == [Mtp(r) EXCEPT !.mtp_enabled = FALSE, !.target.tentative = 2, !.draft = NoArena]
Laboratory(r) == [Mtp(r) EXCEPT !.profile = "Nvfp4Laboratory", !.draft = NoArena]
Both(Of(_)) == <<Of(0), Of(1)>>
Inputs ==
    {Both(Mtp), Both(Mtp0), <<Mtp(0), Mtp0(1)>>, <<Mtp(0)>>, <<Mtp(0), Mtp(0)>>,
     Both(LAMBDA r : [Mtp(r) EXCEPT !.draft.committed = 16]),
     Both(LAMBDA r : [Mtp(r) EXCEPT !.target.committed = 16]),
     Both(LAMBDA r : [Mtp(r) EXCEPT !.target.slack = 0, !.draft.slack = 0]),
     Both(LAMBDA r : [Mtp(r) EXCEPT !.target.slack = 10]),
     Both(LAMBDA r : [Mtp(r) EXCEPT !.escrow = 0]),
     Both(LAMBDA r : [Mtp(r) EXCEPT !.profile = "HybridServe"]),
     Both(LAMBDA r : [Mtp(r) EXCEPT !.measured = 70 + r]),
     Both(LAMBDA r : [Laboratory(r) EXCEPT !.target = [NoArena EXCEPT !.committed = 5]]),
     Both(LAMBDA r : [Laboratory(r) EXCEPT !.target = NoArena]),
     Both(LAMBDA r : [Mtp0(r) EXCEPT !.target.committed = 80, !.measured = 300])}

Load ==
    [files |-> Files, budget |-> Budget, inputs |-> <<>>,
     devices |-> [r \in 0..1 |-> <<"device", r>>], free |-> [r \in 0..1 |-> 75],
     config |-> [maximum_outstanding |-> 1, provenance |-> 1, operations |-> 1, budget |-> 1,
                 attempt |-> 1, owners |-> [r \in 0..1 |-> r + 1], timeout |-> 1,
                 capability |-> "linked", staging_slot_bytes |-> 4,
                 staging_slots_per_rank |-> 2]]
Requested ==
    {[Load EXCEPT !.budget = budget] : budget \in Budgets}
      \cup {[Load EXCEPT !.budget = NONE, !.inputs = inputs] : inputs \in Inputs}
      \cup {[Load EXCEPT !.files = files] : files \in
              {SecondFile("identity", "two"), SecondFile("budget", 2), SecondFile("rank", 0),
               SecondFile("payload_bytes", 4), SecondFile("policy", "other"),
               SecondFile("file_uuid", <<"one", 0>>)}}
      \cup {[Load EXCEPT !.config.timeout = 0], [Load EXCEPT !.config.capability = "other"],
            [Load EXCEPT !.config.staging_slots_per_rank = 1],
            [Load EXCEPT !.devices[1] = <<"device", 0>>], [Load EXCEPT !.free[1] = 70]}

Native == INSTANCE NativeStartup WITH
  RANK_SET_SIZE <- 2, PAGE_TOKENS <- 4, MAXIMUM_ACTIVE_SEQUENCES <- 2, MAXIMUM_VERIFIER_ROWS <- 4,
  MIN_LOCAL_CAPACITY_TOKENS <- 8, MIN_ESCROW_BYTES <- 1, CAPACITY_EXL3_RANK_WEIGHT_BYTES <- 5,
  MAXIMUM_PHYSICAL_PAGES_PER_RANK <- 20, SLOT_BYTES <- [target |-> 2, draft |-> 1],
  MaxU64 <- 300, READER_CHUNK_BYTES <- 4, contract <- Contract, Requests <- Requested,
  Versions <- Replacements, MaxReplacements <- 2,
  Faults <- {"bind", "identity", "timeout", "load", "cleanup"}

-----------------------------------------------------------------------------
MCInit ==
    /\ duty \in {"serve", "weights", "startup", "native"}
    /\ IF duty = "weights" THEN Weights!Init ELSE Init
    /\ IF duty = "startup" THEN Starting!Init
       ELSE /\ coordinator = <<>> /\ run = <<>> /\ workers = <<>> /\ responses = <<>>
            /\ deviation = <<>>
    /\ IF duty = "native" THEN Native!Init
       ELSE request = <<>> /\ paths = <<>> /\ replaced = <<>> /\ process = <<>>

MCNext ==
    /\ UNCHANGED duty
    /\ \/ duty = "serve" /\ Next /\ UNCHANGED <<startupVars, nativeVars>>
       \/ duty = "weights" /\ Weights!Next /\ UNCHANGED <<startupVars, nativeVars>>
       \/ duty = "startup" /\ Starting!Next /\ UNCHANGED <<vars, nativeVars>>
       \/ duty = "native" /\ Native!Next /\ UNCHANGED <<vars, startupVars>>

MCSpec == MCInit /\ [][MCNext]_<<duty, vars, startupVars, nativeVars>>

\* What the pool reports is what all ranks did, and once they disagree it
\* admits nothing more; and the startup advances exactly as long as the ranks
\* tell the same story, and always comes to its end.
OperationsAreUnanimous ==
    PoolIsUnanimous /\ (duty = "startup" => Starting!StartupIsUnanimous)

\* Neither a load, a failed load nor a shutdown leaves weights on some ranks
\* only, whatever phase failed or timed out and whatever arrives late; and the
\* weights the command leaves on the ranks are of the files it planned with, in
\* a memory plan that holds them and the load it admits.
WeightsAreAtomic ==
    PoolWeightsAreAtomic /\ (duty = "native" => Native!NativeLoadIsSound)
=============================================================================
