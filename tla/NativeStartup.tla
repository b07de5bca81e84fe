--------------------------- MODULE NativeStartup ---------------------------
(***************************************************************************)
(* The load of a checkpoint onto the devices, from the command line to the *)
(* shutdown: gpu_checkpoint_load_smoke of glm-cli/src/main.rs and          *)
(* load_native_checkpoint of glm-engine/src/native_worker.rs.  The rank    *)
(* files are opened three times: by the command, by the startup for its    *)
(* preflight, and by every rank's own thread.  In between the paths may    *)
(* get other files.                                                        *)
(*                                                                         *)
(* A file is a value (its digests are the value), an open file keeps it.   *)
(* The transaction of the ranks is in WorkerPool; here it loads all of     *)
(* them or none.                                                           *)
(***************************************************************************)
EXTENDS MemoryPlan, Sequences

CONSTANTS
    READER_CHUNK_BYTES,
    contract,             \* the pinned tensors, as in LoadPlan
    Requests,             \* what the command may be given, see Init
    Versions,             \* the file a path may get instead of its own, by rank
    MaxReplacements,      \* of files while the command runs
    Faults                \* among "bind", "identity", "timeout", "load", "cleanup"

VARIABLES request, paths, replaced, process

nativeVars == <<request, paths, replaced, process>>

L == INSTANCE LoadPlan

-----------------------------------------------------------------------------
(* Checks that change nothing.                                             *)

validate_checkpoint_arena_budget(plan, memory) ==
    \A r \in PlanRanks :
        /\ plan.ranks[r].payload_bytes = memory.ranks[r].terms.weights
        /\ plan.layouts[r].weight + plan.layouts[r].metadata
             <= memory.ranks[r].terms.weights + memory.ranks[r].terms.model_metadata

\* NativeRankReader::validate_rank_set and what the command asks of every file.
ValidForCommand(files, config) ==
    /\ \A r \in PlanRanks : files[r].rank = r /\ files[r].identity = files[0].identity
    /\ \A r \in PlanRanks : files[r].profile = "CapacityExl3"
    /\ \A r \in PlanRanks : files[r].budget = config.budget /\ files[r].operations = config.operations

\* What the startup asks of the file of a rank when it opens it.
ValidForStartup(file, r, config) ==
    /\ file.rank = r
    /\ file.operations = config.operations /\ file.budget = config.budget
    /\ file.policy = "pinned"

rank_set_environment(config, devices) ==
    [profile |-> "CapacityExl3", verification_mode |-> "FullSha256",
     staging_slot_bytes |-> config.staging_slot_bytes,
     staging_slots_per_rank |-> config.staging_slots_per_rank, devices |-> devices]

build_rank_set_load_plan(files, config, devices) ==
    L!build_rank_set_load_plan_from_sources(files, rank_set_environment(config, devices), contract)

\* Synthetic, unique and never published.
preflight_identities == [r \in PlanRanks |-> <<"preflight", r>>]

ValidConfig(config) ==
    /\ config.maximum_outstanding > 0
    /\ config.provenance # 0 /\ config.operations # 0 /\ config.budget # 0
    /\ config.attempt # 0 /\ \A r \in PlanRanks : config.owners[r] # 0
    /\ config.timeout # 0

-----------------------------------------------------------------------------
(* A request: the rank files at the start, the budget, or the inputs of    *)
(* another caller's plan, the configuration, and the devices: their        *)
(* identities and free bytes.                                              *)

Closed == [r \in PlanRanks |-> NONE]

Init ==
    /\ request \in Requests
    /\ paths = request.files
    /\ replaced = 0
    /\ process = [at |-> IF request.budget = NONE THEN "memory" ELSE "command",
                  files |-> Closed, memory |-> NONE, required |-> NONE, pool |-> FALSE,
                  executors |-> Closed, devices |-> NONE, plan |-> NONE,
                  resident |-> Closed, sinks |-> Closed]

\* An error drops what the process holds; the pool's drop joins its ranks,
\* which release what they hold.
Failed == [process EXCEPT !.at = "failed", !.files = Closed, !.pool = FALSE,
                          !.executors = Closed, !.resident = Closed]

Go(ok, next) == process' = IF ok THEN next ELSE Failed

Replace ==
    /\ process.at \notin {"failed", "loaded", "shut down"}
    /\ replaced < MaxReplacements
    /\ replaced' = replaced + 1
    /\ \E r \in PlanRanks : \E version \in Versions[r] \ {paths[r]} :
         paths' = [paths EXCEPT ![r] = version]
    /\ UNCHANGED <<request, process>>

\* Opens the next file of a set that is opened one after the other; valid holds
\* the ranks whose file, as it is now, passes the checks.
OpenNext(phase, next, valid) ==
    /\ process.at = phase
    /\ \E r \in PlanRanks :
         /\ process.files[r] = NONE
         /\ \A q \in 0..r - 1 : process.files[q] # NONE
         /\ Go(paths[r].readable /\ r \in valid,
               [process EXCEPT !.files[r] = paths[r],
                               !.at = IF r = RANK_SET_SIZE - 1 THEN next ELSE @])
    /\ UNCHANGED <<request, paths, replaced>>

OpenCommand == OpenNext("command", "budget", PlanRanks)

\* The command's readers stay open and are not used again.
PlanFromBudget ==
    /\ process.at = "budget"
    /\ LET memory == system_memory_plan(request.budget)
       IN  Go(memory # NONE /\ ValidForCommand(process.files, request.config),
              [process EXCEPT !.at = "config", !.memory = memory, !.files = Closed])
    /\ UNCHANGED <<request, paths, replaced>>

PlanFromInputs ==
    /\ process.at = "memory"
    /\ LET memory == plan_system_memory(request.inputs)
       IN  Go(memory # NONE, [process EXCEPT !.at = "config", !.memory = memory])
    /\ UNCHANGED <<request, paths, replaced>>

Configure ==
    /\ process.at = "config"
    /\ Go(/\ ValidConfig(request.config)
          /\ validate(process.memory)
          /\ \A r \in PlanRanks : process.memory.ranks[r].profile = "CapacityExl3"
          /\ request.config.capability = "linked",
          [process EXCEPT !.at = "open",
                          !.required = [r \in PlanRanks |-> process.memory.ranks[r].required]])
    /\ UNCHANGED <<request, paths, replaced>>

OpenStartup ==
    OpenNext("open", "preflight",
             {r \in PlanRanks : ValidForStartup(paths[r], r, request.config)})

Preflight ==
    /\ process.at = "preflight"
    /\ LET plan == build_rank_set_load_plan(process.files, request.config, preflight_identities)
       IN  Go(plan # NONE /\ validate_checkpoint_arena_budget(plan, process.memory),
              [process EXCEPT !.at = "spawn"])
    /\ UNCHANGED <<request, paths, replaced>>

\* NativeCheckpointRankExecutor::open_with_evidence_sink, on the rank's thread.
\* The ranks open at the same time; a rank that fails fails the spawn.
OpenExecutor(r) ==
    /\ process.at = "spawn" /\ process.executors[r] = NONE
    /\ \E bound \in {TRUE} \cup {f # "bind" : f \in Faults} :
         LET executors == [process.executors EXCEPT ![r] = paths[r]]
         IN  Go(bound /\ paths[r].readable /\ paths[r].rank = r /\ process.required[r] # 0,
                [process EXCEPT !.executors = executors,
                                !.pool = \A q \in PlanRanks : executors[q] # NONE,
                                !.at = IF \A q \in PlanRanks : executors[q] # NONE
                                       THEN "identify" ELSE @])
    /\ UNCHANGED <<request, paths, replaced>>

IdentifyDevices ==
    /\ process.at = "identify"
    /\ \E answered \in {TRUE} \cup {f # "identity" : f \in Faults} :
         Go(answered, [process EXCEPT !.at = "plan", !.devices = request.devices])
    /\ UNCHANGED <<request, paths, replaced>>

FinalPlan ==
    /\ process.at = "plan"
    /\ LET plan == build_rank_set_load_plan(process.files, request.config, process.devices)
       IN  Go(plan # NONE, [process EXCEPT !.at = "load", !.plan = plan])
    /\ UNCHANGED <<request, paths, replaced>>

\* prepare_weights of a rank: free memory, then its file is the plan's.
Prepares(r) ==
    /\ request.free[r] >= process.required[r]
    /\ process.executors[r] = process.files[r]

LoadWeights ==
    /\ process.at = "load"
    /\ \E done \in {TRUE} \cup {f \notin {"load", "timeout"} : f \in Faults} :
         Go(done /\ \A r \in PlanRanks : Prepares(r),
            [process EXCEPT !.at = "evidence", !.resident = process.executors,
               !.sinks = [r \in PlanRanks |->
                            [rank |-> r, plan |-> process.plan, owner |-> request.config.owners[r]]]])
    /\ UNCHANGED <<request, paths, replaced>>

CheckEvidence ==
    /\ process.at = "evidence"
    /\ Go(\A r \in PlanRanks :
            /\ process.sinks[r].rank = r /\ process.sinks[r].plan = process.plan
            /\ process.sinks[r].owner = request.config.owners[r],
          [process EXCEPT !.at = "loaded"])
    /\ UNCHANGED <<request, paths, replaced>>

\* LoadedNativeCheckpoint::shutdown: the pool is dropped whatever the ranks
\* acknowledge, and the command reports success only if all of them do.
Shutdown ==
    /\ process.at = "loaded"
    /\ \E cleaned \in {TRUE} \cup {f # "cleanup" : f \in Faults} :
         process' = [Failed EXCEPT !.at = IF cleaned THEN "shut down" ELSE "failed"]
    /\ UNCHANGED <<request, paths, replaced>>

Next ==
    \/ Replace
    \/ OpenCommand \/ PlanFromBudget \/ PlanFromInputs \/ Configure
    \/ OpenStartup \/ Preflight \/ \E r \in PlanRanks : OpenExecutor(r)
    \/ IdentifyDevices \/ FinalPlan \/ LoadWeights \/ CheckEvidence \/ Shutdown

Spec == Init /\ [][Next]_nativeVars

-----------------------------------------------------------------------------
(* Properties.                                                             *)

\* Whatever happens to the paths while the files are opened one by one and a
\* second time by the ranks, the weights that are resident on the ranks are of
\* one conversion, bound to the budget and the operations of the request, on
\* the devices the ranks themselves named; and no rank holds more than it has.
ResidentSetIsThePlanned ==
    \A r \in PlanRanks : process.resident[r] # NONE =>
        /\ process.pool
        /\ process.resident[r].rank = r
        /\ process.resident[r].identity = process.resident[0].identity
        /\ process.resident[r].budget = request.config.budget
        /\ process.resident[r].operations = request.config.operations
        /\ process.plan.ranks[r].device = request.devices[r]
        /\ process.plan.ranks[r].file_uuid = process.resident[r].file_uuid
        /\ LET memory == process.memory.ranks[r]
               arenas == process.plan.layouts[r].weight + process.plan.layouts[r].metadata
           IN  /\ memory.terms.target + memory.terms.draft + memory.terms.escrow
                    + memory.terms.fixed + arenas <= memory.measured
               /\ memory.required <= request.free[r]

\* Any error after the ranks have been started takes all of them down: a pool
\* without a loaded checkpoint, or weights without a pool, outlive no call.
NothingOutlivesAFailure ==
    process.at \in {"failed", "shut down"} =>
        ~process.pool /\ process.resident = Closed /\ process.executors = Closed

\* The plan a process goes on with holds the load it admits.
PlannedArenaHolds ==
    process.at = "config" /\ is_serving(process.memory.ranks[0].profile) =>
        ArenaHoldsLoad(process.memory)

NativeLoadIsSound == ResidentSetIsThePlanned /\ NothingOutlivesAFailure /\ PlannedArenaHolds
=============================================================================
