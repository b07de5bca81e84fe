------------------------------ MODULE StepPlan ------------------------------
(***************************************************************************)
(* What a batch is turned into before the ranks run it, and what comes     *)
(* back: the graph profile (glm-engine/src/graph.rs), the step compiler    *)
(* (glm-scheduler/src/compile.rs), the plan and its collective schedule    *)
(* (glm-engine/src/step.rs), the step input (glm-engine/src/input.rs and   *)
(* build_step_input of glm-serving/src/lib.rs) and the step output         *)
(* (glm-engine/src/output.rs).                                             *)
(*                                                                         *)
(* All of it is pure.  NONE is the result of a call that returns an error, *)
(* a hash is the value it is taken of, a sorted list of routes is a set.   *)
(***************************************************************************)
EXTENDS Integers, Sequences, FiniteSets

CONSTANTS
    routes,                   \* RouteCatalog: kind -> [route_id, bytes_per_row]
    MAX_ACTIVE_SEQUENCES,     \* 64 in the code
    MAX_VERIFIER_ROWS,        \* 448
    MAX_MTP_DEPTH,            \* 6
    MAXIMUM_CONTEXT_TOKENS,
    MAXIMUM_PAYLOAD_BYTES,    \* u32::MAX
    NONE

Modes == {"Prefill", "Decode", "Verify"}

-----------------------------------------------------------------------------
(* Collective schedules and step plans.                                    *)

TP_RANK_MASK == 15

\* CollectiveSchedule::new.
ValidSchedule(schedule) ==
    \A i \in DOMAIN schedule :
        /\ schedule[i].ordinal = i - 1
        /\ schedule[i].route_id # 0
        /\ schedule[i].payload_bytes # 0
        /\ schedule[i].participant_mask \in 1..TP_RANK_MASK

is_sequence_bucket(value) == value \in {2^n : n \in 0..6}

CacheOnlyRequest(epoch, step_id) ==
    [epoch |-> epoch, step_id |-> step_id, mode |-> "CacheOnly",
     active_sequences |-> 0, sequence_bucket |-> 0, scheduled_prompt_tokens |-> 0,
     query_rows |-> 0, verifier_row_bucket |-> 0, mtp_depth |-> 0, graph_id |-> 0,
     tp_route_id |-> 0, dcp_route_id |-> 0, attention_transport |-> "None",
     sampling_route_id |-> 0, sequence_table_generation |-> 0]

ValidShape(request, schedule) ==
    /\ request.active_sequences \in 1..MAX_ACTIVE_SEQUENCES
    /\ is_sequence_bucket(request.sequence_bucket)
    /\ request.sequence_bucket >= request.active_sequences
    /\ request.query_rows \in 1..MAX_VERIFIER_ROWS
    /\ 0 \notin {request.graph_id, request.tp_route_id, request.dcp_route_id,
                 request.sequence_table_generation}
    /\ schedule # <<>>

\* Decode is Verify without drafts.
ValidMode(request) ==
    IF request.mode = "Prefill"
    THEN /\ request.scheduled_prompt_tokens = request.query_rows
         /\ request.verifier_row_bucket = 0
         /\ request.mtp_depth = 0
         /\ request.attention_transport \in {"PrefillCkv", "PrefillQuery"}
         /\ request.sampling_route_id = 0
    ELSE /\ request.scheduled_prompt_tokens = 0
         /\ (request.mtp_depth = 0) <=> (request.mode = "Decode")
         /\ request.query_rows = request.active_sequences * (request.mtp_depth + 1)
         /\ request.verifier_row_bucket \in request.query_rows..MAX_VERIFIER_ROWS
         /\ request.attention_transport = "DecodeQueryLse"
         /\ request.sampling_route_id # 0

\* Mixed steps are refused.
validate_request(request, schedule) ==
    /\ request.mtp_depth <= MAX_MTP_DEPTH
    /\ \/ /\ request = CacheOnlyRequest(request.epoch, request.step_id)
          /\ schedule = <<>>
       \/ /\ request.mode \in Modes
          /\ ValidShape(request, schedule)
          /\ ValidMode(request)

\* StepPlan::build; the plan keeps the hash of its schedule.
build(request, schedule) ==
    IF ValidSchedule(schedule) /\ validate_request(request, schedule)
    THEN [request |-> request, collective_schedule_hash |-> schedule] ELSE NONE

verify(plan, schedule) ==
    /\ ValidSchedule(schedule)
    /\ plan.collective_schedule_hash = schedule
    /\ validate_request(plan.request, schedule)

-----------------------------------------------------------------------------
(* The graph profile.                                                      *)

Key(entry) == <<entry.mode, entry.sequence_bucket, entry.verifier_row_bucket,
                entry.mtp_depth, entry.attention_transport>>

ValidEntry(entry) ==
    /\ 0 \notin {entry.graph_id, entry.query_rows} \cup entry.tp_routes
                 \cup entry.dcp_routes \cup entry.sampling_routes
    /\ entry.sequences \in 1..entry.sequence_bucket
    /\ entry.tp_routes # {} /\ entry.dcp_routes # {}
    /\ entry.mode \in Modes
    /\ IF entry.mode = "Prefill"
       THEN /\ entry.prompt_tokens # 0
            /\ entry.verifier_row_bucket = 0 /\ entry.mtp_depth = 0
            /\ entry.attention_transport \in {"PrefillCkv", "PrefillQuery"}
            /\ entry.sampling_routes = {}
       ELSE /\ entry.prompt_tokens = 0
            /\ entry.attention_transport = "DecodeQueryLse"
            /\ entry.sampling_routes # {}
            /\ (entry.mtp_depth = 0) <=> (entry.mode = "Decode")

validate_entries(entries) ==
    /\ entries # {}
    /\ \A entry \in entries : ValidEntry(entry)
    /\ \A left, right \in entries :
         left.graph_id = right.graph_id \/ Key(left) = Key(right) => left = right

\* The entries that admit a plan.
admit(entries, plan) ==
    LET request == plan.request
    IN  {entry \in entries :
           /\ entry.graph_id = request.graph_id
           /\ Key(entry) = <<request.mode, request.sequence_bucket,
                request.verifier_row_bucket, request.mtp_depth,
                request.attention_transport>>
           /\ request.active_sequences <= entry.sequences
           /\ request.scheduled_prompt_tokens <= entry.prompt_tokens
           /\ request.query_rows <= entry.query_rows
           /\ request.tp_route_id \in entry.tp_routes
           /\ request.dcp_route_id \in entry.dcp_routes
           /\ request.sampling_route_id \in {0} \cup entry.sampling_routes}

-----------------------------------------------------------------------------
(* The compiler.                                                           *)

\* RouteCatalog::validate.
ValidCatalog ==
    \A kind \in DOMAIN routes : 0 \notin {routes[kind].route_id, routes[kind].bytes_per_row}

\* The collectives of an attention transport, in the order they run; the first
\* one gives the plan its DCP route.
TransportKinds ==
    [PrefillCkv     |-> <<"DcpPackedCkv">>,
     PrefillQuery   |-> <<"DcpQueryGather", "DcpPartialStateReturn">>,
     DecodeQueryLse |-> <<"DcpQueryGather", "DcpCandidateExchange", "DcpPartialStateReturn">>]

SamplingCollective == [Greedy |-> "LogitsArgmax", TopK |-> "LogitsTopK", Mass |-> "LogitsMass"]

RouteOf(kind) == routes[kind].route_id

scaled(kind, rows) == routes[kind].bytes_per_row * rows

\* What push builds of the kinds.
Operations(kinds, rows) ==
    [i \in DOMAIN kinds |->
       [ordinal |-> i - 1, kind |-> kinds[i], route_id |-> RouteOf(kinds[i]),
        payload_bytes |-> scaled(kinds[i], rows), participant_mask |-> TP_RANK_MASK]]

compile(epoch, batch, entry, generation) ==
    LET transport == TransportKinds[entry.attention_transport]
        sampling  == IF batch.mode = "Prefill" THEN <<>>
                     ELSE <<SamplingCollective[batch.sampling]>>
        schedule  == Operations(transport \o <<"TpReduce">> \o sampling, batch.query_rows)
        plan      ==
          build([epoch |-> epoch, step_id |-> batch.step_id, mode |-> batch.mode,
                 active_sequences |-> Len(batch.rows),
                 sequence_bucket |-> entry.sequence_bucket,
                 scheduled_prompt_tokens |-> IF batch.mode = "Prefill"
                                             THEN batch.query_rows ELSE 0,
                 query_rows |-> batch.query_rows,
                 verifier_row_bucket |-> entry.verifier_row_bucket,
                 mtp_depth |-> batch.depth, graph_id |-> entry.graph_id,
                 tp_route_id |-> RouteOf("TpReduce"), dcp_route_id |-> RouteOf(transport[1]),
                 attention_transport |-> entry.attention_transport,
                 sampling_route_id |-> IF sampling = <<>> THEN 0 ELSE RouteOf(sampling[1]),
                 sequence_table_generation |-> generation], schedule)
    IN  IF /\ generation # 0 /\ batch.rows # <<>>
           /\ entry.mode = batch.mode /\ entry.mtp_depth = batch.depth
           /\ batch.mode = "Prefill" => batch.sampling = "Greedy"
           /\ \A i \in DOMAIN schedule : schedule[i].payload_bytes <= MAXIMUM_PAYLOAD_BYTES
           /\ RouteOf("TpReduce") \in entry.tp_routes
           /\ \A i \in DOMAIN transport : RouteOf(transport[i]) \in entry.dcp_routes
           /\ sampling # <<>> => RouteOf(sampling[1]) \in entry.sampling_routes
           /\ plan # NONE
        THEN [plan |-> plan, schedule |-> schedule] ELSE NONE

\* What a profile has to satisfy, beyond what it is checked for, so that every
\* batch the scheduler forms for an entry compiles: its buckets hold the rows
\* the entry admits, and it lists every route that its steps may take.
CapturedSoundly(entry) ==
    /\ is_sequence_bucket(entry.sequence_bucket)
    /\ entry.sequences <= MAX_ACTIVE_SEQUENCES
    /\ entry.query_rows <= MAX_VERIFIER_ROWS
    /\ entry.mtp_depth <= MAX_MTP_DEPTH
    /\ entry.mode # "Prefill" => entry.verifier_row_bucket \in entry.query_rows..MAX_VERIFIER_ROWS
    /\ RouteOf("TpReduce") \in entry.tp_routes
    /\ \A i \in DOMAIN TransportKinds[entry.attention_transport] :
         RouteOf(TransportKinds[entry.attention_transport][i]) \in entry.dcp_routes
    /\ entry.mode # "Prefill" =>
         {RouteOf(SamplingCollective[s]) : s \in DOMAIN SamplingCollective}
           \subseteq entry.sampling_routes
    /\ \A kind \in DOMAIN routes : scaled(kind, entry.query_rows) <= MAXIMUM_PAYLOAD_BYTES

-----------------------------------------------------------------------------
(* The step input.  Temperatures and top_p are in hundredths; a value that  *)
(* is no finite number, or is a negative zero, is -1.                      *)

greedy == [kind |-> "Greedy", temperature |-> 0, top_p |-> 100, top_k |-> 0,
           rng_counter_before |-> 0]

ValidSampling(sampling) ==
    /\ sampling.temperature # -1 /\ sampling.top_p # -1
    /\ \/ sampling = greedy
       \/ /\ sampling.kind = "TopK"
          /\ sampling.temperature > 0
          /\ sampling.top_p \in 1..100
          /\ sampling.top_k \in 1..256
       \/ /\ sampling.kind = "Mass"
          /\ sampling.temperature > 0
          /\ sampling.top_p = 100
          /\ sampling.top_k = 0

\* The prompt tokens of the rows before row i.
PayloadOffset(batch, i) ==
    LET offset[n \in 1..Len(batch.rows)] ==
          IF n = 1 THEN 0 ELSE offset[n - 1] + batch.rows[n - 1].prompt_tokens
    IN  offset[i]

\* The rows build_step_input makes of a batch and the progress of its requests.
StepRows(batch, requests, sampling) ==
    [i \in DOMAIN batch.rows |->
       LET id       == batch.rows[i].request_id
           progress == requests[id]
       IN  [request_id |-> id,
            context_tokens_before |-> progress.prompt_done + progress.generated,
            generated_tokens_before |-> progress.generated,
            maximum_new_tokens |-> progress.spec.maximum_new_tokens,
            prompt_payload_offset |-> PayloadOffset(batch, i),
            prompt_tokens_this_step |-> batch.rows[i].prompt_tokens,
            configured_mtp_depth |-> progress.spec.mtp_depth,
            effective_mtp_depth |-> batch.depth,
            sampling |-> sampling[id]]]

\* One logits collective on the plan's sampling route.
schedule_sampling_kind(plan, schedule) ==
    LET kinds  == {SamplingCollective[s] : s \in DOMAIN SamplingCollective}
        logits == {i \in DOMAIN schedule : schedule[i].kind \in kinds}
    IN  IF /\ Cardinality(logits) = 1
           /\ \A i \in logits : schedule[i].route_id = plan.request.sampling_route_id
        THEN {s \in DOMAIN SamplingCollective :
                \E i \in logits : schedule[i].kind = SamplingCollective[s]}
        ELSE {}

ValidRow(plan, row, update) ==
    LET mode      == plan.request.mode
        tentative == IF mode = "Prefill" THEN 0 ELSE plan.request.mtp_depth + 1
        remaining == row.maximum_new_tokens - row.generated_tokens_before
        prompted  == row.context_tokens_before + row.prompt_tokens_this_step
    IN  /\ ValidSampling(row.sampling)
        /\ row.request_id # 0 /\ remaining > 0
        /\ row.configured_mtp_depth <= MAX_MTP_DEPTH
        /\ row.effective_mtp_depth <= row.configured_mtp_depth
        /\ row.effective_mtp_depth = plan.request.mtp_depth
        /\ prompted + remaining <= MAXIMUM_CONTEXT_TOKENS
        /\ (row.prompt_tokens_this_step # 0) <=> (mode = "Prefill")
        /\ mode = "Prefill" => row.generated_tokens_before = 0
        /\ tentative <= remaining
        /\ update.mtp = (row.configured_mtp_depth # 0)
        /\ update.committed_tokens = prompted
        /\ update.tentative_tokens = tentative

\* StepInput::new: the rows, prompt_count prompt tokens and the delta of the
\* reservation fit the plan and each other.
ValidInput(plan, schedule, delta, rows, prompt_count) ==
    LET ids == {rows[i].request_id : i \in DOMAIN rows}
        end(i) == rows[i].prompt_payload_offset + rows[i].prompt_tokens_this_step
    IN  /\ verify(plan, schedule)
        /\ plan.request.mode \in Modes
        /\ Len(rows) = plan.request.active_sequences
        /\ Cardinality(ids) = Len(rows)
        /\ delta.removed = {} /\ DOMAIN delta.updates = ids
        /\ rows[1].prompt_payload_offset = 0 /\ end(Len(rows)) = prompt_count
        /\ \A i \in DOMAIN rows :
             /\ i > 1 => rows[i].prompt_payload_offset = end(i - 1)
             /\ ValidRow(plan, rows[i], delta.updates[rows[i].request_id])
        /\ prompt_count = plan.request.scheduled_prompt_tokens
        /\ IF plan.request.mode = "Prefill" THEN prompt_count = plan.request.query_rows
           ELSE schedule_sampling_kind(plan, schedule) =
                  {rows[i].sampling.kind : i \in DOMAIN rows}

-----------------------------------------------------------------------------
(* The step output.  A committed token is "text", "eos" or "padding", one  *)
(* of the rows past the vocabulary.                                        *)

Tokens == {"text", "eos", "padding"}

\* CommittedTokens::from_parts: accepted drafts, then a target token if any.
CommittedTokens(drafts, target) ==
    [accepted_draft_count |-> Len(drafts), target_token_present |-> target # <<>>,
     token_ids |-> drafts \o target]

\* What a rank can build of at most depth accepted drafts.
CommittedRows(depth) ==
    {CommittedTokens(drafts, target) :
       drafts \in UNION {[1..n -> Tokens] : n \in 0..depth},
       target \in {<<>>} \cup {<<token>> : token \in Tokens}}

\* StepOutput::validate, for one row.
ValidOutputRow(request, row) ==
    /\ row.token_ids # <<>>
    /\ row.accepted_draft_count <= request.mtp_depth
    /\ request.mode = "Decode" => row.target_token_present
    /\ \A i \in DOMAIN row.token_ids : row.token_ids[i] # "padding"

output_has_valid_termination(row) ==
    /\ \A i \in DOMAIN row.token_ids : row.token_ids[i] = "eos" => i = Len(row.token_ids)
    /\ row.target_token_present \/ row.token_ids[Len(row.token_ids)] = "eos"

\* The completion the coordinator makes of an output row.
BatchCompletion(row) ==
    [committed_tokens |-> Len(row.token_ids),
     terminal |-> row.token_ids[Len(row.token_ids)] = "eos"]

=============================================================================
