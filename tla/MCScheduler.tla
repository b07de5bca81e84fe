----------------------------- MODULE MCScheduler -----------------------------
(***************************************************************************)
(* A small instance of the scheduler: two tenants of unequal weight, two   *)
(* requests, a prefill graph smaller than a prompt, decode and verify      *)
(* graphs, and one verify graph too narrow for a single request.  The      *)
(* verify graph of depth 2 is one that a profile may list although the     *)
(* steps of two rows do not fit its bucket.                                *)
(***************************************************************************)
EXTENDS Scheduler

CONSTANTS routes, MAX_ACTIVE_SEQUENCES, MAX_VERIFIER_ROWS, MAX_MTP_DEPTH,
          MAXIMUM_CONTEXT_TOKENS, MAXIMUM_PAYLOAD_BYTES

E == INSTANCE StepPlan

\* Decode batches chosen in a row while a request waited for its prefill.
VARIABLE bypassed

MCWeight == [t \in Tenants |-> t]

\* Limits of the small instance.
MCActive == [t \in Tenants |-> IF t = 1 THEN 2 ELSE 1]

Spec1(tenant, prompt, new_tokens, depth, sampling) ==
    [tenant |-> tenant, prompt_tokens |-> prompt, maximum_new_tokens |-> new_tokens,
     mtp_depth |-> depth, sampling |-> sampling]

MCSpecs == {Spec1(1, 3, 3, 2, "Greedy"), Spec1(2, 1, 2, 0, "TopK")}

MCRoutes ==
    [TpReduce              |-> [route_id |-> 1, bytes_per_row |-> 4],
     DcpPackedCkv          |-> [route_id |-> 2, bytes_per_row |-> 3],
     DcpQueryGather        |-> [route_id |-> 3, bytes_per_row |-> 2],
     DcpCandidateExchange  |-> [route_id |-> 4, bytes_per_row |-> 1],
     DcpPartialStateReturn |-> [route_id |-> 5, bytes_per_row |-> 2],
     LogitsArgmax          |-> [route_id |-> 6, bytes_per_row |-> 1],
     LogitsTopK            |-> [route_id |-> 7, bytes_per_row |-> 3],
     LogitsMass            |-> [route_id |-> 8, bytes_per_row |-> 1]]

Graph(id, mode, depth, sequences, query_rows, prompt_tokens, bucket, transport, sampling) ==
    [graph_id |-> id, order |-> id, mode |-> mode, mtp_depth |-> depth,
     sequences |-> sequences, query_rows |-> query_rows, prompt_tokens |-> prompt_tokens,
     sequence_bucket |-> sequences, verifier_row_bucket |-> bucket,
     attention_transport |-> transport, tp_routes |-> {1}, dcp_routes |-> {2, 3, 4, 5},
     sampling_routes |-> sampling]

MCGraphs ==
    {Graph(1, "Prefill", 0, 1, 2, 2, 0, "PrefillCkv", {}),
     Graph(2, "Prefill", 0, 2, 3, 2, 0, "PrefillQuery", {}),
     Graph(3, "Decode", 0, 2, 2, 0, 2, "DecodeQueryLse", {6, 7, 8}),
     Graph(4, "Verify", 2, 2, 6, 0, 4, "DecodeQueryLse", {6, 7, 8}),
     Graph(5, "Verify", 1, 1, 1, 0, 1, "DecodeQueryLse", {6, 7})}

\* The profile is one that Scheduler::new accepts, and not all of it is sound.
ASSUME MCProfileAssumption ==
    /\ E!ValidCatalog
    /\ E!validate_entries(Graphs)
    /\ {graph.graph_id : graph \in {g \in Graphs : ~E!CapturedSoundly(g)}} = {4, 5}

Waits(s) == In(s, "WaitingPrefill") # {}

BypassedAfter ==
    IF scheduler.inflight = NONE /\ scheduler'.inflight # NONE
    THEN IF scheduler'.inflight.mode # "Prefill" /\ Waits(scheduler')
         THEN bypassed + 1 ELSE 0
    ELSE IF Waits(scheduler') THEN bypassed ELSE 0

MCInit == Init /\ bypassed = 0

MCNext == Next /\ bypassed' = BypassedAfter

MCSpec == MCInit /\ [][MCNext]_<<scheduler, bypassed>> /\ Fairness

\* A waiting prefill is passed over by at most maximum_decode_burst decode
\* batches, whatever completes, fails, is cancelled or admitted meanwhile.
PrefillIsBypassedBoundedly == bypassed <= maximum_decode_burst

Compiled == E!compile(1, scheduler.inflight, scheduler.inflight.graph, 1)

\* Whatever a row of the step commits, if it passes the checks of the output,
\* completes its request or leaves it decoding within its limit.
OutputsComplete(request) ==
    \A id \in RowIds(scheduler.inflight), row \in E!CommittedRows(request.mtp_depth) :
        /\ E!ValidOutputRow(request, row)
        /\ E!output_has_valid_termination(row)
        => LET completion == E!BatchCompletion(row)
               completed  == Completed(scheduler,
                               [one \in RowIds(scheduler.inflight) |-> completion], id)
           IN  /\ completion.committed_tokens \in
                    1..Lesser(scheduler.inflight.depth + 1, OutputLeft(scheduler, id))
               /\ row.token_ids[Len(row.token_ids)] = "eos" => completed.state = "Finished"

\* A batch in flight can be run.  It fits its requests; it compiles if its graph
\* was captured soundly; the plan it compiles to is admitted by the very entry
\* the scheduler chose, whose limits were checked for another purpose; and every
\* output that passes the checks on the plan is one its requests can take.
InflightBatchIsServable ==
    /\ BatchFitsRequests
    /\ scheduler.inflight # NONE =>
         LET batch == scheduler.inflight
         IN  /\ E!CapturedSoundly(batch.graph) => Compiled # NONE
             /\ Compiled # NONE =>
                  /\ E!admit(Graphs, Compiled.plan) = {batch.graph}
                  /\ batch.mode # "Prefill" => OutputsComplete(Compiled.plan.request)
=============================================================================
