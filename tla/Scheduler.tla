------------------------------ MODULE Scheduler ------------------------------
(***************************************************************************)
(* The continuous-batching scheduler: glm-scheduler/src/lib.rs.            *)
(*                                                                         *)
(* One batch is in flight at a time.  A cancellation is only recorded when *)
(* it arrives; it takes effect at the next batch boundary.  A completion   *)
(* is planned row by row and then applied to all rows at once, so an error *)
(* leaves the scheduler alone: it is a stuttering step here.               *)
(*                                                                         *)
(* The operations are operators on a scheduler value s: the serving        *)
(* coordinator completes batches on a clone.                               *)
(***************************************************************************)
EXTENDS Integers, Sequences, FiniteSets

CONSTANTS
    RequestIds,
    Specs,                    \* RequestSpec values, without the id
    Tenants,
    weight,                   \* TenantConfig
    maximum_active_requests,
    maximum_batch_sequences,  \* SchedulerConfig
    maximum_prefill_tokens,
    maximum_decode_burst,
    Graphs,                   \* GraphProfile entries
    CACHE_PAGE,               \* positions of a cached page; 64 in the code
    NONE

\* What Scheduler::new and GraphProfile::verify check.
ASSUME SchedulerConfigAssumption ==
    /\ RequestIds \subseteq Nat \ {0}
    /\ weight \in [Tenants -> Nat \ {0}]
    /\ maximum_active_requests \in [Tenants -> Nat \ {0}]
    /\ Tenants \subseteq Nat \ {0}
    /\ maximum_batch_sequences \in Nat \ {0}
    /\ maximum_prefill_tokens \in Nat \ {0}
    /\ maximum_decode_burst \in Nat \ {0}
    /\ CACHE_PAGE \in Nat \ {0}

ASSUME SpecsAssumption ==
    \A spec \in Specs :
        /\ spec.tenant \in Tenants
        /\ spec.prompt_tokens \in Nat \ {0}
        /\ spec.maximum_new_tokens \in Nat \ {0}
        /\ spec.mtp_depth \in 0..6

ASSUME GraphsAssumption ==
    \A graph \in Graphs :
        /\ graph.mode \in {"Prefill", "Decode", "Verify"}
        /\ graph.mtp_depth \in Nat
        /\ graph.mtp_depth # 0 <=> graph.mode = "Verify"
        /\ graph.sequences \in Nat \ {0}
        /\ graph.query_rows \in Nat \ {0}
        /\ graph.prompt_tokens \in Nat
        /\ graph.prompt_tokens # 0 <=> graph.mode = "Prefill"
        /\ graph.order \in Nat

ASSUME NoneIsNoBatch == NONE \notin Graphs

VARIABLE scheduler

-----------------------------------------------------------------------------
(* Requests.                                                               *)

Terminal == {"Finished", "Cancelled", "Failed"}

Lesser(a, b) == IF a <= b THEN a ELSE b

In(s, state) == {id \in DOMAIN s.requests : s.requests[id].state = state}

ActiveOf(s, tenant) ==
    {id \in DOMAIN s.requests : /\ s.requests[id].spec.tenant = tenant
                                /\ s.requests[id].state \notin Terminal}

PromptLeft(s, id) == s.requests[id].spec.prompt_tokens - s.requests[id].prompt_done

OutputLeft(s, id) ==
    s.requests[id].spec.maximum_new_tokens - s.requests[id].generated

\* Fair order: least service per weight first, then tenant, then request id.
Before(s, left, right) ==
    LET lt == s.requests[left].spec.tenant
        rt == s.requests[right].spec.tenant
        ls == s.service_units[lt] * weight[rt]
        rs == s.service_units[rt] * weight[lt]
    IN  \/ ls < rs
        \/ ls = rs /\ lt < rt
        \/ ls = rs /\ lt = rt /\ left < right

\* The one sequence that lists ids in fair order.
ordered_requests(s, ids) ==
    {q \in [1..Cardinality(ids) -> ids] :
        \A i, j \in 1..Cardinality(ids) : i < j => Before(s, q[i], q[j])}

\* Mutant: a draft may reach past the output limit.
effective_decode_depth_unbounded(s, id) ==
    LET depths == {0} \cup {graph.mtp_depth : graph \in
                    {g \in Graphs : /\ g.mode = "Verify"
                                    /\ g.mtp_depth <= s.requests[id].spec.mtp_depth
                                    /\ g.query_rows > g.mtp_depth}}
    IN  CHOOSE depth \in depths : \A other \in depths : other <= depth

\* The deepest captured verify graph that neither the request nor what is left
\* of its output forbids; 0 is a plain decode.
effective_decode_depth(s, id) ==
    LET limit == Lesser(s.requests[id].spec.mtp_depth, OutputLeft(s, id) - 1)
        depths == {0} \cup {graph.mtp_depth : graph \in
                    {g \in Graphs : /\ g.mode = "Verify"
                                    /\ g.mtp_depth <= limit
                                    /\ g.query_rows > g.mtp_depth}}
    IN  CHOOSE depth \in depths : \A other \in depths : other <= depth

has_graph_for_request(spec) ==
    /\ \E g \in Graphs : g.mode = "Prefill"
    /\ \E g \in Graphs : g.mode = "Decode"
    /\ spec.mtp_depth # 0 =>
         \E g \in Graphs : /\ g.mode = "Verify"
                           /\ g.mtp_depth = spec.mtp_depth
                           /\ g.query_rows > spec.mtp_depth

-----------------------------------------------------------------------------
(* Batches.  A row is a request and the prompt tokens it is given.         *)

Mode(depth) == IF depth = 0 THEN "Decode" ELSE "Verify"

QueryRows(mode, depth, rows, tokens) ==
    IF mode = "Prefill" THEN tokens ELSE Len(rows) * (depth + 1)

Fits(graph, mode, depth, active, query_rows) ==
    /\ graph.mode = mode
    /\ graph.mtp_depth = depth
    /\ graph.sequences >= active
    /\ graph.query_rows >= query_rows
    /\ mode = "Prefill" => graph.prompt_tokens >= query_rows

\* order stands for the key (sequence bucket, verifier bucket, rows, graph id).
best_graph(mode, depth, active, query_rows) ==
    {g \in Graphs : /\ Fits(g, mode, depth, active, query_rows)
                    /\ \A other \in Graphs :
                         Fits(other, mode, depth, active, query_rows) =>
                           g.order <= other.order}

\* Empty when no captured graph fits: UncapturedShape.
finalize_batch(s, mode, depth, sampling, rows, tokens) ==
    LET query_rows == QueryRows(mode, depth, rows, tokens)
    IN  {[step_id |-> s.next_step_id, mode |-> mode, depth |-> depth, rows |-> rows,
          query_rows |-> query_rows, sampling |-> sampling, graph |-> graph] :
            graph \in best_graph(mode, depth, Len(rows), query_rows)}

\* The rows one prefill graph would take: the first waiting requests in order,
\* each as much of its prompt as the graph has tokens left; left[i] is what is
\* left for row i.
PrefillRows(s, q, graph) ==
    LET available == Lesser(Lesser(maximum_prefill_tokens, graph.prompt_tokens),
                            graph.query_rows)
        count == Lesser(Lesser(maximum_batch_sequences, graph.sequences), Len(q))
        Taken(left, i) == Lesser(PromptLeft(s, q[i]), left[i])
        lefts == {left \in [1..(count + 1) -> 0..available] :
                    /\ left[1] = available
                    /\ \A i \in 1..count : left[i + 1] = left[i] - Taken(left, i)}
    IN  UNION {{[rows |-> [i \in 1..n |-> [request_id |-> q[i],
                                           prompt_tokens |-> Taken(left, i)]],
                 tokens |-> available - left[n + 1]] :
                   n \in {n \in 1..count : /\ left[n] # 0
                                           /\ n = count \/ left[n + 1] = 0}} :
               left \in lefts}

build_prefill_batch(s) ==
    UNION {LET candidates == UNION {PrefillRows(s, q, g) :
                                      g \in {g \in Graphs : g.mode = "Prefill"}}
               best == {c \in candidates : \A other \in candidates :
                          \/ other.tokens < c.tokens
                          \/ /\ other.tokens = c.tokens
                             /\ Len(other.rows) <= Len(c.rows)}
           IN  UNION {finalize_batch(s, "Prefill", 0, "Greedy", c.rows, c.tokens) : c \in best} :
             q \in ordered_requests(s, In(s, "WaitingPrefill"))}

\* The class of the request that is first in order decides: the batch takes
\* the requests of its depth and sampling, dropping the last until a graph fits.
build_decode_batch(s) ==
    UNION {LET first == s.requests[q[1]]
               depth == effective_decode_depth(s, q[1])
               class == SelectSeq(q, LAMBDA id :
                          /\ effective_decode_depth(s, id) = depth
                          /\ s.requests[id].spec.sampling = first.spec.sampling)
               rows(n) == [i \in 1..n |->
                             [request_id |-> class[i], prompt_tokens |-> 0]]
               batches(n) == finalize_batch(s, Mode(depth), depth, first.spec.sampling,
                                            rows(n), 0)
               count == Lesser(maximum_batch_sequences, Len(class))
           IN  UNION {batches(n) : n \in {n \in 1..count :
                        \A m \in (n + 1)..count : batches(m) = {}}} :
             q \in ordered_requests(s, In(s, "Decoding"))}

-----------------------------------------------------------------------------
(* The operations.                                                         *)

new == [requests |-> [x \in {} |-> x], cancellations |-> {}, inflight |-> NONE,
        service_units |-> [t \in Tenants |-> 0], decode_burst |-> 0,
        next_step_id |-> 1]

CanAdmit(s, id, spec, cached) ==
    /\ id \notin DOMAIN s.requests
    /\ cached <= spec.prompt_tokens
    /\ cached = spec.prompt_tokens \/ cached % CACHE_PAGE = 0
    /\ Cardinality(ActiveOf(s, spec.tenant)) < maximum_active_requests[spec.tenant]
    /\ has_graph_for_request(spec)

admit_with_prefix(s, id, spec, cached) ==
    [s EXCEPT !.requests = [r \in DOMAIN s.requests \cup {id} |->
        IF r = id
        THEN [spec |-> spec, prompt_done |-> cached, generated |-> 0,
              state |-> IF cached = spec.prompt_tokens
                        THEN "Decoding" ELSE "WaitingPrefill"]
        ELSE s.requests[r]]]

\* A request that has ended is left alone.
cancel(s, id) ==
    IF s.requests[id].state \in Terminal THEN s
    ELSE [s EXCEPT !.cancellations = @ \cup {id}]

apply_cancellations(s) ==
    [s EXCEPT
      !.cancellations = {},
      !.requests = [r \in DOMAIN s.requests |->
        IF r \in s.cancellations /\ s.requests[r].state \notin {"Finished", "Failed"}
        THEN [s.requests[r] EXCEPT !.state = "Cancelled"]
        ELSE s.requests[r]]]

Runnable(s) == In(s, "WaitingPrefill") \cup In(s, "Decoding")

\* Mutant: a prefill waits for a full burst even when nothing decodes.
choose_prefill_after_burst(s) ==
    In(s, "WaitingPrefill") # {} /\ s.decode_burst >= maximum_decode_burst

\* Mutant: one decode batch too many.
choose_prefill_late(s) ==
    /\ In(s, "WaitingPrefill") # {}
    /\ \/ In(s, "Decoding") = {}
       \/ s.decode_burst > maximum_decode_burst

choose_prefill(s) ==
    /\ In(s, "WaitingPrefill") # {}
    /\ \/ In(s, "Decoding") = {}
       \/ s.decode_burst >= maximum_decode_burst

\* The batch that follows the boundary of s.
Batches(s) ==
    LET b == apply_cancellations(s)
    IN  IF Runnable(b) = {} THEN {}
        ELSE IF choose_prefill(b) THEN build_prefill_batch(b)
        ELSE build_decode_batch(b)

next_batch(s, batch) ==
    [apply_cancellations(s) EXCEPT !.inflight = batch, !.next_step_id = @ + 1]

RowIds(batch) == {batch.rows[i].request_id : i \in DOMAIN batch.rows}

RowOf(batch, id) == CHOOSE i \in DOMAIN batch.rows : batch.rows[i].request_id = id

\* What a successful step may report for its rows: completions maps a request
\* to the number of tokens it commits and whether it ended.
CanComplete(s, completions) ==
    LET batch == s.inflight
    IN  \A id \in RowIds(batch) :
          IF batch.mode = "Prefill"
          THEN /\ s.requests[id].state = "WaitingPrefill"
               /\ batch.rows[RowOf(batch, id)].prompt_tokens \in 1..PromptLeft(s, id)
          ELSE /\ s.requests[id].state = "Decoding"
               /\ completions[id].committed_tokens \in
                    1..Lesser(batch.depth + 1, OutputLeft(s, id))

Completed(s, completions, id) ==
    LET request == s.requests[id]
        batch == s.inflight
        prompt_done == request.prompt_done + batch.rows[RowOf(batch, id)].prompt_tokens
        generated == request.generated + completions[id].committed_tokens
    IN  IF batch.mode = "Prefill"
        THEN [request EXCEPT
               !.prompt_done = prompt_done,
               !.state = IF prompt_done = request.spec.prompt_tokens
                         THEN "Decoding" ELSE "WaitingPrefill"]
        ELSE [request EXCEPT
               !.generated = generated,
               !.state = IF \/ completions[id].terminal
                            \/ generated = request.spec.maximum_new_tokens
                         THEN "Finished" ELSE "Decoding"]

Served(s, completions, id) ==
    IF s.inflight.mode = "Prefill"
    THEN s.inflight.rows[RowOf(s.inflight, id)].prompt_tokens
    ELSE completions[id].committed_tokens

ServedTo(s, completions, tenant) ==
    LET batch == s.inflight
        sum[i \in 0..Len(batch.rows)] ==
          IF i = 0 THEN 0
          ELSE sum[i - 1] + IF s.requests[batch.rows[i].request_id].spec.tenant = tenant
                            THEN Served(s, completions, batch.rows[i].request_id)
                            ELSE 0
    IN  sum[Len(batch.rows)]

BurstAfter(s) == IF s.inflight.mode = "Prefill" THEN 0 ELSE s.decode_burst + 1

complete_batch(s, completions) ==
    [s EXCEPT
      !.inflight = NONE,
      !.decode_burst = BurstAfter(s),
      !.service_units =
        [t \in Tenants |-> s.service_units[t] + ServedTo(s, completions, t)],
      !.requests = [r \in DOMAIN s.requests |->
        IF r \in RowIds(s.inflight) THEN Completed(s, completions, r)
                                    ELSE s.requests[r]]]

fail_batch(s) ==
    [s EXCEPT
      !.inflight = NONE,
      !.decode_burst = BurstAfter(s),
      !.requests = [r \in DOMAIN s.requests |->
        IF r \in RowIds(s.inflight) THEN [s.requests[r] EXCEPT !.state = "Failed"]
                                    ELSE s.requests[r]]]

-----------------------------------------------------------------------------
(* The specification.                                                      *)

Init == scheduler = new

AdmitWithPrefix(id, spec) ==
    \E cached \in 0..spec.prompt_tokens :
        /\ CanAdmit(scheduler, id, spec, cached)
        /\ scheduler' = admit_with_prefix(scheduler, id, spec, cached)

Cancel(id) ==
    /\ id \in DOMAIN scheduler.requests
    /\ scheduler' = cancel(scheduler, id)

ApplyCancellationsAtBoundary ==
    /\ scheduler.inflight = NONE
    /\ scheduler' = apply_cancellations(scheduler)

\* next_batch with nothing to run only applies the cancellations.
NextBatch ==
    /\ scheduler.inflight = NONE
    /\ \/ \E batch \in Batches(scheduler) : scheduler' = next_batch(scheduler, batch)
       \/ /\ Runnable(apply_cancellations(scheduler)) = {}
          /\ scheduler' = apply_cancellations(scheduler)

Completions(s) ==
    [RowIds(s.inflight) -> [committed_tokens: 1..(s.inflight.depth + 1),
                            terminal: BOOLEAN]]

CompleteBatch ==
    /\ scheduler.inflight # NONE
    /\ \E completions \in Completions(scheduler) :
         /\ CanComplete(scheduler, completions)
         /\ scheduler' = complete_batch(scheduler, completions)

FailBatch ==
    /\ scheduler.inflight # NONE
    /\ scheduler' = fail_batch(scheduler)

Next ==
    \/ \E id \in RequestIds :
         \/ \E spec \in Specs : AdmitWithPrefix(id, spec)
         \/ Cancel(id)
    \/ ApplyCancellationsAtBoundary
    \/ NextBatch
    \/ CompleteBatch
    \/ FailBatch

\* The serving loop asks for the next batch again and again, and every step it
\* submits comes back, with a result or an error.
Fairness == WF_scheduler(NextBatch) /\ WF_scheduler(CompleteBatch \/ FailBatch)

Spec == Init /\ [][Next]_scheduler

-----------------------------------------------------------------------------
(* Properties.                                                             *)

\* A batch in flight fits the graph it names and the requests it serves: rows
\* are distinct requests in the state the step is for, and whatever the step
\* may commit, all drafts included, is still owed to the request.
BatchFitsRequests ==
    scheduler.inflight # NONE =>
        LET batch == scheduler.inflight
            ids == RowIds(batch)
        IN  /\ Len(batch.rows) \in 1..maximum_batch_sequences
            /\ Cardinality(ids) = Len(batch.rows)
            /\ batch.graph.mode = batch.mode
            /\ batch.graph.sequences >= Len(batch.rows)
            /\ batch.mode # "Prefill" =>
                 batch.graph.query_rows >= Len(batch.rows) * (batch.depth + 1)
            /\ CanComplete(scheduler, [id \in ids |->
                 [committed_tokens |-> batch.depth + 1, terminal |-> FALSE]])

\* Every admitted request ends: finished, cancelled or failed.
AdmittedRequestsEnd ==
    \A id \in RequestIds :
        id \in DOMAIN scheduler.requests ~>
          (id \in DOMAIN scheduler.requests /\ scheduler.requests[id].state \in Terminal)
=============================================================================
