------------------------------ MODULE Serving ------------------------------
(***************************************************************************)
(* The serving coordinator: glm-serving/src/lib.rs.  It composes the       *)
(* scheduler, the page table and its deltas, and drives the rank workers.  *)
(*                                                                         *)
(* The coordinator is one object called by one thread, so a call is one    *)
(* step.  A call is an operator from the state w to the set of its         *)
(* outcomes [ok, w]: it ends in several ways because the workers and the   *)
(* prefix cache may fail.  The four rank mirrors take the same deltas and  *)
(* are one mirror here (WorkerPool shows that they agree); a failure of    *)
(* any rank closes the pool, and what the ranks then hold is unknown.      *)
(***************************************************************************)
EXTENDS Integers, Sequences, FiniteSets

CONSTANTS
    TP_RANKS, PAGE_TOKENS, MAXIMUM_CONTEXT_TOKENS, MAXIMUM_TENTATIVE,
    target_pages_per_rank, draft_pages_per_rank, Attachments,
    MAXIMUM_DELTA_SEQUENCES,
    RequestIds, Specs, Tenants, weight, maximum_active_requests,
    maximum_batch_sequences, maximum_prefill_tokens, maximum_decode_burst, Graphs,
    event_capacity, MAXIMUM_STEP_EVENTS, maximum_retained_prompt_bytes,
    epoch, routes, MAXIMUM_PAYLOAD_BYTES,
    NONE

\* What ServingCoordinator::new checks.
ASSUME ServingConfigAssumption == event_capacity >= MAXIMUM_STEP_EVENTS /\ epoch # 0

VARIABLE serving

P == INSTANCE PageTableDelta WITH table <- serving.active_pages, SequenceIds <- RequestIds,
                                  Generations <- {}
S == INSTANCE Scheduler WITH scheduler <- serving.scheduler, CACHE_PAGE <- PAGE_TOKENS
E == INSTANCE StepPlan WITH MAX_ACTIVE_SEQUENCES <- 64, MAX_VERIFIER_ROWS <- 448,
                            MAX_MTP_DEPTH <- 6

Ok(w)  == [ok |-> TRUE, w |-> w]
Err(w) == [ok |-> FALSE, w |-> w]

Then(outcomes, Op(_)) == UNION {IF o.ok THEN Op(o.w) ELSE {o} : o \in outcomes}

Without(f, ids) == [x \in DOMAIN f \ ids |-> f[x]]
With(f, id, v)  == [x \in DOMAIN f \cup {id} |-> IF x = id THEN v ELSE f[x]]

view(t) == P!normalized_snapshots(t)

Untold == [prompt |-> 0, tokens |-> 0, ended |-> <<>>]

new ==
    [scheduler |-> S!new, active_pages |-> P!new, sequence_table_generation |-> 1,
     mirror |-> [generation |-> 1, view |-> view(P!new)],   \* NONE when the pool is closed
     refused |-> FALSE,         \* was a delta, a plan or a step input refused
     queued |-> 0,              \* events not drained yet
     told |-> [id \in RequestIds |-> Untold],   \* what the events said of a request
     terminal_events |-> {},
     pins |-> [k \in {a.key : a \in Attachments} |-> 0],    \* of the prefix cache
     prefix_leases |-> <<>>, pending_admissions |-> <<>>, request_tokens |-> <<>>,
     retained_prompt_bytes |-> 0,
     drawn |-> 0,               \* the last id the backend has drawn
     fatal |-> FALSE]           \* a tick failed: the runtime calls no more

require_event_space(w, needed) == w.queued + needed <= event_capacity

\* prompt_bytes, in units of one token.
prompt_bytes(spec) == spec.prompt_tokens

----------------------------------------------------------------------------
(* The rank workers.                                                       *)

Closed(w) == [w EXCEPT !.mirror = NONE]

\* Every rank applies the delta from one table to another, or the pool closes.
apply_page_delta(w, before, after, generation, next) ==
    LET delta == P!between(view(before), view(after))
    IN  IF delta = NONE \/ w.mirror = NONE THEN {Err(w)}
        ELSE LET applied == P!apply(w.mirror.view, delta)
             IN  IF w.mirror.generation # generation \/ applied = NONE THEN {Err([Closed(w) EXCEPT !.refused = TRUE])}
                 ELSE {Ok([w EXCEPT !.mirror = [generation |-> next, view |-> applied]]),
                       Err(Closed(w))}

----------------------------------------------------------------------------
(* Releasing what requests hold.                                           *)

remove_sequences(t, ids) ==
    LET removed[gone \in SUBSET ids] ==
          IF gone = {} THEN t
          ELSE LET id == CHOOSE x \in gone : \A y \in gone : y <= x
               IN  P!remove_sequence(removed[gone \ {id}], id)
    IN  removed[ids]

\* Unpins one page per key of each lease in leases.
Unpinned(pins, leases) ==
    [k \in DOMAIN pins |->
       pins[k] - Cardinality({id \in DOMAIN leases : \E o \in DOMAIN leases[id] :
                                leases[id][o].key = k})]

BytesOf(specs) ==
    LET sum[ids \in SUBSET DOMAIN specs] ==
          IF ids = {} THEN 0
          ELSE LET id == CHOOSE x \in ids : TRUE
               IN  prompt_bytes(specs[id]) + sum[ids \ {id}]
    IN  sum[DOMAIN specs]

Restricted(f, ids) == [x \in DOMAIN f \cap ids |-> f[x]]

\* ended requests give up everything; filled ones only their prompt.
plan_request_releases(w, ended, filled, pages) ==
    [ended |-> ended, filled |-> filled, active_pages |-> remove_sequences(pages, ended),
     retained |-> w.retained_prompt_bytes
                    - BytesOf(Restricted(w.request_tokens, ended \cup filled)),
     pins |-> Unpinned(w.pins, Restricted(w.prefix_leases, ended)),
     generation |-> w.sequence_table_generation + IF ended = {} THEN 0 ELSE 1]

bind_reuse_quarantine(t, generation) ==
    IF P!QuarantineIsEmpty(t) \/ t.quarantine_generation = generation THEN t
    ELSE P!bind_reuse_quarantine(t, generation)

acknowledged(t) ==
    IF t.quarantine_generation = NONE THEN t ELSE P!acknowledge_reuse_quarantine(t)

\* Mutant: the slots the ranks have let go of stay in quarantine.
publish_unacknowledged(w, plan, rank_state) ==
    [w EXCEPT
      !.active_pages = plan.active_pages,
      !.sequence_table_generation = plan.generation,
      !.pins = plan.pins,
      !.prefix_leases = Without(@, plan.ended),
      !.request_tokens = Without(@, plan.ended \cup plan.filled),
      !.retained_prompt_bytes = plan.retained]

\* The tail of commit_request_releases, once the ranks have been told.
publish(w, plan, rank_state) ==
    [w EXCEPT
      !.active_pages = IF rank_state = "Acknowledged" THEN acknowledged(plan.active_pages)
                                                      ELSE plan.active_pages,
      !.sequence_table_generation = plan.generation,
      !.pins = plan.pins,
      !.prefix_leases = Without(@, plan.ended),
      !.request_tokens = Without(@, plan.ended \cup plan.filled),
      !.retained_prompt_bytes = plan.retained]

commit_request_releases(w, plan, rank_state) ==
    LET bound == [plan EXCEPT !.active_pages = bind_reuse_quarantine(@, plan.generation)]
    IN  IF plan.generation = w.sequence_table_generation \/ rank_state # "Pending"
        THEN {Ok(publish(w, bound, rank_state))}
        ELSE Then(apply_page_delta(w, w.active_pages, bound.active_pages,
                                   w.sequence_table_generation, plan.generation),
                  LAMBDA v : {Ok(publish(v, bound, "Acknowledged"))})

----------------------------------------------------------------------------
(* Events.                                                                 *)

\* news maps the requests that are told something to what they know then.
Tell(w, news) ==
    [w EXCEPT !.told = [id \in RequestIds |-> IF id \in DOMAIN news THEN news[id] ELSE @[id]]]

TellEnd(w, kind, ids) ==
    [Tell(w, [id \in ids |-> [w.told[id] EXCEPT !.ended = Append(@, kind)]])
       EXCEPT !.queued = @ + Cardinality(ids)]

----------------------------------------------------------------------------
(* Admission.                                                              *)

MatchedTokens(prefix) == Cardinality(DOMAIN prefix) * PAGE_TOKENS

\* Every change is made on clones and kept only if the ranks take the delta.
admit_active_sequence(w, id, spec, prefix) ==
    LET t       == w.active_pages
        mtp     == spec.mtp_depth # 0
        missing == P!MissingPages(t, prefix)
        drafts  == P!MissingDrafts(t, mtp, prefix)
        cached  == MatchedTokens(prefix)
        next    == w.sequence_table_generation + 1
        tables  == {P!admit_with_prefix(t, id, mtp, Cardinality(DOMAIN prefix), prefix, a, d) :
                      a \in P!TargetAllocations(t, missing), d \in P!DraftAllocations(t, drafts)}
    IN  IF \/ ~require_event_space(w, 1)
           \/ ~P!require_unbound_quarantine(t) \/ ~P!Attachable(t, mtp, prefix) \/ tables = {}
           \/ ~S!CanAdmit(w.scheduler, id, spec, cached)
        THEN {Err(w)}
        ELSE UNION {Then(apply_page_delta(w, t, after, w.sequence_table_generation, next),
               LAMBDA v :
                 {Ok(Tell([v EXCEPT
                       !.scheduler = S!admit_with_prefix(@, id, spec, cached),
                       !.active_pages = after,
                       !.sequence_table_generation = next,
                       !.queued = @ + 1],
                     [i \in {id} |-> [v.told[id] EXCEPT !.prompt = cached]]))}) :
               after \in tables}

Released(w, prefix) == [w EXCEPT !.pins = Unpinned(@, [one \in {1} |-> prefix])]

\* Mutant: a prefix that could not be admitted stays pinned.
AbandonedPinned(w, prefix, spec) == [w EXCEPT !.retained_prompt_bytes = @ - prompt_bytes(spec)]

Abandoned(w, prefix, spec) ==
    [Released(w, prefix) EXCEPT !.retained_prompt_bytes = @ - prompt_bytes(spec)]

\* w holds the prefix pinned and the prompt charged.  A prefix without drafts
\* is of no use to a request that drafts.
finish_token_admission(w, id, spec, found) ==
    LET lacking == spec.mtp_depth # 0 /\ \E o \in DOMAIN found : found[o].draft = NONE
        prefix  == IF lacking THEN <<>> ELSE found
        base    == IF lacking THEN Released(w, found) ELSE w
        cached  == MatchedTokens(prefix)
    IN  {IF ~o.ok THEN Err(Abandoned(o.w, prefix, spec))
         ELSE Ok(LET v == [o.w EXCEPT !.prefix_leases = With(@, id, prefix)]
                 IN  IF cached = spec.prompt_tokens
                     THEN [v EXCEPT !.retained_prompt_bytes = @ - prompt_bytes(spec)]
                     ELSE [v EXCEPT !.request_tokens = With(@, id, spec)]) :
           o \in admit_active_sequence(base, id, spec, prefix)}

\* What the prefix cache may have of a prompt.
Prefixes(spec) ==
    {p \in UNION {[0..(n - 1) -> Attachments] : n \in 0..(spec.prompt_tokens \div PAGE_TOKENS)} :
       \A o, q \in DOMAIN p : o # q => p[o].key # p[q].key}

Pinned(w, prefix) ==
    [w EXCEPT !.pins = [k \in DOMAIN w.pins |->
       w.pins[k] + IF \E o \in DOMAIN prefix : prefix[o].key = k THEN 1 ELSE 0]]

Admissible(w, id, spec) ==
    /\ id \notin DOMAIN w.pending_admissions \cup DOMAIN w.scheduler.requests
    /\ id \notin DOMAIN w.prefix_leases \cup DOMAIN w.request_tokens
    /\ spec.prompt_tokens + spec.maximum_new_tokens <= MAXIMUM_CONTEXT_TOKENS
    /\ Cardinality(DOMAIN w.pending_admissions) < event_capacity
    /\ w.retained_prompt_bytes + prompt_bytes(spec) <= maximum_retained_prompt_bytes

\* The cache restores in the background, or has the prefix, or fails.
begin_admit_tokens(w, id, spec) ==
    LET charged == [w EXCEPT !.retained_prompt_bytes = @ + prompt_bytes(spec)]
    IN  IF ~Admissible(w, id, spec) THEN {}
        ELSE {Ok([charged EXCEPT !.pending_admissions = With(@, id, spec)])}
             \cup UNION {finish_token_admission(Pinned(charged, prefix), id, spec, prefix) :
                           prefix \in Prefixes(spec)}

poll_admission(w, id) ==
    LET spec == w.pending_admissions[id]
        rest == [w EXCEPT !.pending_admissions = Without(@, {id})]
    IN  {Err([rest EXCEPT !.retained_prompt_bytes = @ - prompt_bytes(spec)])}
        \cup UNION {finish_token_admission(Pinned(rest, prefix), id, spec, prefix) :
                      prefix \in Prefixes(spec)}

cancel(w, id) ==
    IF id \in DOMAIN w.pending_admissions
    THEN IF ~require_event_space(w, 1) THEN {}
         ELSE {Ok(TellEnd([w EXCEPT
                 !.pending_admissions = Without(@, {id}),
                 !.retained_prompt_bytes = @ - prompt_bytes(w.pending_admissions[id]),
                 !.terminal_events = @ \cup {id}], "Cancelled", {id}))}
    ELSE IF id \in DOMAIN w.scheduler.requests
    THEN {Ok([w EXCEPT !.scheduler = S!cancel(@, id)])}
    ELSE {}

----------------------------------------------------------------------------
(* A tick.                                                                 *)

Cancelled(w) == {id \in DOMAIN w.scheduler.requests :
                   w.scheduler.requests[id].state = "Cancelled"} \ w.terminal_events

emit_terminal_transitions(w) ==
    LET ids == Cancelled(w)
    IN  IF ids = {} THEN {Ok(w)}
        ELSE IF ~require_event_space(w, Cardinality(ids)) THEN {Err(w)}
        ELSE Then(commit_request_releases(
                    w, plan_request_releases(w, ids, {}, w.active_pages), "Pending"),
                  LAMBDA v : {Ok([TellEnd(v, "Cancelled", ids)
                                    EXCEPT !.terminal_events = @ \cup ids])})

\* The selected batch fails, the requests of its rows with it.
FailStep(w, batch, rank_state) ==
    LET ids    == S!RowIds(batch)
        plan   == plan_request_releases(w, ids, {}, w.active_pages)
        failed == [w EXCEPT !.scheduler = S!fail_batch(@)]
    IN  {Err(IF o.ok THEN TellEnd(o.w, "Failed", ids) ELSE o.w) :
           o \in commit_request_releases(failed, plan, rank_state)}

fail_selected_step(w, batch) == FailStep(w, batch, "Pending")

fail_selected_step_after_worker_fatal(w, batch) == FailStep(w, batch, "WorkerRetired")

\* Mutant: the generation of the reservation is forgotten.
rollback_keeps_generation(w, reserved, generation) ==
    apply_page_delta(w, reserved, w.active_pages, generation, generation + 1)

rollback_rank_reservation(w, reserved, generation) ==
    Then(apply_page_delta(w, reserved, w.active_pages, generation, generation + 1),
         LAMBDA v : {Ok([v EXCEPT !.sequence_table_generation = generation + 1])})

\* An output or a plan that does not fit is undone on the ranks first.
RollBack(w, batch, reserved, generation) ==
    UNION {IF o.ok THEN fail_selected_step(o.w, batch)
                   ELSE fail_selected_step_after_worker_fatal(o.w, batch) :
             o \in rollback_rank_reservation(w, reserved, generation)}

Progress(w, id) == w.scheduler.requests[id].prompt_done + w.scheduler.requests[id].generated

\* What one row reserves, as the set of the one table it leads to; empty if
\* it cannot.
ReservedRow(w, t, batch, i) ==
    LET id     == batch.rows[i].request_id
        tokens == IF batch.mode = "Prefill" THEN batch.rows[i].prompt_tokens ELSE batch.depth + 1
        fresh  == P!FreshOrdinals(t, id, tokens)
        drafts == P!FreshDrafts(t, id, fresh)
    IN  IF /\ t.sequences[id].committed_tokens = Progress(w, id)
           /\ IF batch.mode = "Prefill" THEN P!CanAppend(t, id, tokens)
                                        ELSE P!CanBeginTentative(t, id, tokens)
        THEN {IF batch.mode = "Prefill" THEN P!append_committed(t, id, tokens, a, d)
                                        ELSE P!begin_tentative(t, id, tokens, a, d) :
                a \in P!TargetAllocations(t, fresh), d \in P!DraftAllocations(t, drafts)}
        ELSE {}

reserve_active_step(w, batch) ==
    LET tables[i \in 0..Len(batch.rows)] ==
          IF i = 0 THEN {w.active_pages}
          ELSE UNION {ReservedRow(w, t, batch, i) : t \in tables[i - 1]}
    IN  tables[Len(batch.rows)]

commit_active_step(t, batch, completions) ==
    LET done[i \in 0..Len(batch.rows)] ==
          IF i = 0 THEN t
          ELSE LET id == batch.rows[i].request_id
               IN  P!commit_tentative(done[i - 1], id, completions[id].committed_tokens)
    IN  IF batch.mode = "Prefill" THEN t ELSE done[Len(batch.rows)]

\* build_step_input needs the prompt of every row that prefills.
HasPrompts(w, batch) ==
    \A i \in DOMAIN batch.rows :
      batch.rows[i].prompt_tokens # 0 => batch.rows[i].request_id \in DOMAIN w.request_tokens

\* The step compiles, and its input fits the plan and the delta of the
\* reservation.  The backend admits greedy requests only.
CanSubmit(w, batch, delta, generation) ==
    LET compiled == E!compile(epoch, batch, batch.graph, generation)
        sampling == [id \in S!RowIds(batch) |-> E!greedy]
        last     == Len(batch.rows)
    IN  /\ compiled # NONE
        /\ HasPrompts(w, batch)
        /\ E!ValidInput(compiled.plan, compiled.schedule, delta,
                        E!StepRows(batch, w.scheduler.requests, sampling),
                        E!PayloadOffset(batch, last) + batch.rows[last].prompt_tokens)

\* Mutant: only a request that reached its length is told that it finished.
StepEventsByLength(w, batch, completions, ended) ==
    LET ids == S!RowIds(batch)
        told == Tell(w, [id \in ids |->
                  IF batch.mode = "Prefill"
                  THEN [w.told[id] EXCEPT !.prompt = w.scheduler.requests[id].prompt_done]
                  ELSE [w.told[id] EXCEPT !.tokens = @ + completions[id].committed_tokens]])
    IN  TellEnd(told, "Finished", {id \in ended : ~completions[id].terminal})

StepEvents(w, batch, completions, ended) ==
    LET ids == S!RowIds(batch)
        told == Tell(w, [id \in ids |->
                  IF batch.mode = "Prefill"
                  THEN [w.told[id] EXCEPT !.prompt = w.scheduler.requests[id].prompt_done]
                  ELSE [w.told[id] EXCEPT !.tokens = @ + completions[id].committed_tokens]])
        tokens(id) == IF batch.mode = "Prefill" THEN 1 ELSE completions[id].committed_tokens
    IN  TellEnd([told EXCEPT !.queued = @ + Cardinality(UNION {{id} \X (1..tokens(id)) : id \in ids})],
                "Finished", ended)

\* The step went through on the ranks, whose mirror holds the reservation.
\* The scheduler is completed on a clone; a decode step tells the ranks what
\* was committed before the host takes it.
Publish(w, batch, reserved, generation, completions) ==
    LET scheduler == S!complete_batch(w.scheduler, completions)
        ids     == S!RowIds(batch)
        ended   == {id \in ids : scheduler.requests[id].state = "Finished"}
        filled  == {id \in ids : batch.mode = "Prefill" /\ scheduler.requests[id].state = "Decoding"}
        plan    == plan_request_releases(w, ended, filled,
                                         commit_active_step(reserved, batch, completions))
        commit  == generation + 1
        bound   == bind_reuse_quarantine(plan.active_pages, commit)
        done(v, g, t) ==
          LET committed == [v EXCEPT !.scheduler = scheduler]
          IN  Then(commit_request_releases(
                     committed, [plan EXCEPT !.active_pages = t, !.generation = g], "Acknowledged"),
                   LAMBDA u : {Ok(StepEvents(u, batch, completions, ended))})
    IN  IF batch.mode = "Prefill" THEN done(w, generation, plan.active_pages)
        ELSE UNION {IF o.ok THEN done(o.w, commit, bound)
                    ELSE fail_selected_step_after_worker_fatal(o.w, batch) :
                      o \in apply_page_delta(w, reserved, bound, generation, commit)}

\* Before it is submitted a step may fail for want of pages, on its plan or
\* its input, or because the workers take no more.
Step(w, batch) ==
    LET generation == w.sequence_table_generation + 1
        delta(reserved) == P!between(view(w.active_pages), view(reserved))
    IN  fail_selected_step(w, batch) \cup UNION {
          IF delta(reserved) = NONE THEN {}
          ELSE IF ~CanSubmit(w, batch, delta(reserved), generation)
          THEN fail_selected_step([w EXCEPT !.refused = TRUE], batch)
          ELSE IF w.mirror = NONE THEN {}
          ELSE UNION {
            IF ~o.ok THEN fail_selected_step_after_worker_fatal(o.w, batch)
            ELSE RollBack(o.w, batch, reserved, generation) \cup
                 UNION {Publish(o.w, batch, reserved, generation, completions) :
                          completions \in {c \in S!Completions(w.scheduler) :
                                             S!CanComplete(w.scheduler, c)}} :
            o \in apply_page_delta(w, w.active_pages, reserved, w.sequence_table_generation,
                                   generation)} :
          reserved \in reserve_active_step(w, batch)}

tick_observed(w) ==
    LET boundary == [w EXCEPT !.scheduler = S!apply_cancellations(@)]
    IN  IF ~require_event_space(w, MAXIMUM_STEP_EVENTS) THEN {Err(w)}
        ELSE Then(emit_terminal_transitions(boundary), LAMBDA v :
               IF ~require_event_space(v, MAXIMUM_STEP_EVENTS) THEN {Err(v)}
               ELSE IF S!Runnable(v.scheduler) = {} THEN {Ok(v)}
               ELSE UNION {Step([v EXCEPT !.scheduler = S!next_batch(@, batch)], batch) :
                             batch \in S!Batches(v.scheduler)})

----------------------------------------------------------------------------
(* The specification.  The runtime drains the events before it ticks, and  *)
(* calls no more after a tick that failed.                                 *)

Init == serving = new

Take(outcomes) == ~serving.fatal /\ \E o \in outcomes : serving' = o.w

\* submit_chat draws every id once, in order.
Admit(id, spec) ==
    /\ id = serving.drawn + 1
    /\ Take({[o EXCEPT !.w.drawn = id] : o \in begin_admit_tokens(serving, id, spec)})

Poll(id) == id \in DOMAIN serving.pending_admissions /\ Take(poll_admission(serving, id))

Cancel(id) == Take(cancel(serving, id))

DrainEvents ==
    /\ ~serving.fatal /\ serving.queued > 0
    /\ serving' = [serving EXCEPT !.queued = 0]

Ticked == {IF o.ok THEN o.w ELSE [o.w EXCEPT !.fatal = TRUE] : o \in tick_observed(serving)}

Tick ==
    /\ ~serving.fatal /\ serving.queued = 0
    /\ \E w \in Ticked : serving' = w

Next ==
    \/ \E id \in RequestIds : \/ \E spec \in Specs : Admit(id, spec)
                              \/ Poll(id) \/ Cancel(id)
    \/ DrainEvents \/ Tick

Spec == Init /\ [][Next]_serving

----------------------------------------------------------------------------
(* Properties.                                                             *)

Live == {id \in DOMAIN serving.scheduler.requests :
           serving.scheduler.requests[id].state \notin S!Terminal}

\* Between calls the ranks mirror exactly the host's table at the host's
\* generation, whatever step, cancellation or admission failed half way, and
\* no slot the ranks have let go of is still withheld: the next delta fits.
RanksFollowHost ==
    serving.mirror # NONE =>
      /\ serving.mirror.generation = serving.sequence_table_generation
      /\ serving.mirror.view = view(serving.active_pages)
      /\ P!QuarantineIsEmpty(serving.active_pages)
      /\ serving.active_pages.quarantine_generation = NONE

\* Nothing the coordinator builds is refused: every batch compiles, its input
\* fits the plan and the delta of the reservation, and after every rollback and
\* release a delta's generation and its base are what the ranks have.
DeltasFit == ~serving.refused

\* Every pin of the prefix cache belongs to a lease of a live request, and the
\* retained prompt bytes are those of the prompts still needed: no way an
\* admission, a step or a cancellation can end leaks either.
NothingLeaks ==
    /\ \A k \in DOMAIN serving.pins :
         serving.pins[k] = Cardinality({id \in DOMAIN serving.prefix_leases :
           \E o \in DOMAIN serving.prefix_leases[id] : serving.prefix_leases[id][o].key = k})
    /\ serving.retained_prompt_bytes =
         BytesOf(serving.pending_admissions) + BytesOf(serving.request_tokens)
    /\ ~serving.fatal =>
         /\ DOMAIN serving.prefix_leases = Live
         /\ DOMAIN serving.request_tokens =
              {id \in Live : serving.scheduler.requests[id].state = "WaitingPrefill"}

\* The events tell of every committed token and of nothing else, and say once
\* how a request ended.
EventsTellWhatHappened ==
    \A id \in RequestIds :
      LET told == serving.told[id]
      IN  /\ Len(told.ended) <= 1
          /\ id \in DOMAIN serving.scheduler.requests =>
               LET request == serving.scheduler.requests[id]
               IN  /\ told.tokens = request.generated
                   /\ told.prompt = request.prompt_done
                   /\ told.ended # <<>> => told.ended = <<request.state>>
                   /\ ~serving.fatal /\ request.state \in S!Terminal => told.ended # <<>>

=============================================================================
