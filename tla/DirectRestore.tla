---------------------------- MODULE DirectRestore ----------------------------
(***************************************************************************)
(* DirectRestoreTable (glm-cache/src/direct_restore.rs): tickets that      *)
(* coalesce requests for one NVMe extent, read it into a pool buffer,      *)
(* verify it on checksum workers and deliver it.                           *)
(*                                                                         *)
(* The table's methods are operators on the table value `t`; NONE is a     *)
(* refusal that changes nothing.  The actions interleave the authority     *)
(* that owns the table with the kernel's ring and the worker threads.      *)
(* original_pending and cancel_pending are the presence of their tokens,   *)
(* which the code always sets and clears together.  A worker decodes       *)
(* through the Arc of the very slot its job names, so the address check    *)
(* that guards against another allocation always passes.                   *)
(***************************************************************************)
EXTENDS DirectState, FiniteSetsExt, Functions, TLC

CONSTANTS
    Requests,         \* request_id -> [tenant_id, required_capability]
    Catalog,          \* the records (with the epoch of the catalog that named them) a plan may carry
    maximum_tickets, maximum_waiters_per_ticket, maximum_hash_jobs,
    maximum_physical_bytes, maximum_logical_bytes_per_tenant,
    worker_count,
    TicketBound,      \* bound: tickets created
    Faults            \* "damage", "fail", "cancelled", "panic", "shutdown"

ASSUME DirectRestoreAssumption ==
    /\ maximum_tickets > 0 /\ maximum_waiters_per_ticket > 0
    /\ maximum_hash_jobs \in 1..buffer_slots
    /\ maximum_physical_bytes > 0 /\ maximum_logical_bytes_per_tenant > 0
    /\ worker_count \in 1..maximum_hash_jobs

VARIABLES
    table,        \* DirectRestoreTable
    ring,         \* reads and cancels whose completion the kernel still owes
    commands,     \* tasks in the workers' command channel
    running,      \* tasks a worker is verifying
    completions,  \* the workers' completion channel
    threads,      \* worker threads that have not ended
    results       \* hash jobs and results the authority has taken and not yet completed

vars == <<table, ring, commands, running, completions, threads, results>>

Tenants == {Requests[r].tenant_id : r \in DOMAIN Requests}
Empty == [x \in {} |-> NONE]

NewTable ==
    [next_ticket |-> 1, tickets |-> Empty, request_to_ticket |-> Empty,
     logical_by_tenant |-> [n \in Tenants |-> 0], physical_bytes |-> 0, active_hash_jobs |-> 0,
     workers |-> "none", failed |-> FALSE,      \* checksum_workers, its failed flag
     buffers |-> NewPool, descriptors |-> NewDescriptors,
     cq |-> [Original |-> 0, AsyncCancel |-> 0]]

capability_satisfies(available, required) == available = "Mtp" \/ required = "Target"

(***************************************************************************)
(* DirectCqTracker                                                         *)
(***************************************************************************)
cq_outstanding(t) == t.cq.Original + t.cq.AsyncCancel
try_submit(t, kind) ==
    LET next == [t EXCEPT !.cq[kind] = @ + 1]
    IN  IF next.cq.Original > descriptor_capacity \/ cq_outstanding(next) > 2 * descriptor_capacity
        THEN NONE ELSE next

(***************************************************************************)
(* Accounting                                                              *)
(***************************************************************************)
Charge(waiters, tenant) ==
    MapThenSumSet(LAMBDA r : logical_bytes(waiters[r].required_capability),
                  {r \in DOMAIN waiters : waiters[r].tenant_id = tenant})

\* Every waiter of the ticket is uncharged and loses its request entry.
clear_waiters(t, i) ==
    LET waiters == t.tickets[i].waiters
    IN  [t EXCEPT !.logical_by_tenant = [n \in Tenants |-> @[n] - Charge(waiters, n)],
                  !.request_to_ticket = Restrict(@, DOMAIN @ \ DOMAIN waiters),
                  !.tickets[i].waiters = Empty]

release_hash_job(t, i) ==
    IF t.tickets[i].hash_state = "None" THEN t
    ELSE [t EXCEPT !.active_hash_jobs = @ - 1, !.tickets[i].hash_state = "None"]

remove_ticket(t, i) ==
    LET ticket == t.tickets[i]
    IN  IF ticket.original_token # NONE \/ ticket.cancel_token # NONE \/ ticket.hash_state # "None"
        THEN t
        ELSE [clear_waiters(t, i) EXCEPT !.tickets = Restrict(@, DOMAIN @ \ {i}),
                                         !.physical_bytes = @ - ticket.record.physical_length]

fail_ticket(t, i) ==
    LET buffer == t.tickets[i].buffer
        quarantined == IF t.buffers.slots[buffer.slot].state = "Quarantined" THEN t.buffers
                       ELSE transition(transition(t.buffers, buffer, "Failed"), buffer, "Quarantined")
        failed == [clear_waiters(release_hash_job([t EXCEPT !.buffers = quarantined], i), i)
                     EXCEPT !.tickets[i].state = "Failed"]
    IN  remove_ticket(failed, i)

fail_checksum_pool(t) ==
    FoldSet(LAMBDA i, acc : fail_ticket(acc, i), [t EXCEPT !.failed = TRUE],
            {i \in DOMAIN t.tickets : t.tickets[i].hash_state # "None"})

\* Mutant: the reserved hash job is not released with the abandoned read.
finish_abandoned_leaky(t, i) ==
    LET ticket == t.tickets[i]
    IN  IF ticket.original_token # NONE \/ ticket.cancel_token # NONE THEN t
        ELSE remove_ticket([t EXCEPT !.buffers = release_abandoned_read(@, ticket.buffer)], i)

finish_abandoned_if_reaped(t, i) ==
    LET ticket == t.tickets[i]
    IN  IF ticket.original_token # NONE \/ ticket.cancel_token # NONE THEN t
        ELSE remove_ticket([release_hash_job(t, i)
                              EXCEPT !.buffers = release_abandoned_read(@, ticket.buffer)], i)

(***************************************************************************)
(* plan .. submit_read                                                     *)
(***************************************************************************)
compatible_ticket(t, source, required) ==
    LET matching == {i \in DOMAIN t.tickets :
                       /\ t.tickets[i].record = source.record /\ t.tickets[i].epoch = source.epoch
                       /\ capability_satisfies(t.tickets[i].record.capability, required)
                       /\ t.tickets[i].state \notin {"Abandoned", "Failed"}}
    IN  IF matching = {} THEN NONE ELSE Min(matching)

plan(t, r, source) ==
    LET waiter == Requests[r]
        charge == logical_bytes(waiter.required_capability)
        joined == compatible_ticket(t, source, waiter.required_capability)
        charged == [t EXCEPT !.logical_by_tenant[waiter.tenant_id] = @ + charge]
        id == t.next_ticket
    IN  IF \/ ~validate(source.record)
           \/ ~capability_satisfies(source.record.capability, waiter.required_capability)
           \/ r \in DOMAIN t.request_to_ticket
           \/ t.logical_by_tenant[waiter.tenant_id] + charge > maximum_logical_bytes_per_tenant
        THEN NONE
        ELSE IF joined # NONE
        THEN IF Cardinality(DOMAIN t.tickets[joined].waiters) >= maximum_waiters_per_ticket THEN NONE
             ELSE [charged EXCEPT !.tickets[joined].waiters = @ @@ (r :> waiter),
                                  !.request_to_ticket = @ @@ (r :> joined)]
        ELSE IF \/ Cardinality(DOMAIN t.tickets) >= maximum_tickets
                \/ t.physical_bytes + source.record.physical_length > maximum_physical_bytes
        THEN NONE
        ELSE [charged EXCEPT
                !.next_ticket = @ + 1,
                !.tickets = @ @@ (id :> [record |-> source.record, epoch |-> source.epoch,
                                         state |-> "Planned", buffer |-> NONE,
                                         waiters |-> (r :> waiter), original_token |-> NONE,
                                         cancel_token |-> NONE, hash_state |-> "None"]),
                !.request_to_ticket = @ @@ (r :> id),
                !.physical_bytes = @ + source.record.physical_length]

reserve_buffer(t, i) ==
    LET reserved == reserve(t.buffers, "CpuRead")
    IN  IF t.tickets[i].state # "Planned" THEN NONE
        ELSE IF reserved.id = NONE THEN [t EXCEPT !.buffers = reserved.pool]
        ELSE [t EXCEPT !.buffers = reserved.pool, !.tickets[i].buffer = reserved.id,
                       !.tickets[i].state = "BufferReserved"]

Binding(t, i) == [buffer |-> t.tickets[i].buffer, operation_generation |-> i, operation |-> "Read"]

submit_read(t, i) ==
    LET allocated == allocate(t.descriptors, Binding(t, i))
        submitted == try_submit(t, "Original")
    IN  IF \/ t.workers = "retired" \/ t.failed
           \/ t.tickets[i].state # "BufferReserved"
           \/ t.active_hash_jobs + 1 > maximum_hash_jobs
        THEN NONE
        ELSE IF allocated.token = NONE THEN [t EXCEPT !.descriptors = allocated.table]
        ELSE IF submitted = NONE
        THEN [t EXCEPT !.descriptors = complete(allocated.table, allocated.token)]
        ELSE [submitted EXCEPT
                !.descriptors = allocated.table,
                !.buffers = transition(@, t.tickets[i].buffer, "ReadInflight"),
                !.tickets[i].original_token = allocated.token,
                !.tickets[i].hash_state = "Reserved", !.tickets[i].state = "ReadSubmitted",
                !.active_hash_jobs = @ + 1]

copy_into_read_destination(t, i, bytes) ==
    LET ticket == t.tickets[i]
    IN  IF ticket.state # "ReadSubmitted" \/ ticket.original_token = NONE
           \/ ticket.cancel_token # NONE \/ ticket.hash_state # "Reserved"
        THEN NONE
        ELSE [t EXCEPT !.buffers = with_bytes_mut(@, ticket.buffer, bytes)]

\* The ticket is freed with its buffer.
FreeTicket(t, i) ==
    remove_ticket([t EXCEPT !.buffers = transition(@, t.tickets[i].buffer, "Free")], i)

\* The bookkeeping of cancel_waiter before it looks at the ticket's state.
Leave(t, r) ==
    LET i == t.request_to_ticket[r]
        waiter == t.tickets[i].waiters[r]
    IN  [t EXCEPT !.logical_by_tenant[waiter.tenant_id] = @ - logical_bytes(waiter.required_capability),
                  !.request_to_ticket = Restrict(@, DOMAIN @ \ {r}),
                  !.tickets[i].waiters = Restrict(@, DOMAIN @ \ {r})]

\* Mutant: abandoning a submitted read frees its buffer at once.
cancel_waiter_releasing(t, r, async_cancel_supported) ==
    LET i == t.request_to_ticket[r]
        left == Leave(t, r)
        state == t.tickets[i].state
        abandoned == [left EXCEPT !.tickets[i].state = "Abandoned"]
    IN  IF DOMAIN left.tickets[i].waiters # {} THEN left
        ELSE CASE state = "Planned" -> remove_ticket(left, i)
               [] state \in {"BufferReserved", "HashVerified"} -> FreeTicket(left, i)
               [] state = "DataReady" -> abandoned
               [] OTHER -> [abandoned EXCEPT !.buffers = release_abandoned_read(@, t.tickets[i].buffer)]

cancel_waiter(t, r, async_cancel_supported) ==
    LET i == t.request_to_ticket[r]
        left == Leave(t, r)
        state == t.tickets[i].state
        abandoned == [left EXCEPT !.tickets[i].state = "Abandoned"]
        cancelling == try_submit(abandoned, "AsyncCancel")
        original == t.tickets[i].original_token
    IN  IF DOMAIN left.tickets[i].waiters # {} THEN left
        ELSE CASE state = "Planned" -> remove_ticket(left, i)
               [] state \in {"BufferReserved", "HashVerified"} -> FreeTicket(left, i)
               [] state = "DataReady" -> abandoned
               [] state = "ReadSubmitted" ->
                    IF ~async_cancel_supported \/ cancelling = NONE THEN abandoned
                    ELSE IF issue_cancel(t.descriptors, original) = NONE THEN abandoned
                    ELSE [cancelling EXCEPT
                            !.descriptors = issue_cancel(@, original),
                            !.tickets[i].cancel_token = [original EXCEPT !.kind = "AsyncCancel"]]
               [] OTHER -> left

(***************************************************************************)
(* Completions                                                             *)
(***************************************************************************)
\* The descriptor and the CQ entry of a completion are settled.
Settle(t, i, kind, token) ==
    [t EXCEPT !.descriptors = complete(@, token), !.cq[kind] = @ - 1]

complete_original(t, i, completion) ==
    LET ticket == t.tickets[i]
        settled == [Settle(t, i, "Original", ticket.original_token)
                      EXCEPT !.tickets[i].original_token = NONE]
    IN  IF \/ i \notin DOMAIN t.tickets
           \/ ticket.original_token = NONE \/ ticket.state \notin {"ReadSubmitted", "Abandoned"}
           \/ resolve(t.descriptors, ticket.original_token) # Binding(t, i)
           \/ t.cq.Original = 0
        THEN NONE
        ELSE IF completion = "Failed" \/ (ticket.state = "ReadSubmitted" /\ completion = "Cancelled")
        THEN fail_ticket(settled, i)
        ELSE IF ticket.state = "Abandoned" THEN finish_abandoned_if_reaped(settled, i)
        ELSE [settled EXCEPT !.buffers = transition(@, ticket.buffer, "HashingForRead"),
                             !.tickets[i].hash_state = "Queued", !.tickets[i].state = "DataReady"]

complete_cancel(t, i) ==
    LET ticket == t.tickets[i]
        settled == [Settle(t, i, "AsyncCancel", ticket.cancel_token)
                      EXCEPT !.tickets[i].cancel_token = NONE]
    IN  IF \/ i \notin DOMAIN t.tickets
           \/ ticket.cancel_token = NONE \/ ticket.state \notin {"Abandoned", "Failed"}
           \/ resolve(t.descriptors, ticket.cancel_token) # Binding(t, i)
           \/ t.cq.AsyncCancel = 0
        THEN NONE
        ELSE IF ticket.original_token # NONE THEN settled
        ELSE IF ticket.state = "Abandoned" THEN finish_abandoned_if_reaped(settled, i)
        ELSE remove_ticket(settled, i)

(***************************************************************************)
(* Checksums, and delivery                                                 *)
(***************************************************************************)
start_checksum_workers(t) ==
    IF t.workers # "none" \/ t.active_hash_jobs # 0 THEN NONE ELSE [t EXCEPT !.workers = "running"]

shutdown_checksum_workers(t) ==
    IF t.active_hash_jobs # 0 \/ t.workers # "running" THEN NONE
    ELSE [t EXCEPT !.workers = "retired"]

\* The oldest ticket that waits for its checksum.
NextQueued(t) ==
    LET queued == {i \in DOMAIN t.tickets : t.tickets[i].hash_state = "Queued"}
    IN  IF queued = {} THEN NONE ELSE Min(queued)

HashBound(t, i) ==
    /\ t.tickets[i].state \in {"DataReady", "Abandoned"}
    /\ t.tickets[i].original_token = NONE /\ t.tickets[i].cancel_token = NONE

\* The job's ticket still waits for exactly this job.
JobBound(t, job) ==
    /\ job.ticket \in DOMAIN t.tickets /\ HashBound(t, job.ticket)
    /\ t.tickets[job.ticket].hash_state = "Running" /\ t.tickets[job.ticket].buffer = job.buffer

Job(t, i) == [ticket |-> i, buffer |-> t.tickets[i].buffer]
StartHash(t, i) == [t EXCEPT !.tickets[i].hash_state = "Running"]

Integrity(t, job, record) ==
    decode_direct_extent(record, Prefix(t.buffers.slots[job.buffer.slot].bytes, record.capability))

\* Mutant: the result's verdict is ignored.
complete_hash_unchecked(t, result) ==
    LET i == result.job.ticket
        ready == release_hash_job([t EXCEPT !.buffers = transition(@, t.tickets[i].buffer, "HostReady")], i)
    IN  IF ~JobBound(t, result.job) THEN NONE
        ELSE IF t.tickets[i].state = "Abandoned" THEN FreeTicket(ready, i)
        ELSE [ready EXCEPT !.tickets[i].state = "HashVerified"]

complete_hash(t, result) ==
    LET i == result.job.ticket
        ticket == t.tickets[i]
        ready == release_hash_job([t EXCEPT !.buffers = transition(@, ticket.buffer, "HostReady")], i)
    IN  IF ~JobBound(t, result.job) THEN NONE
        ELSE IF ~result.verified THEN fail_ticket(t, i)
        ELSE IF ticket.state = "Abandoned" THEN FreeTicket(ready, i)
        ELSE [ready EXCEPT !.tickets[i].state = "HashVerified"]

finish_cpu_delivery(t, i) ==
    IF t.tickets[i].state # "HashVerified" \/ t.tickets[i].hash_state # "None" THEN NONE
    ELSE FreeTicket(t, i)
(***************************************************************************)
(* validate_invariants, the table's own statement of its consistency       *)
(***************************************************************************)
StateMatches(t, i) ==
    LET ticket == t.tickets[i]
        buffer == IF ticket.buffer = NONE THEN "no buffer" ELSE t.buffers.slots[ticket.buffer.slot].state
        original == ticket.original_token # NONE
        cancel == ticket.cancel_token # NONE
        waiting == DOMAIN ticket.waiters # {}
    IN  <<ticket.state, buffer, original, cancel, ticket.hash_state, waiting>> \in
            {<<"Planned", "no buffer", FALSE, FALSE, "None", TRUE>>,
             <<"BufferReserved", "ReadQueued", FALSE, FALSE, "None", TRUE>>,
             <<"ReadSubmitted", "ReadInflight", TRUE, FALSE, "Reserved", TRUE>>,
             <<"HashVerified", "HostReady", FALSE, FALSE, "None", TRUE>>}
              \union ({"DataReady"} \X {"HashingForRead"} \X {FALSE} \X {FALSE}
                        \X {"Queued", "Running"} \X {TRUE})
              \union ({"Abandoned"} \X {"ReadInflight"} \X BOOLEAN \X BOOLEAN \X {"Reserved"} \X {FALSE})
              \union ({"Abandoned"} \X {"HashingForRead"} \X BOOLEAN \X BOOLEAN
                        \X {"Queued", "Running"} \X {FALSE})
              \union ({"Failed"} \X {"Quarantined"} \X {FALSE} \X BOOLEAN \X {"None"} \X {FALSE})

validate_invariants(t) ==
    LET ids == DOMAIN t.tickets
        Tokens(i) == {t.tickets[i].original_token, t.tickets[i].cancel_token} \ {NONE}
        Count(P(_)) == Cardinality({i \in ids : P(i)})
    IN  /\ t.workers = "retired" => t.active_hash_jobs = 0
        /\ t.physical_bytes = MapThenSumSet(LAMBDA i : t.tickets[i].record.physical_length, ids)
        /\ t.physical_bytes <= maximum_physical_bytes /\ Cardinality(ids) <= maximum_tickets
        /\ \A i \in ids :
             /\ Cardinality(DOMAIN t.tickets[i].waiters) <= maximum_waiters_per_ticket
             /\ \A r \in DOMAIN t.tickets[i].waiters :
                  /\ capability_satisfies(t.tickets[i].record.capability,
                                          t.tickets[i].waiters[r].required_capability)
                  /\ r \in DOMAIN t.request_to_ticket /\ t.request_to_ticket[r] = i
             /\ \A token \in Tokens(i) : resolve(t.descriptors, token) = Binding(t, i)
             /\ t.tickets[i].buffer # NONE => Current(t.buffers, t.tickets[i].buffer)
             /\ StateMatches(t, i)
        /\ DOMAIN t.request_to_ticket = UNION {DOMAIN t.tickets[i].waiters : i \in ids}
        /\ \A n \in Tenants :
             /\ t.logical_by_tenant[n] = MapThenSumSet(LAMBDA i : Charge(t.tickets[i].waiters, n), ids)
             /\ t.logical_by_tenant[n] <= maximum_logical_bytes_per_tenant
        /\ outstanding_descriptors(t.descriptors) = Count(LAMBDA i : Tokens(i) # {})
        /\ cq_outstanding(t) = MapThenSumSet(LAMBDA i : Cardinality(Tokens(i)), ids)
        /\ active_slots(t.buffers) =
             Count(LAMBDA i : /\ t.tickets[i].buffer # NONE
                              /\ is_active(t.buffers.slots[t.tickets[i].buffer.slot].state))
        /\ t.active_hash_jobs = Count(LAMBDA i : t.tickets[i].hash_state # "None")
        /\ t.active_hash_jobs <= maximum_hash_jobs

(***************************************************************************)
(* The authority, the kernel and the workers                               *)
(***************************************************************************)
Init ==
    /\ table = NewTable
    /\ ring = {} /\ commands = <<>> /\ running = {} /\ completions = <<>>
    /\ threads = 0 /\ results = {}

\* An operation of the authority that only changes the table.
Call(t) == t # NONE /\ table' = t /\ UNCHANGED <<ring, commands, running, completions, threads, results>>

Plan(r, source) ==
    \E t \in {plan(table, r, source)} \ {NONE} : t.next_ticket <= TicketBound + 1 /\ Call(t)

ReserveBuffer(i) == Call(reserve_buffer(table, i))

\* What the kernel owes for a token: a read also names where it writes.
Owed(t, i, kind) ==
    [ticket |-> i, kind |-> kind, buffer |-> t.tickets[i].buffer, record |-> t.tickets[i].record,
     transferred |-> FALSE]

SubmitRead(i) ==
    \E t \in {submit_read(table, i)} \ {NONE} :
      /\ table' = t
      /\ ring' = ring \union (IF t.tickets[i].state = "ReadSubmitted" THEN {Owed(t, i, "Original")} ELSE {})
      /\ UNCHANGED <<commands, running, completions, threads, results>>

Image(record) ==
    [r \in Regions("Mtp") |-> IF r \in DOMAIN record.physical_sha256
                              THEN record.physical_sha256[r] ELSE 0]
\* What the storage may hold for the record: its extent, or a damaged one.
Stored(record) ==
    {Image(record)} \union
      IF "damage" \in Faults THEN {[Image(record) EXCEPT !["target_indexer"] = 0]} ELSE {}

Transferred(read) == (ring \ {read}) \union {[read EXCEPT !.transferred = TRUE]}

\* The kernel fills the destination of a read it owes, whoever owns the slot.
KernelWrite(read) ==
    /\ read.kind = "Original" /\ ~read.transferred
    /\ \E bytes \in Stored(read.record) :
         table' = [table EXCEPT !.buffers.slots[read.buffer.slot].bytes = bytes]
    /\ ring' = Transferred(read)
    /\ UNCHANGED <<commands, running, completions, threads, results>>

\* The CPU fixture that stands for the device copies the extent itself.
CopyIntoReadDestination(read) ==
    /\ read.kind = "Original" /\ ~read.transferred /\ read.ticket \in DOMAIN table.tickets
    /\ \E bytes \in Stored(read.record) :
         \E t \in {copy_into_read_destination(table, read.ticket, bytes)} \ {NONE} : table' = t
    /\ ring' = Transferred(read)
    /\ UNCHANGED <<commands, running, completions, threads, results>>

CancelWaiter(r, async_cancel_supported) ==
    LET i == table.request_to_ticket[r]
    IN  /\ r \in DOMAIN table.request_to_ticket
        /\ \E t \in {cancel_waiter(table, r, async_cancel_supported)} :
             /\ table' = t
             /\ ring' = ring \union
                  IF i \in DOMAIN t.tickets /\ t.tickets[i].cancel_token # NONE
                  THEN {Owed(t, i, "AsyncCancel")} ELSE {}
        /\ UNCHANGED <<commands, running, completions, threads, results>>

\* How the kernel may end a read; it is asked to cancel those of abandoned tickets.
ReadCompletions(read) ==
    (IF read.transferred THEN {"Exact"} ELSE {})
      \union (IF "fail" \in Faults THEN {"Failed"} ELSE {})
      \union (IF \/ "cancelled" \in Faults
                 \/ /\ read.ticket \in DOMAIN table.tickets
                    /\ table.tickets[read.ticket].state = "Abandoned"
              THEN {"Cancelled"} ELSE {})

CompleteOriginal(read) ==
    /\ read.kind = "Original"
    /\ \E completion \in ReadCompletions(read) :
         \E t \in {complete_original(table, read.ticket, completion)} :
           table' = IF t = NONE THEN table ELSE t
    /\ ring' = ring \ {read}
    /\ UNCHANGED <<commands, running, completions, threads, results>>

CompleteCancel(cancel) ==
    /\ cancel.kind = "AsyncCancel"
    /\ \E t \in {complete_cancel(table, cancel.ticket)} : table' = IF t = NONE THEN table ELSE t
    /\ ring' = ring \ {cancel}
    /\ UNCHANGED <<commands, running, completions, threads, results>>
StartChecksumWorkers ==
    /\ \E t \in {start_checksum_workers(table)} \ {NONE} : table' = t
    /\ threads' = worker_count
    /\ UNCHANGED <<ring, commands, running, completions, results>>

\* The command channel is closed once every thread that could receive has ended.
dispatch_next_checksum ==
    LET i == NextQueued(table)
        task == [job |-> Job(table, i), record |-> table.tickets[i].record]
    IN  /\ table.workers = "running" /\ ~table.failed /\ i # NONE /\ HashBound(table, i)
        /\ IF threads = 0
           THEN table' = fail_checksum_pool(table) /\ commands' = commands
           ELSE /\ Len(commands) < maximum_hash_jobs
                /\ table' = StartHash(table, i) /\ commands' = Append(commands, task)
        /\ UNCHANGED <<ring, running, completions, threads, results>>

WorkerReceive ==
    /\ commands # <<>> /\ Cardinality(running) < threads
    /\ running' = running \union {Head(commands)} /\ commands' = Tail(commands)
    /\ UNCHANGED <<table, ring, completions, threads, results>>

\* The worker decodes the buffer and sends what it found; a panic ends it.
WorkerSend(task) ==
    /\ Len(completions) < maximum_hash_jobs
    /\ running' = running \ {task}
    /\ \/ /\ completions' = Append(completions,
                               [job |-> task.job, outcome |-> "Verified",
                                integrity |-> Integrity(table, task.job, task.record)])
          /\ threads' = threads
       \/ /\ "panic" \in Faults
          /\ completions' = Append(completions, [job |-> task.job, outcome |-> "WorkerPanic",
                                                 integrity |-> FALSE])
          /\ threads' = threads - 1
    /\ UNCHANGED <<table, ring, commands, results>>

\* A completion that no longer fits its ticket is dropped with an error.
poll_checksum_result ==
    /\ table.workers = "running" /\ ~table.failed /\ completions # <<>>
    /\ completions' = Tail(completions)
    /\ LET completion == Head(completions)
           bound == JobBound(table, completion.job)
       IN  /\ table' = IF bound /\ completion.outcome = "WorkerPanic"
                       THEN fail_checksum_pool(table) ELSE table
           /\ results' = results \union
                IF bound /\ completion.outcome = "Verified"
                THEN {[job |-> completion.job, verified |-> completion.integrity]} ELSE {}
    /\ UNCHANGED <<ring, commands, running, threads>>

\* The inline path, for a table without workers.
next_hash_job ==
    LET i == NextQueued(table)
    IN  /\ table.workers = "none" /\ i # NONE /\ HashBound(table, i)
        /\ table' = StartHash(table, i)
        /\ results' = results \union {[job |-> Job(table, i), verified |-> NONE]}
        /\ UNCHANGED <<ring, commands, running, completions, threads>>

run_hash_job(result) ==
    /\ result.verified = NONE /\ table.workers = "none" /\ JobBound(table, result.job)
    /\ results' = (results \ {result}) \union
         {[result EXCEPT !.verified = Integrity(table, result.job, table.tickets[result.job.ticket].record)]}
    /\ UNCHANGED <<table, ring, commands, running, completions, threads>>

CompleteHash(result) ==
    /\ result.verified # NONE
    /\ \E t \in {complete_hash(table, result)} : table' = IF t = NONE THEN table ELSE t
    /\ results' = results \ {result}
    /\ UNCHANGED <<ring, commands, running, completions, threads>>

FinishCpuDelivery(i) == Call(finish_cpu_delivery(table, i))

\* Closing the command channel lets every thread finish its tasks and end.
ShutdownChecksumWorkers ==
    /\ "shutdown" \in Faults
    /\ \E t \in {shutdown_checksum_workers(table)} \ {NONE} : table' = t
    /\ commands' = <<>> /\ running' = {} /\ completions' = <<>> /\ threads' = 0
    /\ UNCHANGED <<ring, results>>

Next ==
    \/ \E r \in DOMAIN Requests : \E source \in Catalog : Plan(r, source)
    \/ \E r \in DOMAIN Requests : \E supported \in BOOLEAN : CancelWaiter(r, supported)
    \/ \E i \in DOMAIN table.tickets : ReserveBuffer(i) \/ SubmitRead(i) \/ FinishCpuDelivery(i)
    \/ \E cqe \in ring : \/ KernelWrite(cqe) \/ CopyIntoReadDestination(cqe)
                          \/ CompleteOriginal(cqe) \/ CompleteCancel(cqe)
    \/ StartChecksumWorkers \/ dispatch_next_checksum \/ WorkerReceive
    \/ \E task \in running : WorkerSend(task)
    \/ poll_checksum_result \/ next_hash_job
    \/ \E result \in results : run_hash_job(result) \/ CompleteHash(result)
    \/ ShutdownChecksumWorkers

Spec == Init /\ [][Next]_vars

\* The step that takes a completion from the ring, a result of a ticket from
\* the authority's hands, or a completion of a worker from its channel, is the
\* handler of it; naming only what is taken keeps ENABLED cheap.
ReapRead(i) ==
    \E cqe \in ring : /\ cqe.ticket = i /\ cqe.kind = "Original" /\ ReadCompletions(cqe) # {}
                      /\ ring' = ring \ {cqe}
ReapCancel(i) ==
    \E cqe \in ring : cqe.ticket = i /\ cqe.kind = "AsyncCancel" /\ ring' = ring \ {cqe}
TakeResult(i) ==
    \E result \in results : /\ result.job.ticket = i /\ result.verified # NONE
                            /\ results' = results \ {result}
TakeCompletion ==
    /\ table.workers = "running" /\ ~table.failed /\ completions # <<>>
    /\ completions' = Tail(completions)

\* The authority keeps driving its tickets, the kernel completes what it was
\* given, and a thread with work runs.
Fairness ==
    /\ \A i \in 1..TicketBound :
         /\ WF_vars(i \in DOMAIN table.tickets /\ ReserveBuffer(i))
         /\ WF_vars(i \in DOMAIN table.tickets /\ SubmitRead(i))
         /\ WF_vars(i \in DOMAIN table.tickets /\ FinishCpuDelivery(i))
         /\ WF_vars(\E cqe \in ring : cqe.ticket = i /\ KernelWrite(cqe))
         /\ WF_ring(ReapRead(i)) /\ WF_ring(ReapCancel(i))
         /\ WF_vars(\E task \in running : task.job.ticket = i /\ WorkerSend(task))
         /\ WF_vars(\E result \in results : result.job.ticket = i /\ run_hash_job(result))
         /\ WF_results(TakeResult(i))
    /\ WF_vars(threads # 0 /\ dispatch_next_checksum) /\ WF_vars(WorkerReceive)
    /\ WF_completions(TakeCompletion) /\ WF_vars(next_hash_job)

(***************************************************************************)
(* Properties                                                              *)
(***************************************************************************)
\* Until the checksum pool has failed, every table the methods produce passes
\* the code's own validate_invariants: physical and tenant bytes, descriptors,
\* CQ entries, active buffers and hash jobs are what the tickets account for,
\* whatever order completions, cancels and checksum results arrive in.
AccountingHoldsUntilPoolFails == ~table.failed => validate_invariants(table)

\* The same at all times, also after a worker panicked or the command channel
\* was found closed.
AccountingAlwaysHolds == validate_invariants(table)

\* While the kernel owes a read or a worker holds a task, the slot it writes or
\* decodes still belongs to the same generation and is in flight or
\* quarantined: abandoning, failing or releasing a ticket never lets another
\* ticket reserve the memory under it.
NoBufferIsReusedUnderIO ==
    /\ \A cqe \in ring : cqe.kind = "Original" =>
         /\ Current(table.buffers, cqe.buffer)
         /\ table.buffers.slots[cqe.buffer.slot].state \in {"ReadInflight", "Quarantined"}
    /\ \A task \in running \union {commands[k] : k \in DOMAIN commands} :
         /\ Current(table.buffers, task.job.buffer)
         /\ table.buffers.slots[task.job.buffer.slot].state \in {"HashingForRead", "Quarantined"}

\* What finish_cpu_delivery hands out: the buffer of a verified ticket holds
\* exactly the pieces of the page its record names, never a damaged extent,
\* another page's bytes or a late kernel write.
VerifiedBytesAreThePage ==
    \A i \in DOMAIN table.tickets : table.tickets[i].state = "HashVerified" =>
        LET ticket == table.tickets[i]
        IN  /\ Current(table.buffers, ticket.buffer)
            /\ \A piece \in Pieces(ticket.record.capability) :
                 table.buffers.slots[ticket.buffer.slot].bytes[piece] = ticket.record.page_key

\* Until the checksum pool has failed, every ticket is delivered, released or
\* failed, and then removed: no order of abandonment, completion and
\* verification leaves it waiting for a call that will not come, though reads
\* fail, are cancelled or bring damaged bytes.  fail_checksum_pool is the
\* exception: it can leave a ticket no call removes (AccountingAlwaysHolds).
\* After a shutdown submit_read refuses, and a ticket without a read waits for
\* its callers to cancel: runs of this property have no "shutdown".
EveryTicketEnds ==
    \A i \in 1..TicketBound :
      i \in DOMAIN table.tickets ~> i \notin DOMAIN table.tickets \/ table.failed
=============================================================================
