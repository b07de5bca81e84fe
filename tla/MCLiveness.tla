----------------------------- MODULE MCLiveness -----------------------------
(***************************************************************************)
(* What must eventually happen, on instances small enough for liveness     *)
(* checking.  Four components that wait on threads or on the kernel are    *)
(* started, and only one of them moves in a behaviour:                     *)
(*                                                                         *)
(*   "backend"  one client against the runtime loop;                       *)
(*   "pool"     one caller and two ranks that fail, panic or time out;     *)
(*   "prefix"   two requests restoring single pages from readers that      *)
(*              opened before an upgrade, or before a page was published;  *)
(*   "tickets"  two requests of two tenants on the direct tier, whose      *)
(*              reads fail, are cancelled or bring damaged bytes, and      *)
(*              whose checksum worker may panic.                           *)
(***************************************************************************)
EXTENDS DirectRestore

CONSTANTS ta, tb, q1, q2, r0, r1

VARIABLES
    component,
    state_word, queue, dispatcher, pool_ranks, callers, calls, handle,       \* WorkerPool
    index, ranks, services, published, pending, leases,                      \* PrefixRestore
    conn, got, owners, cancellations, fatal, shutdown, queued_commands,      \* ServingBackend
    disconnected, channel, sender, receiver, pc, quota, progressed, polls, drained, closing,
    active, pending_admissions, coordinator, generated, events, counters

poolVars == <<state_word, queue, dispatcher, pool_ranks, callers, calls, handle>>
prefixVars == <<index, ranks, services, published, pending, leases>>
backendVars ==
    <<conn, got, owners, cancellations, fatal, shutdown, queued_commands, disconnected, channel,
      sender, receiver, pc, quota, progressed, polls, drained, closing, active,
      pending_admissions, coordinator, generated, events, counters>>

MCRequests ==
    q1 :> [tenant_id |-> ta, required_capability |-> "Mtp"]
      @@ q2 :> [tenant_id |-> tb, required_capability |-> "Target"]
ExtentOf(key, capability, offset) ==
    [record |-> encode_direct_extent(key, 1, 1, offset, [p \in Pieces(capability) |-> key]).record,
     epoch |-> 1]
MCCatalog == {ExtentOf(1, "Mtp", 0), ExtentOf(2, "Target", 4 * DIRECT_IO_ALIGNMENT)}
MCPhysicalBytes == physical_bytes("Mtp") + physical_bytes("Target")
MCTenantBytes == logical_bytes("Mtp")

Backend == INSTANCE ServingBackend WITH
             commands <- queued_commands,
             Clients <- {1}, connection_queue_capacity <- 1, connection_workers <- 1,
             command_capacity <- 1, maximum_commands_per_tick <- 1,
             completion_event_capacity <- 1, MaximumOutput <- 1, RefusedCancellations <- {FALSE}

Pool == INSTANCE WorkerPool WITH
          ranks <- pool_ranks,
          Ranks <- {r0, r1}, Callers <- {q1}, maximum_outstanding <- 1, Calls <- 2, MaxStep <- 1,
          Kinds <- {"Initialize", "Execute", "LoadWeights"},
          Faults <- {"load", "release", "panic", "timeout", "execute"}

TargetRecord == [mtp |-> FALSE, generation |-> 1]
MtpRecord == [mtp |-> TRUE, generation |-> 2]
PrefixBatches ==
    {[tokens |-> <<ta>>, records |-> <<TargetRecord>>],
     [tokens |-> <<ta>>, records |-> <<MtpRecord>>]}
StaleCatalogs == {(<<ta>> :> TargetRecord), (<<ta>> :> NONE)}

Prefixes == INSTANCE PrefixRestore WITH
            PageKeys <- {<<ta>>}, Records <- {TargetRecord, MtpRecord},
            Prompts <- {<<ta>>}, Batches <- PrefixBatches, Catalogs <- StaleCatalogs,
            RequestIds <- {q1, q2}, HbmBytes <- 2, DramBytes <- 1, TargetBytes <- 1,
            DraftBytes <- 1, MaximumOutstanding <- 1

MCInit ==
    /\ component \in {"backend", "pool", "prefix", "tickets"}
    /\ Init /\ Backend!Init /\ Pool!Init /\ Prefixes!Init
    /\ component # "prefix" => published[<<ta>>] # NONE

MCNext ==
    \/ /\ component = "backend" /\ Backend!Next
       /\ UNCHANGED <<component, vars, poolVars, prefixVars>>
    \/ /\ component = "pool" /\ Pool!Next
       /\ UNCHANGED <<component, vars, backendVars, prefixVars>>
    \/ /\ component = "prefix" /\ Prefixes!Next
       /\ UNCHANGED <<component, vars, backendVars, poolVars>>
    \/ /\ component = "tickets" /\ Next
       /\ UNCHANGED <<component, backendVars, poolVars, prefixVars>>

\* The component that moves is scheduled as its module says.
MCFairness ==
    \/ component = "backend" /\ Backend!Fairness
    \/ component = "pool" /\ Pool!Fairness
    \/ component = "prefix" /\ Prefixes!Fairness
    \/ component = "tickets" /\ Fairness

MCSpec ==
    /\ MCInit /\ [][MCNext]_<<component, vars, backendVars, poolVars, prefixVars>>
    /\ MCFairness

\* A caller of the worker pool, and a client whose connection was accepted, is
\* answered without waiting for its own deadline, whatever fails on the ranks
\* or in the runtime; a pool that is dropped joins its threads.
CallersAreAnswered == Pool!CallsAreAnswered /\ Backend!ConnectionsAreAnswered

\* A prefix restore becomes ready or fails, though its pages may be stale or
\* missing in the store.  A direct-tier ticket is delivered, released or failed,
\* and then removed, though its read fails, is cancelled or brings damaged
\* bytes, unless the checksum pool fails: fail_checksum_pool can leave a ticket
\* that no call removes.  There is no shutdown here: after one, submit_read
\* refuses and a ticket waits for its callers to cancel.
RestoresEnd == Prefixes!RestoresEnd /\ EveryTicketEnds
=============================================================================
