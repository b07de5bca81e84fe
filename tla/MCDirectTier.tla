---------------------------- MODULE MCDirectTier ----------------------------
(***************************************************************************)
(* The direct NVMe tier on small instances.  The restore table and the     *)
(* order of I/O share no state, so only one of them moves in a behaviour:  *)
(*                                                                         *)
(*   "restore"  three requests of two tenants, one of which only needs the *)
(*              target pieces, over an MTP page and a target-only page;    *)
(*   "io"       reads of one and two units, two publications and a cleaner *)
(*              over four buffers of which one is reserved for reads, so   *)
(*              that a candidate waits behind reads while a buffer is      *)
(*              free, and five descriptors.                                *)
(***************************************************************************)
EXTENDS DirectIoScheduler, TLC

CONSTANTS
    Components,   \* the components this run starts
    r1, r2, r3, n1, n2,
    Requests, Catalog, buffer_slots, descriptor_capacity, BufferGenerations,       \* of DirectRestore
    DescriptorGenerations, maximum_tickets, maximum_waiters_per_ticket, maximum_hash_jobs,
    maximum_physical_bytes, maximum_logical_bytes_per_tenant, worker_count, TicketBound, Faults

VARIABLES
    component,
    table, ring, commands, running, completions, threads, results    \* of DirectRestore

restoreVars == <<table, ring, commands, running, completions, threads, results>>

Extent == INSTANCE DirectExtent

MCRequests ==
    r1 :> [tenant_id |-> n1, required_capability |-> "Mtp"]
      @@ r2 :> [tenant_id |-> n1, required_capability |-> "Target"]
      @@ r3 :> [tenant_id |-> n2, required_capability |-> "Target"]
MCTwoRequests ==
    r1 :> [tenant_id |-> n1, required_capability |-> "Mtp"]
      @@ r2 :> [tenant_id |-> n2, required_capability |-> "Target"]

MtpPage ==
    Extent!encode_direct_extent(1, 1, 1, 0, [p \in Extent!Pieces("Mtp") |-> 1]).record
TargetPage ==
    Extent!encode_direct_extent(2, 1, 1, 4 * Extent!DIRECT_IO_ALIGNMENT,
                                [p \in Extent!Pieces("Target") |-> 2]).record
MCCatalog == {[record |-> MtpPage, epoch |-> 1], [record |-> TargetPage, epoch |-> 1]}

\* Room for one charge of a tenant.
MCTenantBytes == Extent!logical_bytes("Mtp")
MCPhysicalBytes == Extent!physical_bytes("Mtp") + Extent!physical_bytes("Target")

Command(id, class, order, bytes) ==
    [command_id |-> id, class |-> class, order |-> order, bytes |-> bytes]
MCCommands ==
    {Command(1, "ResumeRead", 1, 1), Command(2, "ResumeRead", 2, 2), Command(3, "AdmissionRead", 1, 2),
     Command(4, "AdmissionRead", 2, 1), Command(5, "PublicationWrite", 1, 1),
     Command(6, "PublicationWrite", 2, 1), Command(7, "CleanerWrite", 1, 1)}

Restore == INSTANCE DirectRestore

ASSUME IoConfigurationIsValid == validate_config /\ LimitsAreBytes /\ CommandsAreSized

MCInit == component \in Components /\ Restore!Init /\ Init

MCNext ==
    \/ component = "restore" /\ Restore!Next /\ UNCHANGED <<component, vars>>
    \/ component = "io" /\ Next /\ UNCHANGED <<component, restoreVars>>

MCSpec == MCInit /\ [][MCNext]_<<component, restoreVars, vars>>

\* While the kernel owes a read or a worker holds a task, the slot it writes or
\* decodes is reserved by no other ticket of DirectRestoreTable.
NoBufferIsReusedUnderIO == Restore!NoBufferIsReusedUnderIO

\* What finish_cpu_delivery hands out are the pieces of the page its record
\* names.
VerifiedBytesAreThePage == Restore!VerifiedBytesAreThePage

\* Until the checksum pool has failed, every table passes validate_invariants.
AccountingHoldsUntilPoolFails == Restore!AccountingHoldsUntilPoolFails

\* The same at all times, also after a worker panicked or the command channel
\* was found closed (fail_checksum_pool).
AccountingAlwaysHolds == Restore!AccountingAlwaysHolds
=============================================================================
