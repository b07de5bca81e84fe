SPECIFICATION MCSpec
CONSTANTS
    Components = {"restore"}
    r1 = r1
    r2 = r2
    r3 = r3
    n1 = n1
    n2 = n2
    NONE = NONE
    Requests <- MCTwoRequests
    Catalog <- MCCatalog
    buffer_slots = 2
    descriptor_capacity = 1
    BufferGenerations = 9
    DescriptorGenerations = 9
    maximum_tickets = 2
    maximum_waiters_per_ticket = 2
    maximum_hash_jobs = 2
    maximum_physical_bytes <- MCPhysicalBytes
    maximum_logical_bytes_per_tenant <- MCTenantBytes
    worker_count = 1
    TicketBound = 2
    Faults = {"panic"}
    Commands <- MCCommands
    maximum_queued_commands = 5
    total_buffers = 4
    read_reserved_buffers = 1
    total_descriptors = 5
    read_reserved_descriptors = 2
    read_low_watermark_bytes = 1
    read_high_watermark_bytes = 2
    publication_low_watermark_commands = 1
    maximum_read_command_bytes = 2
    maximum_resume_read_bytes_before_admission_read = 3
    maximum_read_bytes_before_publication_admission = 4
    maximum_read_bytes_before_publication_service = 3
INVARIANTS
    AccountingAlwaysHolds
CHECK_DEADLOCK FALSE
