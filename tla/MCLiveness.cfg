SPECIFICATION MCSpec
CONSTANTS
    ta = ta
    tb = tb
    q1 = q1
    q2 = q2
    r0 = r0
    r1 = r1
    NONE = NONE
    Requests <- MCRequests
    Catalog <- MCCatalog
    buffer_slots = 2
    descriptor_capacity = 1
    BufferGenerations = 9
    DescriptorGenerations = 9
    maximum_tickets = 2
    maximum_waiters_per_ticket = 2
    maximum_hash_jobs = 2
    maximum_physical_bytes <- MCPhysicalBytes
    maximum_logical_bytes_per_tenant <- MCTenantBytes
    worker_count = 1
    TicketBound = 2
    Faults = {"damage", "fail", "cancelled", "panic"}
PROPERTIES
    CallersAreAnswered
    
CHECK_DEADLOCK FALSE
