CONSTANTS
    t1 = t1
    b1 = b1
    b2 = b2
    Tenants = {t1}
    Batches = {b1, b2}
    Bulk = {b1}
    TenantOf <- MCTenantOf
    EventsOf <- MCEventsOf
    Secrets <- MCSecrets
    MaxAttempts = 2
    MaxWalk = 3
    MaxDamage = 1
    MaxPurges = 1
    Free = Free
    Logged = {"q1", "q2", "q3", "q4"}
    TenantOfEvent <- MCTenantOfEvent
    Critical = {"q3"}
    NoTenant = "nobody"
    max_queue_size = 3
    chunk_size = 2
SPECIFICATION AuditSpec
INVARIANTS ChainSound VerdictTrue CountersExact
PROPERTIES AuditSettles
CHECK_DEADLOCK FALSE
