SPECIFICATION FairSpec
CONSTANTS
    None = None
    Methods = {"GET", "OPTIONS", "POST"}
    Tenants = {acme}
    DefaultTenant = default
INVARIANTS
    IdsOnEveryResponse
    AuditedOnce
    TenantAgrees
    ReleasedUnlessRaised
PROPERTY
    RequestAnswered
