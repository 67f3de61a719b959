SPECIFICATION VulnSpec
CONSTANTS
    sbom1 = sbom1
    sbom2 = sbom2
    everyone = everyone
    match = match
    enrich = enrich
    scan = scan
    Requests = {sbom1, sbom2, everyone, match, enrich, scan}
    Req <- MCReq
    Stock <- MCStock
    CallSites <- MCCallSites
    Catalog <- MCCatalog
    Osv <- MCOsv
    Unknown = Unknown
    AuthEnforced = TRUE
    MatchLimit = 2
    EnrichLimit = 2
    MaxBusy = 2
    MaxFailures = 0
INVARIANT ObservedWasCalled
CHECK_DEADLOCK FALSE
