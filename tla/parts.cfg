SPECIFICATION PartsSpec
CONSTANTS
    Reports <- MCReports
    NoNumber = NoNumber
    Huge = Huge
    NoTail = NoTail
    NoVersion = NoVersion
    Texts <- MCTexts
    Zero <- Beginning
    Commits <- MCCommits
    Rank <- MCRank
    MaxRead = 3
    Packages = {"p", "q"}
    Checkouts <- MCCheckouts
    NoText = NoText
    MaxDeps = 3
    Replicas = {r1, r2}
    HubRows = {1, 2}
    KeyOf <- MCKeyOf
    HubColumns = {"shared", "hub only"}
    ProductColumns = {"shared", "product only"}
    Engines = {"plain", "replacing"}
    MaxOwn = 2
    MaxBoots = 3
    MaxAccidents = 1
    sbom1 = sbom1
    sbom2 = sbom2
    everyone = everyone
    match = match
    enrich = enrich
    scan = scan
    Requests = {sbom1, sbom2, everyone, match, enrich, scan}
    Req <- MCReq
    Stock <- MCStock
    CallSites <- MCCallSites
    Catalog <- MCCatalog
    Osv <- MCOsv
    Unknown = Unknown
    AuthEnforced = FALSE
    MatchLimit = 2
    EnrichLimit = 2
    MaxBusy = 2
    MaxFailures = 1
SYMMETRY MCSymmetry
INVARIANTS
    PartsTypeOK
    MeanOfMeasured PerfectMeansNoPenalty
    NearestUpgrade GitFixIsTold LowestIntroduction LikelyAgrees
    PlainPinsCollected
    CopiedOnce LegacyPresent
    IngestMatched ObservedHasSite
CHECK_DEADLOCK FALSE
