SPECIFICATION FairSpec
CONSTANTS
    qFill = qFill  qNamed = qNamed  qBad = qBad  qHalf = qHalf  qNone = qNone  qFar = qFar
    bTwo = bTwo  bLong = bLong  bNoOrg = bNoOrg  bNone = bNone
    eRun = eRun  eIdle = eIdle  eForeign = eForeign  eNone = eNone
    org1 = org1  org2 = org2  c1 = c1  c2 = c2  c3 = c3
    r1 = r1  r2 = r2  r3 = r3  p1 = p1
    NoOrg = NoOrg  NoConnector = NoConnector  NoRepo = NoRepo
    Malformed = Malformed  NoProject = NoProject
    Requests <- MCRequests
    Orgs = {org1, org2}
    Connectors = {c1, c2, c3}
    Repos = {r1, r2, r3}
    Projects = {p1}
    KindOf <- MCKindOf
    OrgOf <- MCOrgOf
    ConnectorOf <- MCConnectorOf
    NamesOf <- MCNamesOf
    ProjectOf <- MCProjectOf
    ConnectorOrg <- MCConnectorOrg
    KeyOf <- MCKeyOf
    Foreign = {eForeign}
    Local = {qFill, qNamed, qBad, qHalf, qNone, bTwo, bLong, bNoOrg, bNone, eRun, eIdle, eForeign, eNone}
    Wanted = {eRun}
    AuthEnforced = TRUE
    BatchMax = 2
    MaxChanges = 3
    MaxErrors = 1
INVARIANTS TypeOK Admitted AnswerTells
PROPERTY RequestAnswered
CHECK_DEADLOCK FALSE
