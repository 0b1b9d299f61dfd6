SPECIFICATION FairCustomerSpec
CONSTANTS
    j1 = j1
    j2 = j2
    j3 = j3
    alice = alice
    carol = carol
    dave = dave
    root = root
    boss = boss
    n1 = n1
    n2 = n2
    n3 = n3
    n4 = n4
    n5 = n5
    x = x
    y = y
    NoUser = NoUser
    NoText = NoText
    NoRow = NoRow
    Jobs = {j1, j2, j3}
    Emails = {alice, carol, dave, root, boss}
    Numbers = {n1, n2, n3, n4, n5}
    Texts = {x, y}
    Workloads <- MCWorkloads
    DemoUsers <- MCDemoUsers
    OpeningRoles <- MCOpeningRoles
    OpeningNumbers <- MCOpeningNumbers
    OpeningTokens <- MCOpeningTokens
    OpeningProfiles <- MCOpeningProfiles
    OpeningBranding = NoRow
INVARIANTS
    RecordsTypeOK
    PrimaryAccount
    RegisteredOnce
    AnswersAudited
    AdminsVouched
    AuditExplainsRole
    EditsSurvive
    KycVouched
    BrandingExplained
PROPERTIES
    EveryJobEnds
    ImplementsCustomerRegistry
