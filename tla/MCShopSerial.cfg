SPECIFICATION LiveSpec
CONSTANTS
    s1 = s1
    s2 = s2
    adm = adm
    ann = ann
    bob = bob
    eve = eve
    root = root
    customer = customer
    empfile = empfile
    adminfile = adminfile
    N = 2
    Serial = TRUE
    MaxQuantity = 2
    MaxJobs = 2
    MaxCrashes = 0
    Sessions = {s1, s2, adm}
    Users = {ann, bob, root}
    user <- MCUser
    FileOf <- MCFileOf
    Files = {customer, adminfile}
    CustomerFile = customer
    Admins = {adm}
    AdminJobs = {"delete", "order", "modify"}
    Managed = {ann, bob}
    Signers = {ann}
    SigLimit = 1000
    goods0 <- MCGoods2
    cash0 <- MCCash
    balance0 <- MCBalance
    NewBalances = {0, 15}
    NewTerms <- MCTerms
    Empty = Empty
    Missing = Missing
    NoRecord = NoRecord
    NoBalance = NoBalance
CHECK_DEADLOCK FALSE
INVARIANT
    TypeOK
    SalesReachCash
    SpendsWithinBalance
    PriceSticks
    BanSticks
    SignUpSticks
    AccountsSurvive
PROPERTY
    Answered
    AccountsReturn
