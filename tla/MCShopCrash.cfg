SPECIFICATION Spec
CONSTANTS
    s1 = s1
    s2 = s2
    adm = adm
    ann = ann
    bob = bob
    eve = eve
    root = root
    customer = customer
    empfile = empfile
    adminfile = adminfile
    N = 2
    Serial = TRUE
    MaxQuantity = 1
    MaxJobs = 2
    MaxCrashes = 2
    Sessions = {s1, s2, adm}
    Users = {ann, bob, eve, root}
    user <- MCUser
    FileOf <- MCThreeFiles
    Files = {customer, empfile, adminfile}
    CustomerFile = customer
    Admins = {adm}
    AdminJobs = {"delete"}
    Managed = {bob, eve}
    Signers = {}
    SigLimit = 1000
    goods0 <- MCGoods2
    cash0 <- MCCash
    balance0 <- MCBalances
    NewBalances = {15}
    NewTerms <- MCTerms
    Empty = Empty
    Missing = Missing
    NoRecord = NoRecord
    NoBalance = NoBalance
CHECK_DEADLOCK FALSE
INVARIANT
    Credited
    GoodsPaid
PROPERTY
    OnlyOrphansAreLost
