SPECIFICATION Spec
CONSTANTS
    s1 = s1
    s2 = s2
    adm = adm
    ann = ann
    bob = bob
    eve = eve
    root = root
    customer = customer
    empfile = empfile
    adminfile = adminfile
    N = 1
    Serial = FALSE
    MaxQuantity = 1
    MaxJobs = 3
    MaxCrashes = 1
    Sessions = {s1, adm}
    Users = {ann, bob, root}
    user <- MCUser
    FileOf <- MCFileOf
    Files = {customer, adminfile}
    CustomerFile = customer
    Admins = {adm}
    AdminJobs = {"balance", "order", "modify"}
    Managed = {ann}
    Signers = {ann}
    SigLimit = 10
    goods0 <- MCGoods1
    cash0 <- MCCash
    balance0 <- MCBalance
    NewBalances = {0, 15}
    NewTerms <- MCTerms
    Empty = Empty
    Missing = Missing
    NoRecord = NoRecord
    NoBalance = NoBalance
CHECK_DEADLOCK FALSE
INVARIANT
    NonNegative
    BooksBalance
