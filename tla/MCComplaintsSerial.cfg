SPECIFICATION LiveSpec
CONSTANTS
    s1 = s1
    s2 = s2
    s3 = s3
    c1 = c1
    c2 = c2
    Clients = {c1, c2}
    Texts = {t1, t2}
    Answers = {a1}
    NoAnswer = NoAnswer
    Zero = Zero
    None = None
    Customers = {s1, s2, s3}
    who <- MCThree
    Employees = {e1}
    Serial = TRUE
    MaxRecords = 2
INVARIANT
    OneEach
PROPERTY
    AnswerSticks
    ImplementsBook
    Replied
