SPECIFICATION Spec
CONSTANTS
    s1 = s1
    s2 = s2
    s3 = s3
    c1 = c1
    c2 = c2
    Clients = {c1, c2}
    Texts = {t1}
    Answers = {a1}
    NoAnswer = NoAnswer
    Zero = Zero
    None = None
    Customers = {s1, s2}
    who <- MCWho
    Employees = {e1}
    Serial = FALSE
    MaxRecords = 2
PROPERTY
    AnswerSticks
