SPECIFICATION Spec
CONSTANTS
    t1 = t1
    t2 = t2
    Threads = {t1, t2}
    m1 = m1
    m2 = m2
    Mails = {m1, m2}
    p1 = p1
    p2 = p2
    Passwords = {p1, p2}
    n1 = n1
    n2 = n2
    Names = {n1, n2}
    c1 = c1
    Codes = {c1}
    CodeAliveTimeMins = 1
    TimeInMinsForTokenToBeAlive = 1
    MaxTime = 2
    MaxUsers = 2
    MaxAccountFaults = 1
SYMMETRY Symmetry
INVARIANTS AccountsConsistent PasswordsDecide OneAccountPerMail MailedCodesProve
CHECK_DEADLOCK FALSE
