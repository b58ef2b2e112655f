SPECIFICATION FairSpec
CONSTANTS
    Callers = {p1, p2}
    Workload <- WaitingCalls
    Uids = {u1, u2}
    Emails = {e1}
    Names = {n1}
    Passwords = {w1}
    Salts = {1}
    Sids = {s1}
    Titles = {t1}
    None = None
    Rejections = {"ErrInvalidData"}
    Faults = TRUE
    Slots = {c1, c2}
PROPERTIES
    SomeCallAnswered
