SPECIFICATION Spec
CONSTANTS
    Callers = {p1, p2}
    Workload <- AllCalls
    Uids = {u1, u2}
    Emails = {e1, e2}
    Names = {n1}
    Passwords = {w1}
    Salts = {1}
    Sids = {s1}
    Titles = {t1}
    None = None
    Rejections = {}
    Faults = TRUE
    Slots = {c1}
SYMMETRY Symmetry
INVARIANTS
    TxTypeOK
    Integrity
PROPERTIES
    CallsAtomic
