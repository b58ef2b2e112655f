SPECIFICATION Spec
CONSTANTS
    Workload <- ScountWorkload
    Procs = {p1, p2}
    Uids = {u1, u2}
    Emails = {e1, e2}
    Names = {n1}
    Passwords = {w1}
    Salts <- SaltNumbers
    Sids = {s1, s2}
    Titles = {t1}
    None = None
    Rejections = {"ErrInvalidData"}
    SecretSet = TRUE
    Faults = FALSE
    Outliving = {}
SYMMETRY Symmetry
INVARIANTS
    TypeOK
    Integrity
    EveryScountHasMember
PROPERTIES
    AcknowledgedWritesDone
    ScountsChangeAsRequested
