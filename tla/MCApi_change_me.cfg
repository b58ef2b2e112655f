SPECIFICATION Spec
CONSTANTS
    Workload <- ChangeMe
    Procs = {p1}
    Uids = {u1, u2}
    Emails = {e1, e2}
    Names = {n1}
    Passwords = {w1}
    Salts <- SaltNumbers
    Sids = {s1}
    Titles = {t1, t2}
    None = None
    Rejections = {"ErrInvalidData", "ErrSyntaxPrivilege"}
    SecretSet = TRUE
    Faults = FALSE
    Outliving = {}
INVARIANTS
    NeverAborted
