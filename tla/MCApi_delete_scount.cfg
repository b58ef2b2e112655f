SPECIFICATION Spec
CONSTANTS
    Workload <- CreateDelete
    Procs = {p1}
    Uids = {u1, u2}
    Emails = {e1, e2}
    Names = {n1}
    Passwords = {w1}
    Salts <- SaltNumbers
    Sids = {s1}
    Titles = {t1, t2}
    None = None
    Rejections = {}
    SecretSet = TRUE
    Faults = FALSE
    Outliving = {}
PROPERTIES
    DeleteScountRemoves
