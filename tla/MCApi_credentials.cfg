SPECIFICATION Spec
CONSTANTS
    Workload <- AccountWorkload
    Procs = {p1, p2}
    Uids = {u1}
    Emails = {e1}
    Names = {n1}
    Passwords = {w1, w2}
    Salts <- SaltNumbers
    Sids = {s1}
    Titles = {t1}
    None = None
    Rejections = {"ErrInvalidData"}
    SecretSet = FALSE
    Faults = TRUE
    Outliving = {p2}
SYMMETRY DataSymmetry
INVARIANTS
    HandlersRemember
PROPERTIES
    AcknowledgedWritesDone
    PasswordChangesGenuine
    CredentialsAtomic
