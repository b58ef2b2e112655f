SPECIFICATION Spec
CONSTANTS
    Workload <- AnyRequest
    Procs = {p1}
    Uids = {u1, u2}
    Emails = {e1, e2}
    Names = {n1}
    Passwords = {w1}
    Salts <- SaltNumbers
    Sids = {s1}
    Titles = {t1}
    None = None
    Rejections = {"ErrInvalidData", "ErrSyntaxPrivilege"}
    SecretSet = FALSE
    Faults = TRUE
    Outliving = {p1}
SYMMETRY DataSymmetry
INVARIANTS
    TokenSubjectsRegistered
PROPERTIES
    FailuresChangeNothing
