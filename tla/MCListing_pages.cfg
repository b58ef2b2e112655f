SPECIFICATION Spec
CONSTANTS
    Readers = {r1}
    Queries <- ManyQueries
    Uids <- ThreeUids
    Emails = {e1, e2, e3}
    Names = {n1, n2}
    Passwords = {w1}
    Salts = {1}
    Sids = {s1}
    Titles = {t1}
    None = None
    Rejections = {}
    Likes <- SameNames
    Faults = TRUE
    Width = 5
    PageSize = 2
    Absent = Absent
    Junk = Junk
SYMMETRY Symmetry
INVARIANTS
    ListIsOnePage
    WalkMissesNobody
