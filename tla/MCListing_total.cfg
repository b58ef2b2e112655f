SPECIFICATION Spec
CONSTANTS
    Readers = {r1}
    Queries <- AllUsers
    Uids <- TwoUids
    Emails = {e1, e2}
    Names = {n1}
    Passwords = {w1}
    Salts = {1}
    Sids = {s1}
    Titles = {t1}
    None = None
    Rejections = {}
    Likes <- SameNames
    Faults = FALSE
    Width = 5
    PageSize = 2
    Absent = Absent
    Junk = Junk
INVARIANTS
    TotalCountsList
