SPECIFICATION Spec
CONSTANTS
    Width = 6
    PageSize = 3
    Absent = Absent
    Junk = Junk
    MaxTotal = 20
    MaxSize = 6
INVARIANTS
    LinksLeadToRows
