SPECIFICATION Spec
CONSTANTS
    l1 = l1
    l2 = l2
    f1 = f1
    f2 = f2
    a = a
    s = s
    x = x
    r1 = r1
    Calls = {l1, l2}
    Files = {f1, f2}
    Lines = {a, s, x}
    Source <- const_Source
    Proposals <- const_Proposals
    r2 = r2
    Cwe = Cwe
    Sql = Sql
    Reports <- const_Reports
    Unknown = Unknown
    NoVerdict = NoVerdict
    Finding <- const_Finding
    Rescanned = {l1}
    Edits <- const_Edits
    MaxEdits = 1
    Untouched = Untouched
    NoCall = NoCall
INVARIANTS WritesAreApproved ApprovedPatch RollbackIsByteExact VerifiedMeansFixed
PROPERTY EveryCallEnds
CHECK_DEADLOCK FALSE
