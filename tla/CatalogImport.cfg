SPECIFICATION ImportSpec
CONSTANTS
    r1 = r1
    r2 = r2
    r3 = r3
    h1 = h1
    h2 = h2
    b1 = b1
    b2 = b2
    Admins = {a1, a2}
    ConfirmationKeys = {k1}
    Calls = {c1, c2}
    Raws = {r1, r2, r3}
    FirstRaw = r1
    CatalogOf <- MCCatalogOf
    BodyOf <- MCBodyOf
    MaxRequests = 5
    MaxMoves = 3
    Absent = Absent
INVARIANTS
    ImportedAsReviewed
    ReceiptsTruthful
PROPERTY ImportedOnce
SYMMETRY CallSymmetry
CHECK_DEADLOCK FALSE
