CONSTANTS
    a1 = a1
    a2 = a2
    Admins <- MCAdmins
    Ids <- MCIds
    Setups <- MCSetups
SPECIFICATION ConfigSpec
INVARIANTS StoreHolds SavedWhenQuiet DeletedStaysDeleted ReadersTold
