CONSTANTS
    t1 = t1
    t2 = t2
    Threads <- MCThreads
    Ids <- MCIds
    Setups <- MCSetups
SPECIFICATION Spec
INVARIANTS  ToldAsAsked FileFollows ListedAsInstalled
