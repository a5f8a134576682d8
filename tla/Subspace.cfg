\* Lists of up to three clauses of every kind
CONSTANTS
    ClauseLists <- MixedLists
    CommutesConst = FALSE
    None = None
SPECIFICATION Spec
INVARIANT ClassesAreConnected
INVARIANT FeaturesAreExact
INVARIANT SameSubspace
