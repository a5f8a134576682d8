CONSTANTS
    Statements <- OrdinaryStatements
    Nothing = Nothing
SPECIFICATION WalkSpec
CHECK_DEADLOCK FALSE
 
INVARIANT ExecutedIsLearned
