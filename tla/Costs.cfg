\* True costs that are nearly equal to, 1% above and more than 1% above 200
CONSTANTS
    Features <- MCFeatures
    Threshold = 10000
    EstCosts = {1, 2}
    TrueCosts = {200, 202, 203}
    Rows = 3
    K = 2
    MaxLearned = 4
SPECIFICATION Spec
INVARIANT BestWithinRate
INVARIANT NeighboursAreNearest
 
