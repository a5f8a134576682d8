\* Four paths of a scan, of a join and of the final relation, in any order
SPECIFICATION MCSpec
CONSTANTS
    Rels <- MCRels
    BestPreds = {0, 11950}
    Fractions <- MCFractions
    MaxPaths = 4
    NoPath = NoPath
INVARIANTS SortedByTotal CoverKept PrecheckAgreesOnInputs BalancedIsPareto
    ChosenIsBest
