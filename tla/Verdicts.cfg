CONSTANTS
    Nothing = Nothing
    KgTypes = {1, 2}
    KgRelations <- MCKgRelations
    KgFiles <- MCKgFiles
    KgGold <- MCKgGold
    KgCommands = 4
    Blank = Blank
    CatProfiles <- MCCatProfiles
    CatSeeds <- MCCatSeeds
    CatSpecs <- MCCatSpecs
    CatLists <- MCCatLists
    CatCounts = {2}
    CatBudget <- MCCatBudget
    CatStock <- MCCatStock
    CatActs = 3
    Idle = Idle
    ExCases <- MCExCases
    ExRuns = 2
    Absent = Absent
    h1 = h1
    h2 = h2
    h3 = h3
    h4 = h4
    h5 = h5
    PrHeads = {h1, h2, h3, h4, h5}
    PrFacts <- MCPrFacts
    PrPlans <- MCPrPlans
SPECIFICATION VerdictsSpec
INVARIANTS
    GraphAnchored
    FusionCarriedOut
    CatalogueSound
    PassEarned
    
    VerdictEarned
PROPERTIES
    FusionTraced
    GraphNeverBackwards
CHECK_DEADLOCK FALSE
