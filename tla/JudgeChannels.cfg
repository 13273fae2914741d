SPECIFICATION MCSpec
CONSTANTS
    Runs = {r1, r2}
    Decisions = {d1}
    Voices = {v1}
    Unset = Unset
    Numerals <- MCNumerals
    Ones <- MCOnes
    Tens <- MCTens
    Stem <- MCStem
    Catalog <- MCCatalog
    Nothing = Nothing
    Sentences <- MCSentences
    Mission <- MCMission
    MaxTurns = 3
INVARIANTS
    PurchaseIsShown
    HeardAsSaid
    YesBuysLastOffer
    CallIsOneRun
PROPERTY RunSettles
CHECK_DEADLOCK FALSE
