SPECIFICATION MCFairSpec
CONSTANTS
    Invocations = {i1, i2}
    SupplierCount = 2
    MaximumCalls = 2
    MaximumAttempts = 2
    MaximumPolls = 2
    EndOfTime = 9
    StockoutAt = 10
    Required = 10
    Policy <- MCPolicy
    RateToEur <- MCRateToEur
    Answers <- MCAnswers
    Inputs <- MCInputs
    Reports <- MCReports
    Instants = {0, 1}
    NotPlaced = NotPlaced
    Ringing = Ringing
    Nothing = Nothing
    Persona <- MCPersona
    TestData <- MCTestData
    Rfqs = {q1, q2}
    Codes = {k1}
    Callers = {c1}
    Qualification = q1
    Missing = Missing
    RfqTTL = 1
    MaxClock = 1
    MaxAsks = 2
CHECK_DEADLOCK FALSE
INVARIANTS
    CodesLeadHome
    HeardAsPinned
    OnlyAvailableComplies
    HistoryFollowsTable
    OneVerdict
    OrderIsEarned
PROPERTIES
    CancelIsFinal
    RunsAreRecorded
