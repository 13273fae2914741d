SPECIFICATION WorkflowSpec
CONSTANTS
    Invocations = {i1, i2}
    SupplierCount = 2
    MaximumCalls = 2
    MaximumAttempts = 2
    MaximumPolls = 2
    EndOfTime = 9
    StockoutAt = 1
    Required = 10
    Policy <- MCPolicy
    RateToEur <- MCRateToEur
    Answers <- MCAnswers
    Inputs <- MCInputs
    Reports <- MCQuotes
    Instants = {0, 1}
    NotPlaced = NotPlaced
    Ringing = Ringing
    Nothing = Nothing
CHECK_DEADLOCK FALSE
INVARIANT
    OrderIsCheapest
