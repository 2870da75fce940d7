SPECIFICATION OrderlySpec
CONSTANTS
    Investors = {v1}
    Investments = {i1}
    Terms <- RunningTerms
    StatusInputs = {"active"}
    Plan <- MCPlan
    Instalment <- MCInstalment
    Amounts = {40, 200}
    InterestPortions = {10}
    PageLimit = 100
    MaxPrincipal = 100
    MaxSeq = 4
    MaxMonth = 2
    MaxCollected = 140
    MaxClosings = 1
INVARIANTS
    ScheduleAmortisesOutstanding
    RowsInOrder
    TimelineAnnounced
PROPERTIES
    ImplementsLoanAccount
