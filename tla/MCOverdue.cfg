SPECIFICATION FairSpec
CONSTANTS
    Investors = {v1}
    Investments = {i1}
    Terms <- ThreeMonths
    StatusInputs = {"active"}
    Plan <- MCPlan
    Instalment <- MCInstalment
    Amounts = {20}
    InterestPortions = {0}
    PageLimit = 1
    MaxPrincipal = 100
    MaxSeq = 3
    MaxMonth = 3
    MaxCollected = 45
    MaxClosings = 1
PROPERTIES
    LateRowsFlagged
