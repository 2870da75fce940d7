SPECIFICATION Spec
CONSTANTS
    Investors = {v1}
    Investments = {i1}
    Terms <- ThreeMonths
    StatusInputs = {"active"}
    Plan <- MCPlan
    Instalment <- MCInstalment
    Amounts = {20}
    InterestPortions = {0}
    PageLimit = 100
    MaxPrincipal = 100
    MaxSeq = 4
    MaxMonth = 2
    MaxCollected = 140
    MaxClosings = 1
PROPERTIES
    CancelledIsNotPayable
