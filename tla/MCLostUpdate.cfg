SPECIFICATION RequestsSpec
CONSTANTS
    Investors = {v1}
    Investments = {i1}
    Terms <- TwoMonths
    StatusInputs = {"active"}
    Plan <- MCPlan
    Instalment <- MCInstalment
    Amounts = {20}
    InterestPortions = {0}
    PageLimit = 100
    MaxPrincipal = 60
    MaxSeq = 6
    MaxMonth = 0
    MaxCollected = 0
    MaxClosings = 0
    Slots = {r1, r2}
    MaxRequests = 3
PROPERTIES
    RepaidNeverFalls
