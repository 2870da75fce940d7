SPECIFICATION SerialSpec
CONSTANTS
    Investors = {v1}
    Investments = {i1}
    Terms <- Repriced
    StatusInputs = {"active"}
    Plan <- MCPlan
    Instalment <- MCInstalment
    Amounts = {20}
    InterestPortions = {10}
    PageLimit = 1
    MaxPrincipal = 60
    MaxSeq = 6
    MaxMonth = 2
    MaxCollected = 0
    MaxClosings = 0
    Slots = {r1}
    MaxRequests = 4
PROPERTIES
    ServesLedger
