SPECIFICATION FaultySpec
CONSTANTS
    Investors = {v1}
    Investments = {i1}
    Terms <- TwoMonths
    StatusInputs = {"active"}
    Plan <- MCPlan
    Instalment <- MCInstalment
    Amounts = {31}
    InterestPortions = {0}
    PageLimit = 100
    MaxPrincipal = 60
    MaxSeq = 6
    MaxMonth = 2
    MaxCollected = 0
    MaxClosings = 0
    Slots = {r1, r2}
    MaxRequests = 4
    MaxFailing = 3
INVARIANTS
    RequestsTypeOK
    RegenerationRepairs
PROPERTIES
    FailuresLeaveRowsSound
SYMMETRY AnySlot
