SPECIFICATION Spec
CONSTANTS
    Investors = {v1}
    Investments = {i1}
    Terms <- ThreeMonths
    StatusInputs = {"active"}
    Plan <- MCPlan
    Instalment <- MCInstalment
    Amounts = {20}
    InterestPortions = {10}
    PageLimit = 100
    MaxPrincipal = 60
    MaxSeq = 3
    MaxMonth = 2
    MaxCollected = 65
    MaxClosings = 1
INVARIANTS
    TypeOK
    LedgerCoversRows
    NextPaymentFresh
    AtMostOneUpcoming
    LastRowClears
PROPERTIES
    CompletedRowsFinal
