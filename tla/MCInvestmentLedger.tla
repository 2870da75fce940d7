------------------------ MODULE MCInvestmentLedger -------------------------
(* The ledger with the schedule engine, on loans of a cent to a unit.      *)
EXTENDS InvestmentLedger, MCEngine

ThreeMonths == {Loan(60, 3, 0, "amortizing")}
=============================================================================
