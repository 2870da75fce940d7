--------------------------- MODULE MCLedgerClaims ---------------------------
(* The claims on the ledger, with the schedule engine.                     *)
EXTENDS LedgerClaims, MCEngine

ThreeMonths == {Loan(60, 3, 0, "amortizing")}
=============================================================================
