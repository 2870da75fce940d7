------------------------ MODULE MCOrderlyServicing -------------------------
(* Orderly servicing, with the schedule engine.                            *)
EXTENDS OrderlyServicing, MCEngine

RunningTerms == {Loan(100, 3, 0, "amortizing"), Loan(100, 2, 0, "bullet")}
=============================================================================
