----------------------------- MODULE MCRequests -----------------------------
(* Requests statement by statement, with the schedule engine.              *)
EXTENDS InvestmentRequests, MCEngine, TLC

TwoMonths == {Loan(60, 2, 0, "amortizing")}

AnySlot == Permutations(Slots)
=============================================================================
