-------------------------- MODULE MCSerialRequests --------------------------
(* Requests one at a time, with the schedule engine.                       *)
EXTENDS SerialRequests, MCEngine

TwoMonths == {Loan(60, 2, 0, "amortizing")}
Repriced == TwoMonths \cup {Loan(60, 3, 0, "amortizing")}
=============================================================================
