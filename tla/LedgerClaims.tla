---------------------------- MODULE LedgerClaims ----------------------------
(***************************************************************************)
(* What the source says of the ledger in its messages and comments, where  *)
(* the code does something else.  Each is checked by a run that finds the  *)
(* shortest history that shows it.                                         *)
(***************************************************************************)
EXTENDS InvestmentLedger

(* "Cancelled payments cannot be marked paid" (investment.service.ts:449): *)
(* a payment whose cancellation has just been served is not payable.       *)
CancelledIsNotPayable ==
    [][\A i \in Investments, s \in 1..MaxSeq :
          (investments[i].state = "live" /\ CancelPayment(i, s)) => ~Payable(i, s)']_vars

(* "Loan Fully Repaid" (investment.service.ts:501): when the timeline says *)
(* so, the whole principal has been repaid.                                *)
FullyRepaidMeansRepaid ==
    \A i \in Investments :
        closings[i] > 0 => investments[i].repaid >= investments[i].terms.principal
=============================================================================
