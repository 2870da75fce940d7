-------------------------- MODULE OrderlyServicing --------------------------
(***************************************************************************)
(* The ledger of InvestmentLedger as the back office means to use it: the  *)
(* oldest unpaid instalment is paid first and in full, nothing is          *)
(* cancelled, and the principal of a running loan is not rewritten.  Early *)
(* repayments, new rates and terms, regenerations, sweeps, listings, loans *)
(* started in the past and removals come at any time.                      *)
(*                                                                         *)
(* Out of that order the ledger does not keep these properties; the README *)
(* says which request breaks which.                                        *)
(***************************************************************************)
EXTENDS InvestmentLedger

UnpaidSeqs(i) == {s \in DOMAIN payments[i] : payments[i][s].status # "completed"}

PayOldest(i, amount) ==
    /\ UnpaidSeqs(i) # {}
    /\ LET s == Lowest(UnpaidSeqs(i))
       IN  Completes(payments[i][s], amount) /\ MarkPaid(i, s, amount)

ChangeTerms(i, t, repriced, status) ==
    /\ t.principal = investments[i].terms.principal
    /\ UpdateTerms(i, t, repriced, status)

OrderlyRequest(i) ==
    \/ \E v \in Investors, t \in Terms, status \in StatusInputs : Create(i, v, t, status)
    \/ \E t \in Terms, repriced \in BOOLEAN : ChangeTerms(i, t, repriced, investments[i].status)
    \/ \E status \in StatusInputs : UpdateStatus(i, status)
    \/ Remove(i)
    \/ RegenerateSchedule(i)
    \/ \E amount \in Amounts \cup {payments[i][s].total : s \in DOMAIN payments[i]} :
          PayOldest(i, amount)
    \/ \E amount \in Amounts, portion \in InterestPortions : EarlyRepayment(i, amount, portion)
    \/ ListPayments(i)

OrderlyNext ==
    \/ \E i \in Investments : OrderlyRequest(i)
    \/ \E v \in Investors : RemoveInvestor(v)
    \/ SweepOverdue
    \/ MonthPasses

OrderlySpec == Init /\ [][OrderlyNext]_vars

-----------------------------------------------------------------------------
(* The account a ledger stands for. *)
Stage(state) == CASE state = "absent"  -> "none"
                  [] state = "live"    -> "open"
                  [] state = "deleted" -> "withdrawn"

Account ==
    INSTANCE LoanAccount WITH
        Loans <- Investments,
        Principals <- {t.principal : t \in Terms},
        account <- [i \in Investments |->
                        [stage |-> Stage(investments[i].state),
                         owed |-> investments[i].outstanding,
                         repaid |-> investments[i].repaid]]

(* Served in order, the ledger is a loan account: outstandingBalance only  *)
(* falls, by exactly what principalRepaid grows, although markPaid takes   *)
(* the balance from the row while it takes the repaid part from the amount *)
(* (investment.service.ts:461-495) and an early repayment computes both    *)
(* itself (583-617).                                                       *)
ImplementsLoanAccount == Account!Spec

(* The unpaid rows repay exactly what is outstanding, after any mix of     *)
(* early repayments, new terms and regenerations                           *)
(* (investment.service.ts:281-318, the principal the tail is built for).   *)
ScheduleAmortisesOutstanding ==
    \A i \in Investments :
        investments[i].state = "live" =>
            SumFunction([s \in UnpaidSeqs(i) |-> payments[i][s].principal])
                = investments[i].outstanding

(* The rows stay in order: they are numbered 1, 2, 3, ... without a gap    *)
(* ("early repayment sequences stay contiguous", investment.service.ts:588)*)
(* and the next payment the document shows is the oldest unpaid            *)
(* instalment, whatever is overdue (investment.service.ts:674-703).        *)
RowsInOrder ==
    \A i \in Investments :
        /\ DOMAIN payments[i] = 1..Cardinality(DOMAIN payments[i])
        /\ (investments[i].state = "live" /\ UnpaidSeqs(i) # {}) =>
               NextOpen(payments[i]) = Lowest(UnpaidSeqs(i))

(* Every unpaid instalment has its schedule event in the timeline ("Create *)
(* timeline rows for each unpaid installment", investment.service.ts:354), *)
(* and the timeline says "Loan Fully Repaid" exactly of the loans of which *)
(* nothing is outstanding (investment.service.ts:498-509 and 619-631).     *)
TimelineAnnounced ==
    \A i \in Investments :
        /\ UnpaidSeqs(i) \subseteq events[i]
        /\ investments[i].state # "absent" =>
               (closings[i] > 0 <=> investments[i].outstanding = 0)
=============================================================================
