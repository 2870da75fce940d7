------------------------------ MODULE MCEngine ------------------------------
(* The schedule engine as the constants Plan and Instalment of the ledger, *)
(* and loans at a tenth a month to give it.                                *)
EXTENDS ScheduleEngine

MCPlan(t, principal, months, grace) ==
    LET rows == GenerateRepaymentSchedule(
                    [t EXCEPT !.principal = principal, !.term = months, !.grace = grace])
    IN  [k \in 1..months |->
            [principal |-> rows[k].principal, interest |-> rows[k].interest,
             total |-> rows[k].total, remaining |-> rows[k].remaining]]

MCInstalment(t, principal, months) == CalculateMonthlyPayment(principal, t.rate, months)

Loan(principal, term, start, model) ==
    [principal |-> principal, rate |-> [num |-> 1, den |-> 10], term |-> term, start |-> start,
     model |-> model, grace |-> 0, balloon |-> 0]

=============================================================================
