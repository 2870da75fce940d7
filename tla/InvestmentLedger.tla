------------------------- MODULE InvestmentLedger --------------------------
(***************************************************************************)
(* The investment ledger, src/services/investment.service.ts with the      *)
(* repositories it writes through and InvestorService.syncTotals.          *)
(*                                                                         *)
(* An action is a whole request (or a whole sweep of the cron): here each  *)
(* runs to its end before the next one starts.  A document is a record, a  *)
(* collection a function, and the payments of an investment are a partial  *)
(* function from sequence numbers, so that the unique index on             *)
(* {investment, sequence} is what a function is.                           *)
(*                                                                         *)
(* Money is in cents and a date is the index of its month, as in           *)
(* ScheduleEngine.  The engine itself is the constant Plan, of which    *)
(* this module assumes only the contract PlanAssumption; the model checker *)
(* is given the engine of ScheduleEngine.                                  *)
(***************************************************************************)
EXTENDS Integers, FiniteSets, Functions

CONSTANTS
    Investors, Investments,
    Terms,          \* the schedule fields a request may carry, as one record
    StatusInputs,   \* the statuses a request may carry
    Plan(_, _, _, _),       \* terms, principal, months, grace -> rows
    Instalment(_, _, _),    \* terms, principal, months -> calculateMonthlyPayment
    Amounts,        \* the amounts a request may carry
    InterestPortions,       \* the interestPortion an early repayment may carry
    PageLimit,      \* the most documents findMany ever returns
    MaxPrincipal,   \* bound: no principal is larger
    MaxSeq,         \* bound: no sequence number is larger
    MaxMonth,       \* bound: the calendar stops there
    MaxCollected,   \* bound: no ledger collects more
    MaxClosings     \* bound: no loan is announced closed more often

Statuses == {"pending", "active", "matured", "closed"}

(* The row statuses markOverdue sweeps, and those deleteUnpaid spares. *)
Awaited == {"scheduled", "upcoming", "future"}
Paid    == {"completed", "partially_paid"}
RowStatuses == Awaited \cup Paid \cup {"overdue", "cancelled"}

Money == 0..MaxPrincipal

Row == [due : Nat, principal : Nat, interest : Nat, total : Nat,
        remaining : Money, amountPaid : Nat, status : RowStatuses]

PlanRow == [principal : Nat, interest : Nat, total : Nat, remaining : Money]

ASSUME BoundsAssumption ==
    /\ MaxPrincipal \in Nat /\ MaxSeq \in Nat \ {0} /\ MaxMonth \in Nat /\ MaxCollected \in Nat
    /\ MaxClosings \in Nat
    /\ PageLimit \in Nat \ {0}
    /\ IsFiniteSet(Investments) /\ Cardinality(Investments) <= PageLimit
    /\ Investors # {}
    /\ Amounts \subseteq Nat \ {0} /\ InterestPortions \subseteq Nat
    /\ StatusInputs \subseteq Statuses

ASSUME TermsAssumption ==
    /\ Terms # {}
    /\ \A t \in Terms : /\ t.principal \in 1..MaxPrincipal
                        /\ t.term \in 1..MaxSeq
                        /\ t.start \in Nat /\ t.grace \in Nat

(* The contract of the schedule engine: as many rows as months, a total    *)
(* that is the sum of its parts, balances that fall by the principal paid  *)
(* and never exceed what was lent, and a last row that clears.             *)
ASSUME PlanAssumption ==
    \A t \in Terms, p \in 1..MaxPrincipal, n \in 1..MaxSeq : \A g \in {0, t.grace} :
        LET plan == Plan(t, p, n, g)
        IN  /\ plan \in [1..n -> PlanRow]
            /\ \A k \in 1..n :
                  /\ plan[k].total = plan[k].principal + plan[k].interest
                  /\ plan[k].principal + plan[k].remaining =
                        (IF k = 1 THEN p ELSE plan[k - 1].remaining)
            /\ plan[n].remaining = 0

ASSUME InstalmentAssumption ==
    \A t \in Terms : \A p \in 1..MaxPrincipal, n \in 1..MaxSeq : Instalment(t, p, n) \in Nat

NoDue == 0      \* nextPaymentDate: null; instalments fall due from month 1 on

VARIABLES
    today,          \* the month the clock shows
    investors,      \* investor -> its document
    investments,    \* investment -> its document
    payments,       \* investment -> sequence -> its payment row
    events,         \* investment -> the rows that have a schedule timeline event
    closings        \* investment -> how many LOAN_CLOSED timeline events it has

vars == <<today, investors, investments, payments, events, closings>>

Absent ==
    [state |-> "absent", investor |-> CHOOSE v \in Investors : TRUE,
     terms |-> CHOOSE t \in Terms : TRUE, outstanding |-> 0, repaid |-> 0, earned |-> 0,
     status |-> "pending", monthly |-> 0, nextDue |-> NoDue]

Init ==
    /\ today = 0
    /\ investors = [v \in Investors |-> [live |-> TRUE, invested |-> 0, outstanding |-> 0]]
    /\ investments = [i \in Investments |-> Absent]
    /\ payments = [i \in Investments |-> << >>]
    /\ events = [i \in Investments |-> {}]
    /\ closings = [i \in Investments |-> 0]

-----------------------------------------------------------------------------
(* Sets of numbers, rows.                                                  *)
Smaller(a, b) == IF a <= b THEN a ELSE b
Minus(a, b)   == IF a >= b THEN a - b ELSE 0        \* Math.max(0, a - b)

Lowest(S)  == CHOOSE s \in S : \A u \in S : s <= u
Highest(S) == IF S = {} THEN 0 ELSE CHOOSE s \in S : \A u \in S : u <= s

WithStatus(row, status) == [row EXCEPT !.status = status]

(* findByInvestment: the first page of the rows, by sequence. *)
Visible(rows) ==
    {s \in DOMAIN rows : Cardinality({u \in DOMAIN rows : u < s}) < PageLimit}

(* deleteUnpaidByInvestment *)
PaidOnly(rows) == Restrict(rows, {s \in DOMAIN rows : rows[s].status \in Paid})

(* Mutant: future rows are not swept. *)
MarkedOverdueButFuture(rows) ==
    [s \in DOMAIN rows |->
        IF rows[s].due < today /\ rows[s].status \in {"scheduled", "upcoming"}
        THEN WithStatus(rows[s], "overdue") ELSE rows[s]]

(* markOverdue, the same update in the service and in the cron. *)
MarkedOverdue(rows) ==
    [s \in DOMAIN rows |->
        IF rows[s].due < today /\ rows[s].status \in Awaited
        THEN WithStatus(rows[s], "overdue") ELSE rows[s]]

(* refreshInvestmentPaymentMeta: the next payment among the rows it sees,  *)
(* and the normalisation to one upcoming row among all of them.            *)
UnpaidAll(rows) == Visible(rows)     \* Mutant: completed rows are not filtered out

Unpaid(rows) == {s \in Visible(rows) : rows[s].status # "completed"}
DueNext(rows) == {s \in Unpaid(rows) : rows[s].status \in {"upcoming", "overdue"}}

(* Mutant: the last of the rows that are due next. *)
NextOpenLast(rows) ==
    IF DueNext(rows) # {} THEN Highest(DueNext(rows)) ELSE Lowest(Unpaid(rows))

NextOpen(rows) == IF DueNext(rows) # {} THEN Lowest(DueNext(rows)) ELSE Lowest(Unpaid(rows))

Normalised(rows) ==
    IF Unpaid(rows) = {} \/ rows[NextOpen(rows)].status = "overdue" THEN rows
    ELSE [s \in DOMAIN rows |->
            IF s = NextOpen(rows) THEN WithStatus(rows[s], "upcoming")
            ELSE IF rows[s].status = "upcoming" THEN WithStatus(rows[s], "future")
            ELSE rows[s]]

RefreshedRows(rows) == Normalised(MarkedOverdue(rows))

(* The update of the investment finds nothing once it is soft-deleted. *)
RefreshedMeta(inv, rows) ==
    LET seen == MarkedOverdue(rows)
    IN  IF inv.state # "live" THEN inv
        ELSE IF Unpaid(seen) = {} THEN [inv EXCEPT !.nextDue = NoDue, !.monthly = 0]
        ELSE [inv EXCEPT !.nextDue = seen[NextOpen(seen)].due,
                         !.monthly = seen[NextOpen(seen)].total]

-----------------------------------------------------------------------------
(* generateSchedule, for an investment that has no rows yet. *)
NewRow(planned, due, status) ==
    [due |-> due, principal |-> planned.principal, interest |-> planned.interest,
     total |-> planned.total, remaining |-> planned.remaining,
     amountPaid |-> 0, status |-> status]

GeneratedRows(t) ==
    LET plan == Plan(t, t.principal, t.term, t.grace)
        status(s) == IF t.start + s < today THEN "overdue"
                     ELSE IF s = 1 THEN "upcoming" ELSE "future"
    IN  [s \in 1..t.term |-> NewRow(plan[s], t.start + s, status(s))]

(* regenerateSchedule: what it reads before it deletes the unpaid rows. *)

(* Mutant: a partially paid row does not count as paid. *)
PaidSeenCompleted(rows) == {s \in Visible(rows) : rows[s].status = "completed"}

PaidSeen(rows) == {s \in Visible(rows) : rows[s].status \in Paid}
LastPaidSeq(rows) == Highest(PaidSeen(rows))

(* Mutant: the balance after the first paid row instead of the last one. *)
RemainingPrincipalAfterFirst(inv, rows) ==
    IF PaidSeen(rows) # {} THEN rows[Lowest(PaidSeen(rows))].remaining
    ELSE IF inv.outstanding # 0 THEN inv.outstanding ELSE inv.terms.principal

RemainingPrincipal(inv, rows) ==
    IF PaidSeen(rows) # {} THEN rows[LastPaidSeq(rows)].remaining
    ELSE IF inv.outstanding # 0 THEN inv.outstanding ELSE inv.terms.principal

CeilDiv(a, b) == (a + b - 1) \div b

RemainingTerm(inv, rows) ==
    IF inv.terms.term > LastPaidSeq(rows) THEN inv.terms.term - LastPaidSeq(rows)
    ELSE IF inv.monthly > 0 THEN CeilDiv(RemainingPrincipal(inv, rows), inv.monthly)
    ELSE inv.terms.term

Settled(inv, rows) == RemainingPrincipal(inv, rows) = 0

(* Mutant: one row too few. *)
NewSeqsShort(inv, rows) ==
    IF Settled(inv, rows) THEN {}
    ELSE LastPaidSeq(rows) + 1 .. LastPaidSeq(rows) + RemainingTerm(inv, rows) - 1

NewSeqs(inv, rows) ==
    IF Settled(inv, rows) THEN {}
    ELSE LastPaidSeq(rows) + 1 .. LastPaidSeq(rows) + RemainingTerm(inv, rows)

(* Mutant: upcomingSet is never set. *)
RegeneratedRowAllUpcoming(inv, rows, s) ==
    LET t    == inv.terms
        plan == Plan(t, RemainingPrincipal(inv, rows), RemainingTerm(inv, rows), 0)
    IN  NewRow(plan[s - LastPaidSeq(rows)], t.start + s,
               IF t.start + s < today THEN "overdue" ELSE "upcoming")

RegeneratedRow(inv, rows, s) ==
    LET t    == inv.terms
        plan == Plan(t, RemainingPrincipal(inv, rows), RemainingTerm(inv, rows), 0)
        due(u) == t.start + u
    IN  NewRow(plan[s - LastPaidSeq(rows)], due(s),
               IF due(s) < today THEN "overdue"
               ELSE IF \A u \in NewSeqs(inv, rows) : u < s => due(u) < today THEN "upcoming"
               ELSE "future")

(* insertMany runs into the unique index when a row it did not see is in   *)
(* the way: it stops there, and the request ends with the error.           *)
Clash(inv, rows) == NewSeqs(inv, rows) \cap DOMAIN PaidOnly(rows)
InsertFails(inv, rows) == Clash(inv, rows) # {}
Inserted(inv, rows) == {s \in NewSeqs(inv, rows) : \A u \in Clash(inv, rows) : s < u}

Rebuilt(inv, rows) ==
    LET kept == PaidOnly(rows)
    IN  [s \in DOMAIN kept \cup Inserted(inv, rows) |->
            IF s \in DOMAIN kept THEN kept[s] ELSE RegeneratedRow(inv, rows, s)]

(* It ends with listPayments, which marks overdue once more: the refresh   *)
(* may have made a partially paid row upcoming whose date is past.         *)
RegeneratedRows(inv, rows) ==
    IF InsertFails(inv, rows) THEN Rebuilt(inv, rows)
    ELSE MarkedOverdue(RefreshedRows(Rebuilt(inv, rows)))

RegeneratedMeta(inv, rows) ==
    IF InsertFails(inv, rows) THEN inv ELSE RefreshedMeta(inv, Rebuilt(inv, rows))

(* syncScheduleTimelineEvents runs for the rows just inserted, if any. *)
RegeneratedEventsNone(inv, rows, old) == old     \* Mutant: no sync after insertMany

RegeneratedEvents(inv, rows, old) ==
    IF InsertFails(inv, rows) \/ NewSeqs(inv, rows) = {} THEN old ELSE NewSeqs(inv, rows)

(* Bound: the rows of a regenerated schedule have sequences up to MaxSeq.  *)
RegenerateFits(inv, rows) == \A s \in NewSeqs(inv, rows) : s <= MaxSeq

(* regenerateSchedule as the tail of a request that left the investment i  *)
(* as inv and its rows as rows.                                            *)
Regenerate(i, inv, rows) ==
    /\ RegenerateFits(inv, rows)
    /\ investments' = [investments EXCEPT ![i] = RegeneratedMeta(inv, rows)]
    /\ payments' = [payments EXCEPT ![i] = RegeneratedRows(inv, rows)]
    /\ events' = [events EXCEPT ![i] = RegeneratedEvents(inv, rows, @)]

(* refreshInvestmentPaymentMeta as the tail of such a request. *)
Refresh(i, inv, rows) ==
    /\ investments' = [investments EXCEPT ![i] = RefreshedMeta(inv, rows)]
    /\ payments' = [payments EXCEPT ![i] = RefreshedRows(rows)]

-----------------------------------------------------------------------------
(* InvestorService.syncTotals, over the investments as invs has them.      *)
Counted(invs, v) ==
    {i \in Investments : /\ invs[i].state = "live"
                         /\ invs[i].investor = v
                         /\ invs[i].status \in {"active", "pending", "matured"}}

TotalInvested(invs, v)    == SumFunction([i \in Counted(invs, v) |-> invs[i].terms.principal])
TotalOutstanding(invs, v) == SumFunction([i \in Counted(invs, v) |-> invs[i].outstanding])

SyncTotals(v) ==
    investors' = IF investors[v].live
                 THEN [investors EXCEPT ![v].invested = TotalInvested(investments', v),
                                        ![v].outstanding = TotalOutstanding(investments', v)]
                 ELSE investors

-----------------------------------------------------------------------------
(* POST /investments; the listing generateSchedule ends with finds nothing *)
(* the refresh has not marked.                                             *)
Create(i, v, t, status) ==
    LET inv == [state |-> "live", investor |-> v, terms |-> t,
                outstanding |-> t.principal, repaid |-> 0, earned |-> 0, status |-> status,
                monthly |-> Instalment(t, t.principal, t.term), nextDue |-> NoDue]
    IN  /\ investments[i].state = "absent"
        /\ investors[v].live
        /\ Refresh(i, inv, GeneratedRows(t))
        /\ events' = [events EXCEPT ![i] = 1..t.term]
        /\ SyncTotals(v)
        /\ UNCHANGED <<today, closings>>

(* PATCH /investments/:id that carries a schedule field; repriced says     *)
(* whether principal, interestRate or termMonths is among them.            *)
UpdateTerms(i, t, repriced, status) ==
    LET old == investments[i]
        inv == [old EXCEPT !.terms = t, !.status = status,
                           !.monthly = IF repriced THEN Instalment(t, t.principal, t.term) ELSE @]
    IN  /\ old.state = "live"
        /\ repriced \/ <<t.principal, t.rate, t.term>>
                          = <<old.terms.principal, old.terms.rate, old.terms.term>>
        /\ Regenerate(i, inv, payments[i])
        /\ IF InsertFails(inv, payments[i]) THEN UNCHANGED investors ELSE SyncTotals(inv.investor)
        /\ UNCHANGED <<today, closings>>

(* PATCH /investments/:id that carries no schedule field. *)
UpdateStatus(i, status) ==
    /\ investments[i].state = "live"
    /\ investments' = [investments EXCEPT ![i].status = status]
    /\ SyncTotals(investments[i].investor)
    /\ UNCHANGED <<today, payments, events, closings>>

(* Mutant: the totals are not synced. *)
RemoveWithoutSync(i) ==
    /\ investments[i].state = "live"
    /\ investments' = [investments EXCEPT ![i].state = "deleted"]
    /\ UNCHANGED <<today, investors, payments, events, closings>>

(* DELETE /investments/:id *)
Remove(i) ==
    /\ investments[i].state = "live"
    /\ investments' = [investments EXCEPT ![i].state = "deleted"]
    /\ SyncTotals(investments[i].investor)
    /\ UNCHANGED <<today, payments, events, closings>>

(* POST /investments/:id/regenerate-schedule *)
RegenerateSchedule(i) ==
    /\ investments[i].state = "live"
    /\ Regenerate(i, investments[i], payments[i])
    /\ UNCHANGED <<today, investors, closings>>

-----------------------------------------------------------------------------
(* markPaid: how an amount splits over a row, interest first, and what it  *)
(* adds to what the row had received before.  Paying all but 0.009 of the  *)
(* total is paying all of it: less than a cent.                            *)
Completes(row, amount) == amount >= row.total

InterestOf(row, amount)  == Smaller(row.interest, amount)
PrincipalOf(row, amount) == Smaller(row.principal, amount - InterestOf(row, amount))

NewInterest(row, amount) == Minus(InterestOf(row, amount), InterestOf(row, row.amountPaid))

(* Mutant: what went to interest before is taken for principal. *)
NewPrincipalAll(row, amount) == Minus(PrincipalOf(row, amount), row.amountPaid)

NewPrincipal(row, amount) ==
    Minus(PrincipalOf(row, amount), row.amountPaid - InterestOf(row, row.amountPaid))

(* Mutant: no Math.max(0, ...). *)
OutstandingAfterUnclamped(inv, row, amount) ==
    IF Completes(row, amount) THEN row.remaining
    ELSE inv.outstanding - NewPrincipal(row, amount)

OutstandingAfter(inv, row, amount) ==
    IF Completes(row, amount) THEN row.remaining
    ELSE Minus(inv.outstanding, NewPrincipal(row, amount))

ClosedAt(outstanding, status) == IF outstanding = 0 THEN "closed" ELSE status

Credited(inv, row, amount) ==
    LET outstanding == OutstandingAfter(inv, row, amount)
    IN  [inv EXCEPT !.repaid = @ + NewPrincipal(row, amount),
                    !.earned = @ + NewInterest(row, amount),
                    !.outstanding = outstanding,
                    !.status = ClosedAt(outstanding, @)]

WithPayment(rows, s, amount) ==
    [rows EXCEPT ![s].amountPaid = amount,
                 ![s].status = IF Completes(rows[s], amount) THEN "completed" ELSE "partially_paid"]

(* Mutant: the check for a completed payment is missing. *)
PayableAgain(i, s) == s \in DOMAIN payments[i] /\ payments[i][s].status # "cancelled"

(* The guards of markPaid on the row. *)
Payable(i, s) ==
    /\ s \in DOMAIN payments[i]
    /\ payments[i][s].status \notin {"completed", "cancelled"}

(* An amount in the request, or by default what the row costs. *)
AmountFor(i, s, amount) == amount \in (Amounts \cup {payments[i][s].total}) \ {0}

(* Bounds on the counters of a ledger. *)
CollectsWithin(inv) == inv.repaid + inv.earned <= MaxCollected

AnnounceClosingNever(i, outstanding) == UNCHANGED closings     \* Mutant

AnnounceClosing(i, outstanding) ==
    /\ closings' = IF outstanding = 0 THEN [closings EXCEPT ![i] = @ + 1] ELSE closings
    /\ closings'[i] <= MaxClosings

(* POST /payments/:id/mark-paid *)
MarkPaid(i, s, amount) ==
    LET row  == payments[i][s]
        inv  == Credited(investments[i], row, amount)
        rows == WithPayment(payments[i], s, amount)
    IN  /\ investments[i].state = "live"
        /\ Payable(i, s) /\ AmountFor(i, s, amount)
        /\ CollectsWithin(inv)
        /\ \/ /\ Completes(row, amount)
              /\ Refresh(i, inv, rows)
              /\ UNCHANGED events
           \/ /\ ~Completes(row, amount)
              /\ Regenerate(i, inv, rows)
        /\ AnnounceClosing(i, inv.outstanding)
        /\ SyncTotals(inv.investor)
        /\ UNCHANGED today

(* The same request for a row of a deleted investment: the row is written, *)
(* there is no ledger to credit, and regenerateSchedule finds nothing.     *)
MarkPaidOfDeleted(i, s, amount) ==
    LET rows == WithPayment(payments[i], s, amount)
    IN  /\ investments[i].state = "deleted"
        /\ Payable(i, s) /\ AmountFor(i, s, amount)
        /\ payments' = [payments EXCEPT ![i] =
                            IF Completes(payments[i][s], amount) THEN RefreshedRows(rows) ELSE rows]
        /\ UNCHANGED <<today, investors, investments, events, closings>>

(* Mutant: the payment meta is not refreshed. *)
CancelPaymentUnrefreshed(i, s) ==
    /\ s \in DOMAIN payments[i]
    /\ payments[i][s].status # "completed"
    /\ payments' = [payments EXCEPT ![i][s].status = "cancelled"]
    /\ UNCHANGED <<today, investors, investments, events, closings>>

(* POST /payments/:id/cancel *)
CancelPayment(i, s) ==
    /\ s \in DOMAIN payments[i]
    /\ payments[i][s].status # "completed"
    /\ Refresh(i, investments[i], [payments[i] EXCEPT ![s].status = "cancelled"])
    /\ UNCHANGED <<today, investors, events, closings>>

-----------------------------------------------------------------------------
(* earlyRepayment: the completed row it adds after the paid rows it sees.  *)
EarlySeqBeforeClearing(rows) == Highest(Visible(rows)) + 1     \* Mutant

EarlySeq(rows) == Highest(Visible(PaidOnly(rows))) + 1

(* Mutant: the interest portion lowers the balance too. *)
EarlyRowAllPrincipal(inv, applied, interest) ==
    [due |-> today, principal |-> applied - interest, interest |-> interest,
     total |-> applied, remaining |-> inv.outstanding - applied,
     amountPaid |-> applied, status |-> "completed"]

EarlyRow(inv, applied, interest) ==
    [due |-> today, principal |-> applied - interest, interest |-> interest,
     total |-> applied, remaining |-> inv.outstanding - (applied - interest),
     amountPaid |-> applied, status |-> "completed"]

CreditedEarly(inv, row) ==
    [inv EXCEPT !.outstanding = row.remaining, !.repaid = @ + row.principal,
                !.earned = @ + row.interest, !.status = ClosedAt(row.remaining, @)]

WithEarlyRow(rows, row) ==
    [s \in DOMAIN PaidOnly(rows) \cup {EarlySeq(rows)} |->
        IF s = EarlySeq(rows) THEN row ELSE rows[s]]

(* POST /investments/:id/early-repayment *)
EarlyRepayment(i, amount, portion) ==
    LET applied == Smaller(amount, investments[i].outstanding)
        row  == EarlyRow(investments[i], applied, Smaller(portion, applied))
        inv  == CreditedEarly(investments[i], row)
        rows == WithEarlyRow(payments[i], row)
    IN  /\ investments[i].state = "live"
        /\ applied > 0
        /\ EarlySeq(payments[i]) \notin DOMAIN PaidOnly(payments[i])
        /\ EarlySeq(payments[i]) <= MaxSeq /\ CollectsWithin(inv)
        /\ \/ /\ row.remaining > 0
              /\ Regenerate(i, inv, rows)
              /\ IF InsertFails(inv, rows) THEN UNCHANGED investors ELSE SyncTotals(inv.investor)
           \/ /\ row.remaining = 0
              /\ Refresh(i, inv, PaidOnly(rows))
              /\ SyncTotals(inv.investor)
              /\ UNCHANGED events
        /\ AnnounceClosing(i, row.remaining)
        /\ UNCHANGED today

(* The same request when a paid row it did not see holds the sequence: the *)
(* unpaid rows are gone by the time the unique index refuses the new row.  *)
EarlyRepaymentRefused(i, amount) ==
    /\ investments[i].state = "live"
    /\ Smaller(amount, investments[i].outstanding) > 0
    /\ EarlySeq(payments[i]) \in DOMAIN PaidOnly(payments[i])
    /\ payments' = [payments EXCEPT ![i] = PaidOnly(@)]
    /\ UNCHANGED <<today, investors, investments, events, closings>>

-----------------------------------------------------------------------------
(* GET /investments/:id/payments marks what is overdue before it reads.    *)
ListPayments(i) ==
    /\ investments[i].state = "live"
    /\ payments' = [payments EXCEPT ![i] = MarkedOverdue(@)]
    /\ UNCHANGED <<today, investors, investments, events, closings>>

(* The daily sweep of the cron, over the rows of every investment. *)
SweepOverdue ==
    /\ payments' = [i \in Investments |-> MarkedOverdue(payments[i])]
    /\ UNCHANGED <<today, investors, investments, events, closings>>

(* DELETE /investors/:id; the investments of the investor stay. *)
RemoveInvestor(v) ==
    /\ investors[v].live
    /\ investors' = [investors EXCEPT ![v].live = FALSE]
    /\ UNCHANGED <<today, investments, payments, events, closings>>

(* The calendar. *)
MonthPasses ==
    /\ today < MaxMonth
    /\ today' = today + 1
    /\ UNCHANGED <<investors, investments, payments, events, closings>>

-----------------------------------------------------------------------------
Request(i) ==
    \/ \E v \in Investors, t \in Terms, status \in StatusInputs : Create(i, v, t, status)
    \/ \E t \in Terms, repriced \in BOOLEAN, status \in StatusInputs \cup {investments[i].status} :
          UpdateTerms(i, t, repriced, status)
    \/ \E status \in StatusInputs : UpdateStatus(i, status)
    \/ Remove(i)
    \/ RegenerateSchedule(i)
    \/ \E s \in DOMAIN payments[i] :
          \/ \E amount \in Amounts \cup {payments[i][s].total} :
                MarkPaid(i, s, amount) \/ MarkPaidOfDeleted(i, s, amount)
          \/ CancelPayment(i, s)
    \/ \E amount \in Amounts :
          \/ \E portion \in InterestPortions : EarlyRepayment(i, amount, portion)
          \/ EarlyRepaymentRefused(i, amount)
    \/ ListPayments(i)

Next ==
    \/ \E i \in Investments : Request(i)
    \/ \E v \in Investors : RemoveInvestor(v)
    \/ SweepOverdue
    \/ MonthPasses

Spec == Init /\ [][Next]_vars

(* The cron keeps sweeping: once a day while the server runs, and shortly  *)
(* after every start of it.  Nothing else is promised to happen.           *)
FairSpec == Spec /\ WF_vars(SweepOverdue)

-----------------------------------------------------------------------------
InvestmentDoc ==
    [state : {"absent", "live", "deleted"}, investor : Investors, terms : Terms,
     outstanding : Money, repaid : Nat, earned : Nat, status : Statuses,
     monthly : Nat, nextDue : Nat]

IsRows(rows) == DOMAIN rows \subseteq 1..MaxSeq /\ rows \in [DOMAIN rows -> Row]

(* Rows exist only of investments that were created. *)
RowsOfCreated ==
    \A i \in Investments : investments[i].state = "absent" => DOMAIN payments[i] = {}

LedgerTypeOK ==
    /\ today \in 0..MaxMonth
    /\ investments \in [Investments -> InvestmentDoc]
    /\ payments = [i \in Investments |-> payments[i]]
    /\ \A i \in Investments : IsRows(payments[i])
    /\ events \in [Investments -> SUBSET (1..MaxSeq)]
    /\ closings \in [Investments -> 0..MaxClosings]
    /\ RowsOfCreated

(* Every document has the shape its schema gives it: the balance never     *)
(* leaves 0..MaxPrincipal, no row runs past the last sequence number, and  *)
(* events and rows are filed under investments (payment.model.ts,          *)
(* investment.model.ts, and the clamps of investment.service.ts:461-495).  *)
TypeOK ==
    /\ LedgerTypeOK
    /\ investors \in [Investors -> [live : BOOLEAN, invested : Nat, outstanding : Nat]]

(* Invariants and action properties. *)

(* Whatever sequence of payments, cancellations, regenerations, sweeps and *)
(* updates is served, an investment never shows two "next payment" rows    *)
(* (the "normalize one upcoming" of investment.service.ts:683-696, which   *)
(* is skipped when the next payment is overdue).                           *)
OneUpcoming(rows) ==
    \A s, u \in DOMAIN rows :
        (rows[s].status = "upcoming" /\ rows[u].status = "upcoming") => s = u

AtMostOneUpcoming == \A i \in Investments : OneUpcoming(payments[i])

(* The next payment the investment document shows is the one its rows give *)
(* now, although sweeps and listings change row statuses without touching  *)
(* the document (investment.service.ts:415-424 and 664-703, cron:87-119).  *)
NextPaymentFresh ==
    \A i \in Investments :
        investments[i].state = "live" =>
            LET open == Unpaid(payments[i])
            IN  IF open = {} THEN investments[i].nextDue = NoDue
                ELSE /\ investments[i].nextDue = payments[i][NextOpen(payments[i])].due
                     /\ investments[i].monthly = payments[i][NextOpen(payments[i])].total

(* The totals of a live investor are the sums over its counted investments *)
(* after every request (InvestorService.syncTotals and its five callers).  *)
TotalsFresh ==
    \A v \in Investors :
        investors[v].live =>
            /\ investors[v].invested = TotalInvested(investments, v)
            /\ investors[v].outstanding = TotalOutstanding(investments, v)

(* No money that a row records is missing from the ledger: the ledger has  *)
(* earned and repaid at least what the rows allocate of their amountPaid   *)
(* (the deltas of investment.service.ts:461-481).                          *)
LedgerCoversRows ==
    \A i \in Investments :
        investments[i].state = "live" =>
            LET rows == payments[i]
            IN  /\ SumFunction([s \in DOMAIN rows |-> PrincipalOf(rows[s], rows[s].amountPaid)])
                        <= investments[i].repaid
                /\ SumFunction([s \in DOMAIN rows |-> InterestOf(rows[s], rows[s].amountPaid)])
                        <= investments[i].earned

(* The schedule always leads to the end of the loan: the last row of an    *)
(* investment, paid or not, leaves nothing to repay.                       *)
LastRowClears ==
    \A i \in Investments :
        payments[i] # << >> => payments[i][Highest(DOMAIN payments[i])].remaining = 0

(* A completed row is final: no request, sweep or regeneration deletes it  *)
(* or changes anything of it.                                              *)
CompletedRowsFinal ==
    [][\A i \in Investments : \A s \in DOMAIN payments[i] :
          payments[i][s].status = "completed" =>
              s \in DOMAIN payments'[i] /\ payments'[i][s] = payments[i][s]]_vars

(* An instalment does not stay "scheduled", "upcoming" or "future" once    *)
(* its date is past: the sweep, or a request before it, makes it overdue,  *)
(* unless it is paid, cancelled or replaced first (cron/index.ts:87-119).  *)
Late(i, s) ==
    /\ s \in DOMAIN payments[i]
    /\ payments[i][s].due < today
    /\ payments[i][s].status \in {"scheduled", "upcoming", "future"}

LateRowsFlagged == \A i \in Investments, s \in 1..MaxSeq : Late(i, s) ~> ~Late(i, s)
=============================================================================
