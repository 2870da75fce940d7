------------------------- MODULE InvestmentRequests -------------------------
(***************************************************************************)
(* The requests of InvestmentLedger, one database statement at a time.     *)
(*                                                                         *)
(* The handlers of investment.service.ts await every statement, and no     *)
(* transaction joins them: between two statements of a request another     *)
(* request may run, or the request may fail, and what a handler computes,  *)
(* it computes from the documents it has read before.                      *)
(*                                                                         *)
(* A request in flight is a record: the statements it has still to         *)
(* execute, its parameters, and what it has read.  A row is written by its *)
(* _id, which a row of the same sequence inserted later does not have:     *)
(* "held" are the sequences whose row is still the one the request knows.  *)
(* The clock moves while nothing is in flight.                             *)
(***************************************************************************)
EXTENDS InvestmentLedger, Sequences

CONSTANTS
    Slots,          \* as many requests may be in flight
    MaxRequests     \* bound: as many requests are ever begun

ASSUME SlotsAssumption == Slots # {} /\ MaxRequests \in Nat

(* The fields of the terms are validated one by one, and an update may     *)
(* carry some of them: terms mixed with those the document has are terms.  *)
ASSUME MixedTermsAssumption ==
    \A t, old \in Terms :
        [t EXCEPT !.principal = old.principal, !.rate = old.rate, !.term = old.term] \in Terms

VARIABLES
    requests,       \* slot -> the request it serves
    begun           \* how many requests have begun

requestVars == <<vars, requests, begun>>

(* What refreshInvestmentPaymentMeta, regenerateSchedule, generateSchedule *)
(* and syncTotals execute.                                                 *)
RefreshTodo == <<"markOverdue", "chooseNext", "demote", "promote", "writeMeta">>
EventsTodo  == <<"clearEvents", "writeEvents">>
ListTodo    == <<"loadInvestment", "markOverdue">>
RegenerateTodo ==
    <<"loadInvestment", "readRows", "deleteUnpaid", "insertRows">> \o EventsTodo
        \o RefreshTodo \o ListTodo
SyncTodo == <<"sumTotals", "writeTotals">>

Idle ==
    [todo |-> << >>, op |-> "none", i |-> CHOOSE i \in Investments : TRUE, s |-> 0,
     terms |-> Absent.terms, repriced |-> FALSE, status |-> "none", amount |-> 0, portion |-> 0,
     row |-> << >>, inv |-> Absent, rows |-> << >>, held |-> {}, fresh |-> {}, sums |-> <<0, 0>>,
     alone |-> FALSE]

InFlight(r) == requests[r].todo # << >>
Quiet == \A r \in Slots : ~InFlight(r)

RequestsInit == Init /\ requests = [r \in Slots |-> Idle] /\ begun = 0

-----------------------------------------------------------------------------
(* The start of a request: the handler, its parameters, its statements.    *)
(* "alone", a history of the model: no other request runs beside this one. *)
Begin(r, request) ==
    /\ ~InFlight(r) /\ begun < MaxRequests
    /\ requests' = [p \in Slots |-> IF p = r THEN [request EXCEPT !.alone = Quiet]
                                    ELSE [requests[p] EXCEPT !.alone = FALSE]]
    /\ begun' = begun + 1
    /\ UNCHANGED vars

BeginCreate(r, i, v, t, status) ==
    /\ investments[i].state = "absent"
    /\ \A q \in Slots : InFlight(q) => requests[q].i # i
    /\ Begin(r, [Idle EXCEPT !.op = "create", !.i = i, !.terms = t, !.status = status,
                             !.inv = [Absent EXCEPT !.investor = v],
                             !.todo = <<"loadInvestor", "insertInvestment", "loadInvestment",
                                        "deleteAll", "insertSchedule">> \o EventsTodo \o RefreshTodo
                                          \o ListTodo \o SyncTodo])

BeginUpdate(r, i, t, repriced, status) ==
    /\ repriced \/ <<t.principal, t.rate, t.term>> =
           <<investments[i].terms.principal, investments[i].terms.rate, investments[i].terms.term>>
    /\ Begin(r, [Idle EXCEPT !.op = "update", !.i = i, !.terms = t, !.repriced = repriced,
                             !.status = status,
                             !.todo = <<"loadInvestment", "writeTerms">> \o RegenerateTodo
                                          \o SyncTodo])

BeginUpdateStatus(r, i, status) ==
    Begin(r, [Idle EXCEPT !.op = "updateStatus", !.i = i, !.status = status,
                          !.todo = <<"loadInvestment", "writeStatus">> \o SyncTodo])

BeginRemove(r, i) ==
    Begin(r, [Idle EXCEPT !.op = "remove", !.i = i,
                          !.todo = <<"loadInvestment", "softDelete">> \o SyncTodo])

BeginRegenerate(r, i) ==
    Begin(r, [Idle EXCEPT !.op = "regenerate", !.i = i, !.todo = RegenerateTodo])

BeginMarkPaid(r, i, s, amount) ==
    /\ s \in DOMAIN payments[i]
    /\ Begin(r, [Idle EXCEPT !.op = "markPaid", !.i = i, !.s = s, !.amount = amount,
                             !.held = {s}, !.todo = <<"loadPayment">>])

BeginCancel(r, i, s) ==
    /\ s \in DOMAIN payments[i]
    /\ Begin(r, [Idle EXCEPT !.op = "cancel", !.i = i, !.s = s, !.held = {s},
                             !.todo = <<"loadPayment">>])

BeginEarlyRepayment(r, i, amount, portion) ==
    Begin(r, [Idle EXCEPT !.op = "early", !.i = i, !.amount = amount, !.portion = portion,
                          !.todo = <<"loadOutstanding">>])

BeginList(r, i) == Begin(r, [Idle EXCEPT !.op = "list", !.i = i, !.todo = ListTodo])

Creates(r, i) ==
    \E v \in Investors, t \in Terms, status \in StatusInputs : BeginCreate(r, i, v, t, status)

Edits(r, i) ==
    /\ investments[i].state # "absent"
    /\ \/ \E t \in Terms, repriced \in BOOLEAN, status \in StatusInputs \cup {"none"} :
             BeginUpdate(r, i, t, repriced, status)
       \/ \E status \in StatusInputs : BeginUpdateStatus(r, i, status)
       \/ BeginRemove(r, i)

Services(r, i) ==
    /\ investments[i].state # "absent"
    /\ \/ BeginRegenerate(r, i)
       \/ \E s \in 1..MaxSeq : \/ \E amount \in Amounts \cup {0} : BeginMarkPaid(r, i, s, amount)
                               \/ BeginCancel(r, i, s)
       \/ \E amount \in Amounts, portion \in InterestPortions :
             BeginEarlyRepayment(r, i, amount, portion)
       \/ BeginList(r, i)

Begins(r, i) == Creates(r, i) \/ Edits(r, i) \/ Services(r, i)

-----------------------------------------------------------------------------
(* The next statement of a request; what it leaves of the request is q.    *)
Doing(r, statement) == InFlight(r) /\ Head(requests[r].todo) = statement

Advanced(q) == IF Len(q.todo) = 1 THEN Idle ELSE [q EXCEPT !.todo = Tail(@)]

Goes(r, q) == requests' = [requests EXCEPT ![r] = Advanced(q)] /\ UNCHANGED begun
Ends(r)    == requests' = [requests EXCEPT ![r] = Idle] /\ UNCHANGED begun

(* A statement that only reads. *)
Reads(r, q) == Goes(r, q) /\ UNCHANGED vars
Rejects(r)  == Ends(r) /\ UNCHANGED vars

(* A statement that updates the live investment, the rows of it. *)
WritesInvestment(i, doc) ==
    /\ investments' = IF investments[i].state = "live" THEN [investments EXCEPT ![i] = doc]
                      ELSE investments
    /\ UNCHANGED <<today, investors, payments, events, closings>>

WritesRows(i, rows) ==
    /\ payments' = [payments EXCEPT ![i] = rows]
    /\ UNCHANGED <<today, investors, investments, events, closings>>

WritesEvents(i, sequences) ==
    /\ events' = [events EXCEPT ![i] = sequences]
    /\ UNCHANGED <<today, investors, investments, payments, closings>>

(* findById, or the error that ends the request. *)
LoadInvestment(r) ==
    LET q == requests[r]
    IN  /\ Doing(r, "loadInvestment")
        /\ IF investments[q.i].state = "live" THEN Reads(r, [q EXCEPT !.inv = investments[q.i]])
           ELSE Rejects(r)

LoadInvestor(r) ==
    /\ Doing(r, "loadInvestor")
    /\ IF investors[requests[r].inv.investor].live THEN Reads(r, requests[r]) ELSE Rejects(r)

ReadRows(r) ==
    LET q == requests[r]
    IN  Doing(r, "readRows") /\ Reads(r, [q EXCEPT !.rows = payments[q.i]])

(* deleteMany; whoever knew the rows knows them no more. *)
DeletesRows(r, gone) ==
    LET i == requests[r].i
    IN  /\ WritesRows(i, [s \in DOMAIN payments[i] \ gone |-> payments[i][s]])
        /\ requests' = [p \in Slots |->
               LET known == IF requests[p].i = i THEN requests[p].held \ gone ELSE requests[p].held
                   kept  == [requests[p] EXCEPT !.held = known]
               IN  IF p = r THEN Advanced(kept) ELSE kept]
        /\ UNCHANGED begun

DeleteUnpaid(r) ==
    LET rows == payments[requests[r].i]
    IN  Doing(r, "deleteUnpaid") /\ DeletesRows(r, DOMAIN rows \ DOMAIN PaidOnly(rows))

(* generateSchedule starts from no rows at all. *)
DeleteAll(r) == Doing(r, "deleteAll") /\ DeletesRows(r, DOMAIN payments[requests[r].i])

(* insertMany, in order up to a row that is in the way; the timeline is    *)
(* synchronised for the rows inserted, if any.                             *)
InsertsRows(r, new) ==
    LET q     == requests[r]
        old   == payments[q.i]
        clash == DOMAIN new \cap DOMAIN old
        fits  == {s \in DOMAIN new : \A u \in clash : s < u}
    IN  /\ WritesRows(q.i, [s \in DOMAIN old \cup fits |-> IF s \in fits THEN new[s] ELSE old[s]])
        /\ IF clash # {} THEN Ends(r)
           ELSE Goes(r, [q EXCEPT !.fresh = DOMAIN new,
                                  !.todo = IF new = << >> THEN SubSeq(@, 3, Len(@)) ELSE @])

-----------------------------------------------------------------------------
(* regenerateSchedule *)
RegeneratedTail(q) == [s \in NewSeqs(q.inv, q.rows) |-> RegeneratedRow(q.inv, q.rows, s)]

(* Mutant: the rows that are in the way are replaced. *)
InsertRowsOver(r) ==
    LET q   == requests[r]
        new == RegeneratedTail(q)
    IN  /\ Doing(r, "insertRows")
        /\ RegenerateFits(q.inv, q.rows)
        /\ WritesRows(q.i, [s \in DOMAIN payments[q.i] \cup DOMAIN new |->
                                IF s \in DOMAIN new THEN new[s] ELSE payments[q.i][s]])
        /\ Goes(r, [q EXCEPT !.fresh = DOMAIN new,
                             !.todo = IF new = << >> THEN SubSeq(@, 3, Len(@)) ELSE @])

InsertRows(r) ==
    /\ Doing(r, "insertRows")
    /\ RegenerateFits(requests[r].inv, requests[r].rows)
    /\ InsertsRows(r, RegeneratedTail(requests[r]))

(* syncScheduleTimelineEvents *)
ClearEvents(r) ==
    Doing(r, "clearEvents") /\ WritesEvents(requests[r].i, {}) /\ Goes(r, requests[r])

WriteEvents(r) ==
    LET q == requests[r]
    IN  Doing(r, "writeEvents") /\ WritesEvents(q.i, events[q.i] \cup q.fresh) /\ Goes(r, q)

(* refreshInvestmentPaymentMeta *)
MarkOverdue(r) ==
    LET i == requests[r].i
    IN  Doing(r, "markOverdue") /\ WritesRows(i, MarkedOverdue(payments[i])) /\ Goes(r, requests[r])

ChooseNext(r) ==
    LET q == requests[r]
    IN  /\ Doing(r, "chooseNext")
        /\ Reads(r, [q EXCEPT !.rows = payments[q.i], !.held = DOMAIN payments[q.i]])

Normalises(q) == Unpaid(q.rows) # {} /\ q.rows[NextOpen(q.rows)].status # "overdue"

Demote(r) ==
    LET q    == requests[r]
        rows == payments[q.i]
    IN  /\ Doing(r, "demote")
        /\ WritesRows(q.i, [s \in DOMAIN rows |->
               IF /\ Normalises(q) /\ rows[s].status = "upcoming"
                  /\ ~(s \in q.held /\ s = NextOpen(q.rows))
               THEN WithStatus(rows[s], "future") ELSE rows[s]])
        /\ Goes(r, q)

Promote(r) ==
    LET q    == requests[r]
        next == NextOpen(q.rows)
    IN  /\ Doing(r, "promote")
        /\ WritesRows(q.i,
               IF Normalises(q) /\ q.rows[next].status # "upcoming" /\ next \in q.held
               THEN [payments[q.i] EXCEPT ![next].status = "upcoming"] ELSE payments[q.i])
        /\ Goes(r, q)

WriteMeta(r) ==
    LET q   == requests[r]
        doc == investments[q.i]
    IN  /\ Doing(r, "writeMeta")
        /\ WritesInvestment(q.i,
               IF Unpaid(q.rows) = {} THEN [doc EXCEPT !.nextDue = NoDue, !.monthly = 0]
               ELSE [doc EXCEPT !.nextDue = q.rows[NextOpen(q.rows)].due,
                                !.monthly = q.rows[NextOpen(q.rows)].total])
        /\ Goes(r, q)

(* InvestorService.syncTotals *)
SumTotals(r) ==
    LET v == requests[r].inv.investor
    IN  /\ Doing(r, "sumTotals")
        /\ Reads(r, [requests[r] EXCEPT !.sums = <<TotalInvested(investments, v),
                                                   TotalOutstanding(investments, v)>>])

WriteTotals(r) ==
    LET v    == requests[r].inv.investor
        sums == requests[r].sums
    IN  /\ Doing(r, "writeTotals")
        /\ investors' = IF investors[v].live
                        THEN [investors EXCEPT ![v].invested = sums[1], ![v].outstanding = sums[2]]
                        ELSE investors
        /\ UNCHANGED <<today, investments, payments, events, closings>>
        /\ Goes(r, requests[r])

-----------------------------------------------------------------------------
(* create *)
InsertInvestment(r) ==
    LET q == requests[r]
        t == q.terms
    IN  /\ Doing(r, "insertInvestment")
        /\ investments' = [investments EXCEPT ![q.i] =
               [state |-> "live", investor |-> q.inv.investor, terms |-> t,
                outstanding |-> t.principal, repaid |-> 0, earned |-> 0, status |-> q.status,
                monthly |-> Instalment(t, t.principal, t.term), nextDue |-> NoDue]]
        /\ UNCHANGED <<today, investors, payments, events, closings>>
        /\ Goes(r, q)

InsertSchedule(r) ==
    Doing(r, "insertSchedule") /\ InsertsRows(r, GeneratedRows(requests[r].inv.terms))

(* update, which ends where it finds no investment to update. *)
Updates(r, statement) ==
    /\ Doing(r, statement)
    /\ IF investments[requests[r].i].state = "live" THEN Goes(r, requests[r]) ELSE Ends(r)

StatusGiven(q, status) == IF q.status = "none" THEN status ELSE q.status

WriteTerms(r) ==
    LET q   == requests[r]
        old == investments[q.i].terms
        t   == IF q.repriced THEN q.terms
               ELSE [q.terms EXCEPT !.principal = old.principal, !.rate = old.rate,
                                    !.term = old.term]
    IN  /\ Updates(r, "writeTerms")
        /\ WritesInvestment(q.i,
               [investments[q.i] EXCEPT
                    !.terms = t, !.status = StatusGiven(q, @),
                    !.monthly = IF q.repriced THEN Instalment(t, t.principal, t.term) ELSE @])

WriteStatus(r) ==
    LET q == requests[r]
    IN  /\ Updates(r, "writeStatus")
        /\ WritesInvestment(q.i, [investments[q.i] EXCEPT !.status = q.status])

(* remove *)
SoftDelete(r) ==
    LET q == requests[r]
    IN  /\ Doing(r, "softDelete")
        /\ WritesInvestment(q.i, [investments[q.i] EXCEPT !.state = "deleted"])
        /\ Goes(r, q)

-----------------------------------------------------------------------------
(* markPaid and cancelPayment read the row; what follows depends on it.    *)
Asked(q, row) == IF q.amount = 0 THEN row.total ELSE q.amount

LoadPayment(r) ==
    LET q    == requests[r]
        row  == payments[q.i][q.s]
        paid == Asked(q, row)
    IN  /\ Doing(r, "loadPayment")
        /\ IF \/ q.s \notin q.held \/ row.status = "completed"
              \/ q.op = "markPaid" /\ (row.status = "cancelled" \/ paid = 0)
           THEN Rejects(r)
           ELSE Reads(r, [q EXCEPT
                    !.row = row, !.amount = paid,
                    !.todo = @ \o (IF q.op = "cancel" THEN <<"writeCancelled">> \o RefreshTodo
                                   ELSE <<"writePayment", "findInvestment">>
                                        \o <<"credit">> \o SyncTodo \o <<"announce">>
                                        \o IF Completes(row, paid) THEN RefreshTodo
                                           ELSE RegenerateTodo)])

WritePayment(r) ==
    LET q == requests[r]
    IN  /\ Doing(r, "writePayment")
        /\ WritesRows(q.i, IF q.s \notin q.held THEN payments[q.i]
                           ELSE [payments[q.i] EXCEPT
                                    ![q.s].amountPaid = q.amount,
                                    ![q.s].status = IF Completes(q.row, q.amount)
                                                    THEN "completed" ELSE "partially_paid"])
        /\ Goes(r, q)

(* Without an investment the credit, the totals and the event are skipped. *)
FindInvestment(r) ==
    LET q == requests[r]
    IN  /\ Doing(r, "findInvestment")
        /\ IF investments[q.i].state = "live" THEN Reads(r, [q EXCEPT !.inv = investments[q.i]])
           ELSE Reads(r, [q EXCEPT !.todo = SubSeq(@, 5, Len(@))])

Owed(q) == IF q.op = "early" THEN q.row.remaining ELSE OutstandingAfter(q.inv, q.row, q.amount)

(* The $set of an update: values computed from the document read before.   *)
Credit(r) ==
    LET q        == requests[r]
        credited == IF q.op = "early" THEN CreditedEarly(q.inv, q.row)
                    ELSE Credited(q.inv, q.row, q.amount)
    IN  /\ Doing(r, "credit")
        /\ WritesInvestment(q.i, [investments[q.i] EXCEPT
               !.repaid = credited.repaid, !.earned = credited.earned,
               !.outstanding = credited.outstanding, !.status = credited.status])
        /\ Goes(r, q)

Announce(r) ==
    LET q == requests[r]
    IN  /\ Doing(r, "announce")
        /\ closings' = IF Owed(q) = 0 THEN [closings EXCEPT ![q.i] = @ + 1] ELSE closings
        /\ UNCHANGED <<today, investors, investments, payments, events>>
        /\ Goes(r, q)

WriteCancelled(r) ==
    LET q == requests[r]
    IN  /\ Doing(r, "writeCancelled")
        /\ WritesRows(q.i, IF q.s \notin q.held THEN payments[q.i]
                           ELSE [payments[q.i] EXCEPT ![q.s].status = "cancelled"])
        /\ Goes(r, q)

-----------------------------------------------------------------------------
(* earlyRepayment *)

(* Mutant: the amount is not capped by what is outstanding. *)
LoadOutstandingUncapped(r) ==
    LET q   == requests[r]
        inv == investments[q.i]
        row == EarlyRow(inv, q.amount, Smaller(q.portion, q.amount))
    IN  /\ Doing(r, "loadOutstanding")
        /\ IF inv.state # "live" \/ inv.outstanding = 0 THEN Rejects(r)
           ELSE Reads(r, [q EXCEPT
                    !.inv = inv, !.row = row,
                    !.todo = @ \o <<"deleteUnpaid", "readRows", "insertEarly", "credit", "announce">>
                               \o RegenerateTodo \o SyncTodo])

LoadOutstanding(r) ==
    LET q       == requests[r]
        inv     == investments[q.i]
        applied == Smaller(q.amount, inv.outstanding)
        row     == EarlyRow(inv, applied, Smaller(q.portion, applied))
    IN  /\ Doing(r, "loadOutstanding")
        /\ IF inv.state # "live" \/ applied = 0 THEN Rejects(r)
           ELSE Reads(r, [q EXCEPT
                    !.inv = inv, !.row = row,
                    !.todo = @ \o <<"deleteUnpaid", "readRows", "insertEarly", "credit", "announce">>
                               \o (IF row.remaining > 0 THEN RegenerateTodo
                                   ELSE <<"deleteUnpaid">> \o RefreshTodo)
                               \o SyncTodo])

InsertEarly(r) ==
    LET q  == requests[r]
        at == Highest(Visible(q.rows)) + 1
    IN  /\ Doing(r, "insertEarly")
        /\ at <= MaxSeq
        /\ IF at \in DOMAIN payments[q.i] THEN Rejects(r)
           ELSE /\ WritesRows(q.i, [s \in DOMAIN payments[q.i] \cup {at} |->
                                       IF s = at THEN q.row ELSE payments[q.i][s]])
                /\ Goes(r, q)

-----------------------------------------------------------------------------
Statement(r) ==
    \/ LoadInvestment(r) \/ LoadInvestor(r) \/ ReadRows(r)
    \/ DeleteUnpaid(r) \/ DeleteAll(r) \/ InsertRows(r)
    \/ ClearEvents(r) \/ WriteEvents(r)
    \/ MarkOverdue(r) \/ ChooseNext(r) \/ Demote(r) \/ Promote(r) \/ WriteMeta(r)
    \/ SumTotals(r) \/ WriteTotals(r)
    \/ InsertInvestment(r) \/ InsertSchedule(r) \/ WriteTerms(r) \/ WriteStatus(r) \/ SoftDelete(r)
    \/ LoadPayment(r) \/ WritePayment(r) \/ FindInvestment(r) \/ Credit(r) \/ Announce(r)
    \/ WriteCancelled(r) \/ LoadOutstanding(r) \/ InsertEarly(r)

(* The statement throws, or the process stops: the request goes no further.*)
Fail(r) == InFlight(r) /\ Rejects(r)

(* The cron and the removal of an investor are a single statement. *)
Single ==
    /\ SweepOverdue \/ \E v \in Investors : RemoveInvestor(v)
    /\ UNCHANGED <<requests, begun>>

Clock == Quiet /\ MonthPasses /\ UNCHANGED <<requests, begun>>

RequestsNext ==
    \/ \E r \in Slots : Statement(r) \/ \E i \in Investments : Begins(r, i)
    \/ Single
    \/ Clock

RequestsSpec == RequestsInit /\ [][RequestsNext]_requestVars

(* The same where any statement may fail. *)
FailingNext == RequestsNext \/ \E r \in Slots : Fail(r)

FailingSpec == RequestsInit /\ [][FailingNext]_requestVars

(* A loan is made, two requests service it beside each other, then its     *)
(* schedule is regenerated.                                                *)
PairBegins(r, i) ==
    \/ begun = 0 /\ Creates(r, i)
    \/ (begun = 2 \/ (begun = 1 /\ Quiet)) /\ Services(r, i)
    \/ begun = 3 /\ Quiet /\ investments[i].state # "absent" /\ BeginRegenerate(r, i)

PairNext ==
    \/ \E r \in Slots : Statement(r) \/ \E i \in Investments : PairBegins(r, i)
    \/ Single
    \/ Clock

PairSpec == RequestsInit /\ [][PairNext]_requestVars

-----------------------------------------------------------------------------
(* The requests in flight have the shape of requests; the ledger keeps its *)
(* types between any two statements, whatever has failed.                  *)
RequestsTypeOK ==
    /\ investments \in [Investments -> InvestmentDoc]
    /\ \A i \in Investments : IsRows(payments[i]) /\ events[i] \subseteq 1..MaxSeq
    /\ \A r \in Slots : /\ requests[r].held \subseteq DOMAIN payments[requests[r].i]
                        /\ requests[r].inv \in InvestmentDoc
                        /\ requests[r].fresh \subseteq 1..MaxSeq
    /\ begun \in 0..MaxRequests

(* A regeneration on its own repairs what requests that failed or ran      *)
(* beside each other left behind: when it is about to list the rows, there *)
(* are some, the last of them clears the loan, one at most is upcoming     *)
(* (investment.service.ts:273-351).                                        *)
RegenerationRepairs ==
    \A r \in Slots :
        LET q    == requests[r]
            rows == payments[q.i]
        IN  (q.alone /\ q.op = "regenerate" /\ q.todo = <<"markOverdue">>) =>
                /\ rows # << >> /\ rows[Highest(DOMAIN rows)].remaining = 0
                /\ Cardinality({s \in DOMAIN rows : rows[s].status = "upcoming"}) <= 1

(* An update of an investment is not lost: what is booked as repaid never  *)
(* falls ("optimistic concurrency", base.model.ts:10).                     *)
RepaidNeverFalls ==
    [][\A i \in Investments :
          investments[i].state = "live" => investments'[i].repaid >= investments[i].repaid]_vars

(* A completed payment is not paid again: the statement that records a     *)
(* payment never meets a completed row ("Payment already completed",       *)
(* investment.service.ts:446).                                             *)
NotPaidAgain ==
    [][\A r \in Slots :
          WritePayment(r) =>
              requests[r].s \notin requests[r].held
                  \/ payments[requests[r].i][requests[r].s].status # "completed"]_requestVars
=============================================================================
