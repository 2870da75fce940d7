----------------------------- MODULE Statements -----------------------------
(***************************************************************************)
(* What is read across several documents: the payment export with its      *)
(* history row, the investor's dashboard and the administrator's figures   *)
(* (DomainExportService and DashboardService of document.service.ts).      *)
(* Each reads the investment and its payments with queries of their own,   *)
(* while payments are marked paid with two writes of their own.            *)
(*                                                                         *)
(* The export and the dashboard list the payments through                  *)
(* findByInvestment, which answers with one page; the figures aggregate    *)
(* all rows.                                                               *)
(***************************************************************************)
EXTENDS Naturals, FiniteSets

CONSTANTS
    Slots,       \* requests served at a time
    MaxTerm,     \* rows of a payment schedule, at most
    PageLimit,   \* findMany: Math.min(100, ...)
    MaxRequests, \* requests ever begun
    MaxShocks    \* requests cut short

VARIABLES
    term,       \* rows of the payment schedule, in the order of their sequence
    paid,       \* rows marked completed
    repaid,     \* the number of completed rows the investment accounts for
    exports,    \* rows of ExportHistory
    answers,    \* exports sent to a client
    request,    \* the request in each slot
    begun,      \* requests begun
    shocks,     \* requests cut short
    torn        \* a marking was cut short between its two writes, or met another
vars == <<term, paid, repaid, exports, answers, request, begun, shocks, torn>>

\* `head` is what was read of the investment, `rows` of the payments; `met` counts
\* the markings that were in flight at some time since the request began.
Idle == [op |-> "idle", todo |-> {}, head |-> 0, rows |-> 0, met |-> 0]
Reading == {"export", "dashboard", "adminStats"}
Busy(s) == request[s].op # "idle"
Marking == {s \in Slots : request[s].op = "mark"}
Done(s) == request' = [request EXCEPT ![s] = Idle]

Init ==
    /\ term \in 1 .. MaxTerm /\ paid = {} /\ repaid = 0 /\ exports = 0 /\ answers = 0
    /\ request = [s \in Slots |-> Idle] /\ begun = 0 /\ shocks = 0
    /\ torn = FALSE

Begin(s) == ~Busy(s) /\ begun < MaxRequests /\ begun' = begun + 1

\* Mutant: the export and the dashboard send their two queries at once.
AfterAtOnce(op, answered) ==
    CASE answered = "begin" /\ op # "mark" -> {"head", "rows"}
      [] answered = "begin" /\ op = "mark" -> {"head"}
      [] answered = "head" /\ op = "mark" -> {"write"}
      [] answered = "rows" /\ op = "export" -> {"history"}
      [] OTHER -> {}

\* What is awaited once a query was answered: the export and the dashboard ask for
\* the payments when they have the investment, adminStats asks for both at once.
After(op, answered) ==
    CASE answered = "begin" -> IF op = "adminStats" THEN {"head", "rows"} ELSE {"head"}
      [] answered = "head" /\ op \in {"export", "dashboard"} -> {"rows"}
      [] answered = "head" /\ op = "mark" -> {"write"}
      [] answered = "rows" /\ op = "export" -> {"history"}
      [] OTHER -> {}

StartReading(s, op) ==
    /\ Begin(s)
    /\ request' = [request EXCEPT ![s] =
           [op |-> op, todo |-> After(op, "begin"), head |-> 0, rows |-> 0,
            met |-> Cardinality(Marking)]]
    /\ UNCHANGED <<term, paid, repaid, exports, answers, shocks, torn>>
ExportInvestmentPayments(s) == StartReading(s, "export")
InvestorDashboard(s) == StartReading(s, "dashboard")
AdminStats(s) == StartReading(s, "adminStats")

ReadInvestment(s) ==
    LET r == request[s] IN
    /\ "head" \in r.todo
    /\ request' = [request EXCEPT ![s] =
           [r EXCEPT !.head = repaid, !.todo = (r.todo \ {"head"}) \cup After(r.op, "head")]]
    /\ UNCHANGED <<term, paid, repaid, exports, answers, begun, shocks, torn>>

\* findByInvestment asks for 500 rows in the order of their sequence and gets one
\* page; the aggregation has no page.
Listed(op) == IF op = "adminStats" THEN paid ELSE paid \cap 1 .. PageLimit

ReadPayments(s) ==
    LET r == request[s] IN
    /\ "rows" \in r.todo
    /\ request' = [request EXCEPT ![s] =
           [r EXCEPT !.rows = Cardinality(Listed(r.op)),
                     !.todo = (r.todo \ {"rows"}) \cup After(r.op, "rows")]]
    /\ UNCHANGED <<term, paid, repaid, exports, answers, begun, shocks, torn>>

\* ExportHistory.create is awaited before the export is sent.
RecordExport(s) ==
    /\ "history" \in request[s].todo
    /\ exports' = exports + 1
    /\ request' = [request EXCEPT ![s].todo = @ \ {"history"}]
    /\ UNCHANGED <<term, paid, repaid, answers, begun, shocks, torn>>

Answer(s) ==
    LET r == request[s] IN
    /\ r.op \in Reading /\ r.todo = {}
    /\ answers' = IF r.op = "export" THEN answers + 1 ELSE answers
    /\ Done(s)
    /\ UNCHANGED <<term, paid, repaid, exports, begun, shocks, torn>>

\* markPaid: the row, then the investment is read and written; readers in flight
\* meet it, and of two markings at once one may be lost on the investment.
MarkRow(s) ==
    \E p \in (1 .. term) \ paid :
        /\ Begin(s)
        /\ paid' = paid \cup {p}
        /\ request' = [x \in Slots |->
               IF x = s THEN [op |-> "mark", todo |-> After("mark", "begin"), head |-> 0,
                              rows |-> 0, met |-> 0]
               ELSE IF request[x].op \in Reading THEN [request[x] EXCEPT !.met = @ + 1]
               ELSE request[x]]
        /\ torn' = (torn \/ Marking # {})
        /\ UNCHANGED <<term, repaid, exports, answers, shocks>>

MarkInvestment(s) ==
    /\ "write" \in request[s].todo
    /\ repaid' = request[s].head + 1
    /\ Done(s)
    /\ UNCHANGED <<term, paid, exports, answers, begun, shocks, torn>>

CutShort(s) ==
    /\ Busy(s) /\ shocks < MaxShocks /\ shocks' = shocks + 1
    /\ torn' = (torn \/ request[s].op = "mark")
    /\ Done(s)
    /\ UNCHANGED <<term, paid, repaid, exports, answers, begun>>

Next == \E s \in Slots :
    \/ ExportInvestmentPayments(s) \/ InvestorDashboard(s) \/ AdminStats(s)
    \/ ReadInvestment(s) \/ ReadPayments(s) \/ RecordExport(s) \/ Answer(s)
    \/ MarkRow(s) \/ MarkInvestment(s) \/ CutShort(s)

Spec == Init /\ [][Next]_vars
-----------------------------------------------------------------------------
(* Properties. *)

TypeOK ==
    /\ term \in 1 .. MaxTerm /\ paid \subseteq 1 .. term /\ repaid \in 0 .. term
    /\ exports \in 0 .. MaxRequests /\ answers \in 0 .. MaxRequests
    /\ begun \in 0 .. MaxRequests /\ shocks \in 0 .. MaxShocks
    /\ \A s \in Slots : request[s].met \in 0 .. MaxRequests

\* The rows that no page of the payments shows.
Beyond == IF term > PageLimit THEN term - PageLimit ELSE 0

\* However markings, failures and the two queries of a reader interleave:
\* - an export or a dashboard never claims a repayment its rows do not show, but
\*   for the rows beyond the page, and the figures none but for the markings they
\*   met;
\* - the rows show no more repayments than the investment accounts for, but for the
\*   markings the reader met, unless a marking was cut short or met another.
WholeStatements ==
    \A s \in Slots : LET r == request[s] IN
        r.op \in Reading /\ r.todo \cap {"head", "rows"} = {} =>
            /\ r.head <= r.rows + (IF r.op = "adminStats" THEN r.met ELSE Beyond)
            /\ ~torn => r.rows <= r.head + r.met

\* Every export a client received has its row in the history: at least as many
\* rows as answers, and exactly as many when nothing is in flight or failed.
ExportsRecorded ==
    /\ answers <= exports
    /\ shocks = 0 /\ (\A s \in Slots : ~Busy(s)) => answers = exports

\* What an export or a dashboard promises of what it was read from.
StatementsSound == WholeStatements /\ ExportsRecorded
=============================================================================
