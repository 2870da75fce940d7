--------------------------- MODULE SerialRequests ---------------------------
(***************************************************************************)
(* The requests of InvestmentRequests served one at a time, with sweeps    *)
(* and removals of investors between them: the statements of a request     *)
(* then amount to the action InvestmentLedger has for it.                  *)
(*                                                                         *)
(* "before" is the ledger when the request in flight began, which is what  *)
(* InvestmentLedger sees until the last statement of it.                   *)
(***************************************************************************)
EXTENDS InvestmentRequests

VARIABLE before

Ledger == [investors |-> investors, investments |-> investments, payments |-> payments,
           events |-> events, closings |-> closings]

SerialInit == RequestsInit /\ before = Ledger

SerialNext ==
    /\ \/ \E r \in Slots : Statement(r) \/ \E i \in Investments : Begins(r, i)
       \/ Quiet /\ Single
       \/ Clock
    /\ before' = IF Quiet' THEN Ledger' ELSE before

SerialSpec == SerialInit /\ [][SerialNext]_<<requestVars, before>>

(* The bounds on the counters of the ledger are those on the requests.     *)
Serial ==
    INSTANCE InvestmentLedger WITH
        investors <- before.investors, investments <- before.investments,
        payments <- before.payments, events <- before.events, closings <- before.closings,
        MaxCollected <- (MaxRequests + 1) * 1000, MaxClosings <- MaxRequests

(* Statement by statement, with what every handler reads before each of    *)
(* its writes, a request does to the ledger what its action of             *)
(* InvestmentLedger says, its errors included (investment.service.ts).     *)
(* This is Serial!Spec, with the stuttering steps told apart first: TLC    *)
(* then evaluates Serial!Next for the last statements only.                *)
seen == <<today, before>>

ServesLedger == Serial!Init /\ [][seen' # seen => Serial!Next]_seen
=============================================================================
