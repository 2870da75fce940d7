--------------------------- MODULE InvestorTotals ---------------------------
(***************************************************************************)
(* syncTotals of investor.service.ts: after each change of an investment   *)
(* the sums of the investor are computed from a page of the investments    *)
(* and written to the profile, two steps that the requests of one investor *)
(* interleave.  findMany caps the page: of more investments than PageLimit *)
(* only the newest are summed.                                             *)
(***************************************************************************)
EXTENDS Naturals, Sequences, FiniteSetsExt

CONSTANTS
    Slots,          \* requests served at a time
    MaxInvestments, \* investments ever created
    Principals,     \* what an investment may lend
    PageLimit,      \* findMany: Math.min(100, ...)
    MaxChanges,     \* changes of investments
    MaxShocks       \* requests cut short

VARIABLES
    investments, \* the investments, oldest first
    totals,      \* the sums in the profile
    removed,     \* the profile is soft-deleted
    request,     \* the request in each slot
    changes,     \* changes so far
    shocks,      \* requests cut short so far
    stale        \* a synchronisation that overlapped another, or was cut short,
                 \* and none has run alone since
vars == <<investments, totals, removed, request, changes, shocks, stale>>

Zero == [invested |-> 0, outstanding |-> 0]
\* `alone`: no other request was being served at any time since it began.
Idle == [at |-> "idle", sums |-> Zero, alone |-> FALSE]
Busy(s) == request[s].at # "idle"
Alone(s) == \A x \in Slots \ {s} : ~Busy(x)

Init ==
    /\ investments = <<>> /\ totals = Zero /\ removed = FALSE
    /\ request = [s \in Slots |-> Idle] /\ changes = 0 /\ shocks = 0 /\ stale = FALSE

\* status in active, pending or matured, and not soft-deleted.
Counts(i) == investments[i].status = "open"
\* The newest PageLimit of the investments that count.
Counted == {i \in DOMAIN investments : Counts(i)}
Page == {i \in Counted : Cardinality({j \in Counted : j > i}) < PageLimit}
SumOver(I, amount) == MapThenSumSet(LAMBDA i : amount[i], I)
Sums(I) == [invested |-> SumOver(I, [i \in I |-> investments[i].principal]),
            outstanding |-> SumOver(I, [i \in I |-> investments[i].outstanding])]

Changed(s) ==
    /\ ~Busy(s) /\ changes < MaxChanges /\ changes' = changes + 1
    /\ request' = [x \in Slots |-> IF x = s THEN [Idle EXCEPT !.at = "read", !.alone = Alone(s)]
                                   ELSE [request[x] EXCEPT !.alone = FALSE]]
    /\ stale' = (stale \/ ~Alone(s))
    /\ UNCHANGED <<totals, removed, shocks>>

\* investment.service create; no investment is created for a deleted profile.
CreateInvestment(s) ==
    /\ ~removed /\ Len(investments) < MaxInvestments
    /\ \E p \in Principals : investments' = Append(investments,
           [principal |-> p, outstanding |-> p, status |-> "open"])
    /\ Changed(s)

\* markPaymentPaid, cancelPayment, earlyRepayment, update: the balance moves.
ChangeBalance(s) ==
    /\ \E i \in DOMAIN investments, b \in 0 .. Max(Principals) :
           /\ Counts(i) /\ b # investments[i].outstanding /\ b <= investments[i].principal
           /\ investments' = [investments EXCEPT ![i].outstanding = b]
    /\ Changed(s)

\* cancelled by an update, or soft-deleted.
CloseInvestment(s) ==
    /\ \E i \in DOMAIN investments :
           Counts(i) /\ investments' = [investments EXCEPT ![i].status = "closed"]
    /\ Changed(s)

ReadInvestments(s) ==
    /\ request[s].at = "read"
    /\ request' = [request EXCEPT ![s].at = "write", ![s].sums = Sums(Page)]
    /\ UNCHANGED <<investments, totals, removed, changes, shocks, stale>>

\* Mutant: the sums are added to what the profile has.
WriteTotalsAdded(s) ==
    /\ request[s].at = "write"
    /\ totals' = IF removed THEN totals
                 ELSE [f \in DOMAIN totals |-> totals[f] + request[s].sums[f]]
    /\ request' = [request EXCEPT ![s] = Idle]
    /\ stale' = (stale /\ ~request[s].alone)
    /\ UNCHANGED <<investments, removed, changes, shocks>>

\* investors.update goes through the soft-delete filter.
WriteTotals(s) ==
    /\ request[s].at = "write"
    /\ totals' = IF removed THEN totals ELSE request[s].sums
    /\ request' = [request EXCEPT ![s] = Idle]
    /\ stale' = (stale /\ ~request[s].alone)
    /\ UNCHANGED <<investments, removed, changes, shocks>>

CutShort(s) ==
    /\ Busy(s) /\ shocks < MaxShocks /\ shocks' = shocks + 1
    /\ request' = [request EXCEPT ![s] = Idle]
    /\ stale' = TRUE
    /\ UNCHANGED <<investments, totals, removed, changes>>

RemoveInvestor ==
    /\ ~removed /\ removed' = TRUE
    /\ UNCHANGED <<investments, totals, request, changes, shocks, stale>>

Next ==
    \/ \E s \in Slots :
           \/ CreateInvestment(s) \/ ChangeBalance(s) \/ CloseInvestment(s)
           \/ ReadInvestments(s) \/ WriteTotals(s) \/ CutShort(s)
    \/ RemoveInvestor

Spec == Init /\ [][Next]_vars
-----------------------------------------------------------------------------
(* Properties. *)

TypeOK ==
    /\ Len(investments) <= MaxInvestments
    /\ \A i \in DOMAIN investments :
           investments[i].outstanding \in 0 .. investments[i].principal
    /\ changes \in 0 .. MaxChanges /\ shocks \in 0 .. MaxShocks
    /\ removed \in BOOLEAN /\ stale \in BOOLEAN

\* When no request is being served the sums of a live profile are those of its
\* investments, unless two synchronisations overlapped or one was cut short
\* (the next one that runs alone repairs that), or there are more investments
\* than a page holds.
TotalsCatchUp ==
    (\A s \in Slots : ~Busy(s)) /\ ~stale /\ ~removed /\ Cardinality(Counted) <= PageLimit
    => totals = Sums(Counted)
=============================================================================
