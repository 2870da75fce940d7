-------------------------- MODULE MCFaultyRequests --------------------------
(***************************************************************************)
(* Two explorations of InvestmentRequests side by side: `part` says which  *)
(* of them a behaviour belongs to.  "failing": one request at a time, any  *)
(* statement of which may fail, while months pass.  "pair": two requests   *)
(* beside each other within a month, then a regeneration on its own.       *)
(***************************************************************************)
EXTENDS MCRequests

CONSTANTS MaxFailing    \* bound: requests begun where statements fail

VARIABLE part

faultyVars == <<part, requestVars>>

OneAtATime == Cardinality({r \in Slots : InFlight(r)}) <= 1

FaultyInit == part \in {"failing", "pair"} /\ RequestsInit

FailingPart == part = "failing" /\ FailingNext /\ OneAtATime' /\ begun' <= MaxFailing

PairPart == part = "pair" /\ PairNext /\ today' = today

FaultyNext == (FailingPart \/ PairPart) /\ UNCHANGED part

FaultySpec == FaultyInit /\ [][FaultyNext]_faultyVars

-----------------------------------------------------------------------------
(* Requests that fail between their statements, sweeps in between, leave   *)
(* neither two next payments nor a completed row that is gone or changed   *)
(* (the order of the statements of investment.service.ts:285-346, 588-617  *)
(* and 684-696).                                                           *)
FailuresLeaveRowsSound ==
    [][part = "failing" =>
          /\ AtMostOneUpcoming'
          /\ \A i \in Investments : \A s \in DOMAIN payments[i] :
                payments[i][s].status = "completed" =>
                    s \in DOMAIN payments'[i] /\ payments'[i][s] = payments[i][s]]_faultyVars
=============================================================================
