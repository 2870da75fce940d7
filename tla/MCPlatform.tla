----------------------------- MODULE MCPlatform -----------------------------
(***************************************************************************)
(* The parts of the backend that are each checked on their own, in one     *)
(* instance: `part` says which of them a behaviour is about, the variables *)
(* of the others keep their initial values.  The parts share nothing, so   *)
(* the states of the instance are those of its parts side by side.         *)
(***************************************************************************)
EXTENDS RepaymentSchedule, MCEngine, PlatformParts, TLC

CONSTANTS
    BookInvestors,              \* the investors of the ledger
    MaxTokens, TokenRequests,   \* of the sessions
    Years                       \* of the calendar

VARIABLES
    part,
    bookToday, bookInvestors, bookInvestments, bookPayments, bookEvents,
    bookClosings,
    tokenPrefixed, tokenUp, tokenFailed, tokenShocks, tokenIsActive,
    tokenLive, tokenCopy, tokenIssued, tokenFamily, tokenParent, tokenRequest,
    tokenBegun, tokenReceived, tokenHeld, tokenOverlapped, tokenEnded,
    tokenReused, tokenClosed,
    dayContractual, dayPolicy, dayDue, dayAdjusted, dayNote

scheduleVars == <<request, schedule, tail, from>>
bookVars ==
    <<bookToday, bookInvestors, bookInvestments, bookPayments, bookEvents,
      bookClosings>>
tokenVars ==
    <<tokenPrefixed, tokenUp, tokenFailed, tokenShocks, tokenIsActive,
      tokenLive, tokenCopy, tokenIssued, tokenFamily, tokenParent,
      tokenRequest, tokenBegun, tokenReceived, tokenHeld, tokenOverlapped,
      tokenEnded, tokenReused, tokenClosed>>
dayVars ==
    <<dayContractual, dayPolicy, dayDue, dayAdjusted, dayNote>>
platformVars ==
    <<part,
      scheduleVars, bookVars, totalVars, tokenVars, codeVars, userVars,
      docVars, readVars, listVars, dayVars>>

-----------------------------------------------------------------------------
OneMonth == {Loan(100, 1, 0, "amortizing")}

(* Loans at four monthly rates, zero included; a term of five months keeps *)
(* the powers of the level instalment inside TLC's integers.               *)
MCRates == {[num |-> 0, den |-> 1], [num |-> 1, den |-> 10],
            [num |-> 1, den |-> 20], [num |-> 1, den |-> 7]}

AnyLoan ==
    [principal : {1, 7, 99, 100, 250}, rate : MCRates, term : 1..5, start : {0, 11},
     model : Models, grace : {0, 1, 2, 6}, balloon : {0, 40, 300}]

FirstLoan == CHOOSE t \in AnyLoan : TRUE

\* The ledger and the sessions are taken through the modules that hold their
\* theorems, which are thus theorems of the instances, too.
Ledger == INSTANCE InvestmentLedgerProofs WITH
    Investors <- BookInvestors, Investments <- Slots, Terms <- OneMonth,
    StatusInputs <- {"active", "closed"}, Plan <- MCPlan,
    Instalment <- MCInstalment, Amounts <- {200}, InterestPortions <- {10},
    PageLimit <- 100, MaxPrincipal <- 100, MaxSeq <- 2, MaxMonth <- 0,
    MaxCollected <- 120, MaxClosings <- 1, today <- bookToday,
    investors <- bookInvestors, investments <- bookInvestments,
    payments <- bookPayments, events <- bookEvents, closings <- bookClosings

Sessions == INSTANCE RefreshTokensProofs WITH
    MaxRequests <- TokenRequests,
    prefixed <- tokenPrefixed, up <- tokenUp, failed <- tokenFailed,
    shocks <- tokenShocks, isActive <- tokenIsActive, live <- tokenLive,
    copy <- tokenCopy, issued <- tokenIssued, family <- tokenFamily,
    parent <- tokenParent, request <- tokenRequest, begun <- tokenBegun,
    received <- tokenReceived, held <- tokenHeld,
    overlapped <- tokenOverlapped, ended <- tokenEnded,
    reused <- tokenReused, closed <- tokenClosed

Calendar == INSTANCE BusinessCalendar WITH
    contractual <- dayContractual,
    policy <- dayPolicy, due <- dayDue, adjusted <- dayAdjusted,
    note <- dayNote

-----------------------------------------------------------------------------
(* Where a part is not the one the behaviour is about, one initial state   *)
(* of it is enough.                                                        *)
PlatformInit ==
    /\ part \in {"schedule", "ledger", "totals", "tokens", "codes", "users", "documents",
                "statements", "lists", "calendar"}
    /\ Init /\ (part # "schedule" => request = FirstLoan)
    /\ Ledger!Init /\ Totals!Init
    /\ Sessions!Init /\ (part # "tokens" => ~tokenPrefixed)
    /\ Recovery!Init /\ (part # "codes" => codeUp)
    /\ Directory!Init /\ (part # "users" => userUniqueIndex)
    /\ Library!Init
    /\ Reading!Init /\ (part # "statements" => readTerm = 1)
    /\ Walk!Init
    /\ part # "lists" => listDocuments = << >> /\ listLimit = (CHOOSE n \in Asked : TRUE)
    /\ Calendar!Init

ScheduleStep ==
    /\ part = "schedule" /\ Next
    /\ UNCHANGED <<part,
                    bookVars, totalVars, tokenVars, codeVars, userVars,
                    docVars, readVars, listVars, dayVars>>

LedgerStep ==
    /\ part = "ledger" /\ Ledger!Next
    /\ UNCHANGED <<part,
                    scheduleVars, totalVars, tokenVars, codeVars, userVars,
                    docVars, readVars, listVars, dayVars>>

TotalsStep ==
    /\ part = "totals" /\ Totals!Next
    /\ UNCHANGED <<part,
                    scheduleVars, bookVars, tokenVars, codeVars, userVars,
                    docVars, readVars, listVars, dayVars>>

TokenStep ==
    /\ part = "tokens" /\ Sessions!Next
    /\ UNCHANGED <<part,
                    scheduleVars, bookVars, totalVars, codeVars, userVars,
                    docVars, readVars, listVars, dayVars>>

CodeStep ==
    /\ part = "codes" /\ Recovery!Next
    /\ UNCHANGED <<part,
                    scheduleVars, bookVars, totalVars, tokenVars, userVars,
                    docVars, readVars, listVars, dayVars>>

UserStep ==
    /\ part = "users" /\ Directory!Next
    /\ UNCHANGED <<part,
                    scheduleVars, bookVars, totalVars, tokenVars, codeVars,
                    docVars, readVars, listVars, dayVars>>

DocumentStep ==
    /\ part = "documents" /\ Library!Next
    /\ UNCHANGED <<part,
                    scheduleVars, bookVars, totalVars, tokenVars, codeVars,
                    userVars, readVars, listVars, dayVars>>

StatementStep ==
    /\ part = "statements" /\ Reading!Next
    /\ UNCHANGED <<part,
                    scheduleVars, bookVars, totalVars, tokenVars, codeVars,
                    userVars, docVars, listVars, dayVars>>

ListStep ==
    /\ part = "lists" /\ Walk!Next
    /\ UNCHANGED <<part,
                    scheduleVars, bookVars, totalVars, tokenVars, codeVars,
                    userVars, docVars, readVars, dayVars>>

CalendarStep ==
    /\ part = "calendar" /\ Calendar!Next
    /\ UNCHANGED <<part,
                    scheduleVars, bookVars, totalVars, tokenVars, codeVars,
                    userVars, docVars, readVars, listVars>>

PlatformNext ==
    \/ ScheduleStep
    \/ LedgerStep
    \/ TotalsStep
    \/ TokenStep
    \/ CodeStep
    \/ UserStep
    \/ DocumentStep
    \/ StatementStep
    \/ ListStep
    \/ CalendarStep

PlatformSpec == PlatformInit /\ [][PlatformNext]_platformVars

Swaps == Permutations(Slots)

-----------------------------------------------------------------------------
(* The properties of the parts, each where its part is the one that moves:  *)
(* the others are in their initial state, which their own behaviours begin  *)
(* with.                                                                    *)

(* Every part keeps its types. *)
PlatformTypeOK ==
    /\ part = "schedule" => TypeOK
    /\ part = "ledger" => Ledger!TypeOK
    /\ part = "totals" => Totals!TypeOK
    /\ part = "tokens" => Sessions!TypeOK
    /\ part = "codes" => Recovery!TypeOK
    /\ part = "users" => Directory!TypeOK
    /\ part = "documents" => Library!TypeOK
    /\ part = "statements" => Reading!TypeOK
    /\ part = "lists" => Walk!TypeOK
    /\ part = "calendar" => Calendar!TypeOK

\* The totals of the investors follow every request (syncTotals).
TotalsFresh == part = "ledger" => Ledger!TotalsFresh
\* Synchronisations that overlap are repaired by the next one alone.
TotalsCatchUp == part = "totals" => Totals!TotalsCatchUp
\* A session that refreshes keeps one working token.
SessionsKept == part = "tokens" => Sessions!SessionsKept
\* A session that was ended stays ended, in both stores.
SessionsEnded == part = "tokens" => Sessions!SessionsEnded
\* Codes and reset tokens are used once, and guesses are bounded.
RecoveryRules == part = "codes" => Recovery!RecoveryRules
\* One account for an e-mail, live and deleted together with its profile.
AccountsConsistent == part = "users" => Directory!AccountsConsistent
\* Documents, downloads and the files on the disk agree.
LibraryConsistent == part = "documents" => Library!LibraryConsistent
\* Exports and dashboards show what was paid; exports are recorded.
StatementsSound == part = "statements" => Reading!StatementsSound
\* Reading page by page misses and repeats only what tied or moved.
WalkFaithful == part = "lists" => Walk!WalkFaithful
\* Instalments fall due on business days and stay in order.
DueDatesSound == part = "calendar" => Calendar!DueDatesSound
=============================================================================
